------------------------- MODULE AccountCareProofs -------------------------
(***************************************************************************)
(* AccountCare: what a redemption's snapshot holds, what becomes of the    *)
(* last edition of an auth file, and which verdicts a probe may reach, for *)
(* any number of accounts, redemptions, tasks and editions.                *)
(***************************************************************************)
EXTENDS AccountCare, TLAPS

\* A row is bound to a redemption that lists it, and exists.
BoundListed ==
    \A a \in Accounts : bound[a] # None => live[a] /\ a \in listed[bound[a]]

\* Nobody has an edition the provider has not made.
EditionsMade ==
    /\ \A a \in Accounts : stored[a] <= newest[a] /\ \A e \in spent[a] : e <= newest[a]
    /\ \A t \in Tasks : ~Idle(t) => /\ task[t].had <= newest[task[t].account]
                                    /\ task[t].got # None => task[t].got <= newest[task[t].account]

\* The file it loaded has a refresh token.
HasRefresh(t) == "refresh_token" \in files[task[t].account][task[t].had]

\* What a task knows where it is.
Orderly(t) ==
    /\ task[t].at = "session" => ~HasRefresh(t)
    /\ task[t].at = "check" => ~HasRefresh(t) \/ task[t].got # None
    /\ task[t].at = "wham" => task[t].got = None
    /\ task[t].at = "store" => task[t].got # None
    /\ task[t].at \in {"wham", "session", "check"} => task[t].kind = "probe"
    /\ task[t].at \in {"session", "check"} => task[t].deep
    /\ task[t].at = "exchange" /\ task[t].kind = "probe" => task[t].deep
    /\ ~Idle(t) => task[t].steady \in {None, standing[task[t].account]}
    /\ Idle(t) => task[t].verdict = None
    /\ task[t].at = "wham" => HasAccess(task[t].account, task[t].had)
    /\ task[t].at \in {"store", "record"} => task[t].verdict # None

TasksOrderly == \A t \in Tasks : Orderly(t)

\* A task between the making of a new edition and its store.
Holds(t) == task[t].at \in {"check", "store"} /\ task[t].got # None

\* It alone has that edition: the row does not, no other task got it or has
\* loaded it, so that nobody can use its refresh token before it is stored.
HoldsAlone(t) ==
    /\ task[t].got # 0
    /\ Accepts(task[t].account, task[t].got)
    /\ stored[task[t].account] # task[t].got
    /\ \A u \in Tasks : task[u].account = task[t].account =>
           /\ task[u].had # task[t].got
           /\ u # t => task[u].got # task[t].got

SoleHolder == \A t \in Tasks : Holds(t) => HoldsAlone(t)

\* RevivedWithCause, of one task.
Revived(t) ==
    task[t].kind = "probe" /\ task[t].verdict = "available" =>
        /\ task[t].steady \in {"blocked", "banned"} => task[t].deep /\ task[t].got # None
        /\ task[t].steady = "limited" => task[t].deep

VerdictsJust == \A t \in Tasks : Revived(t)

CareInv ==
    /\ CareTypeOK
    /\ SnapshotFollows
    /\ BoundListed
    /\ EditionsMade
    /\ TasksOrderly
    /\ SoleHolder
    /\ VerdictsJust

-----------------------------------------------------------------------------
(* What the code makes of the answers.                                     *)

\* The HTTP statuses of the provider's answers.
LEMMA OutageHttp ==
  \A answer \in Outage : (answer.http = 0 \/ answer.http = 500) /\ answer.says = "plain"
<1> SUFFICES ASSUME NEW answer \in Outage
             PROVE  (answer.http = 0 \/ answer.http = 500) /\ answer.says = "plain"
  OBVIOUS
<1>1. answer = NoAnswer \/ answer = [http |-> 500, says |-> "plain"]
  BY DEF Outage
<1>2. CASE answer = NoAnswer
  BY <1>2 DEF NoAnswer
<1>3. CASE answer = [http |-> 500, says |-> "plain"]
  BY <1>3
<1> QED
  BY <1>1, <1>2, <1>3

LEMMA SaidHttp == \A http, says : Said(http, says).http = http
BY DEF Said

LEMMA PageHttp ==
  /\ \A answer \in PageRefusals : answer.http \in {0, 500, 401, 403}
  /\ \A answer \in PageRefusals : answer.says = "plain"
<1> SUFFICES ASSUME NEW answer \in PageRefusals
             PROVE  answer.http \in {0, 500, 401, 403} /\ answer.says = "plain"
  OBVIOUS
<1>1. answer \in Outage \/ answer = Said(401, "plain") \/ answer = Said(403, "plain")
  BY DEF PageRefusals
<1>2. CASE answer \in Outage
  BY <1>2, OutageHttp
<1>3. CASE answer = Said(401, "plain")
  BY <1>3 DEF Said
<1>4. CASE answer = Said(403, "plain")
  BY <1>4 DEF Said
<1> QED
  BY <1>1, <1>2, <1>3, <1>4

LEMMA WhamHttp ==
  /\ \A s \in Minds : \A answer \in WhamAnswers(s) : answer.http \in {0, 500, 200, 401, 402, 403, 429}
  /\ \A s \in {"blocked", "banned"} : \A answer \in WhamAnswers(s) :
        answer.http \in {0, 500, 401, 402, 403}
  /\ \A answer \in WhamAnswers("limited") : answer.http \in {0, 500, 200, 401, 402, 403}
<1>1. ASSUME NEW answer \in WhamAnswers("good") PROVE answer.http \in {0, 500, 200, 401, 403, 429}
  <2>1. answer \in PageRefusals \/ answer = Said(200, "plain") \/ answer = Said(429, "plain")
    BY <1>1 DEF WhamAnswers
  <2>2. \/ answer.http \in {0, 500, 401, 403}
        \/ answer.http = 200
        \/ answer.http = 429
    BY <2>1, PageHttp, SaidHttp
  <2> QED
    BY <2>2
<1>2. ASSUME NEW answer \in WhamAnswers("limited") PROVE answer.http \in {0, 500, 200, 401, 402, 403}
  <2>1. answer \in PageRefusals \/ answer = Said(200, "plain") \/ answer = Said(402, "plain")
    BY <1>2 DEF WhamAnswers
  <2>2. \/ answer.http \in {0, 500, 401, 403}
        \/ answer.http = 200
        \/ answer.http = 402
    BY <2>1, PageHttp, SaidHttp
  <2> QED
    BY <2>2
<1>3. ASSUME NEW answer \in WhamAnswers("blocked") PROVE answer.http \in {0, 500, 401, 403}
  <2>1. answer \in PageRefusals
    BY <1>3 DEF WhamAnswers
  <2> QED
    BY <2>1, PageHttp
<1>4. ASSUME NEW answer \in WhamAnswers("banned") PROVE answer.http \in {0, 500, 401, 402, 403}
  <2>1. \/ answer \in PageRefusals
        \/ answer = Said(403, "account_deactivated")
        \/ answer = Said(403, "token_invalid")
        \/ answer = Said(403, "banned")
        \/ answer = Said(402, "workspace_deactivated")
    BY <1>4 DEF WhamAnswers
  <2>2. \/ answer.http \in {0, 500, 401, 403}
        \/ answer.http = 403
        \/ answer.http = 402
    BY <2>1, PageHttp, SaidHttp
  <2> QED
    BY <2>2
<1> QED
  BY <1>1, <1>2, <1>3, <1>4 DEF Minds

\* What an account check finds.
LEMMA CheckFindings ==
  /\ \A s \in {"good", "limited"} : \A answer \in CheckAnswers(s) :
        CheckFinding(answer) \in {"active", "probe_failed", "usage_limit_reached",
                                  "session_expired", "risk_blocked"}
  /\ \A s \in {"blocked", "banned"} : \A answer \in CheckAnswers(s) :
        CheckFinding(answer) \in {"session_expired", "banned", "risk_blocked", "probe_failed"}
<1>0. \A answer \in PageRefusals :
        CheckFinding(answer) \in {"probe_failed", "session_expired", "risk_blocked"}
  <2> SUFFICES ASSUME NEW answer \in PageRefusals
               PROVE  CheckFinding(answer) \in {"probe_failed", "session_expired", "risk_blocked"}
    OBVIOUS
  <2>1. "plain" \notin BanWords
    BY DEF BanWords
  <2>2. answer.says = "plain"
    BY PageHttp
  <2>3. CASE answer.http = 0 \/ answer.http = 500
    BY <2>3 DEF CheckFinding
  <2>4. CASE answer.http = 401
    BY <2>4 DEF CheckFinding
  <2>5. CASE answer.http = 403
    <3>1. answer.says \notin BanWords
      BY <2>1, <2>2
    <3> QED
      BY <2>5, <3>1 DEF CheckFinding
  <2> QED
    BY <2>3, <2>4, <2>5, PageHttp
<1>1. ASSUME NEW says PROVE CheckFinding(Said(200, says)) = "active"
  <2>1. Said(200, says).http = 200
    BY SaidHttp
  <2> QED
    BY <2>1 DEF CheckFinding
<1>2. ASSUME NEW says PROVE CheckFinding(Said(429, says)) \in {"usage_limit_reached", "probe_failed"}
  <2>1. Said(429, says).http = 429
    BY SaidHttp
  <2> QED
    BY <2>1 DEF CheckFinding
<1>3. ASSUME NEW says PROVE CheckFinding(Said(403, says)) \in {"banned", "risk_blocked"}
  <2>1. Said(403, says).http = 403
    BY SaidHttp
  <2> QED
    BY <2>1 DEF CheckFinding
<1>4. ASSUME NEW s \in {"good", "limited"}, NEW answer \in CheckAnswers(s)
      PROVE  \/ answer \in PageRefusals
             \/ answer = Said(200, "plain")
             \/ answer = Said(429, "plain")
             \/ answer = Said(429, "usage_limit")
  BY <1>4 DEF CheckAnswers
<1>5. ASSUME NEW s \in {"blocked", "banned"}, NEW answer \in CheckAnswers(s)
      PROVE  \/ answer \in PageRefusals
             \/ answer = Said(403, "banned")
             \/ answer = Said(403, "workspace_deactivated")
  BY <1>5 DEF CheckAnswers
<1> QED
  BY <1>0, <1>1, <1>2, <1>3, <1>4, <1>5

\* Every answer ends in an account status.
LEMMA StatusesFound ==
  /\ \A s \in Minds : WhamFound[s] \subseteq AccountStatus
  /\ \A s \in Minds, x \in BOOLEAN : RejectionFound[s][x] \subseteq AccountStatus
  /\ SessionFound \subseteq AccountStatus
  /\ \A s \in Minds, x \in BOOLEAN : CheckFound[s][x] \subseteq AccountStatus
<1>1. \A d \in {"active", "refreshed", "usage_limit_reached", "risk_blocked", "banned",
                "session_expired", "rt_invalid", "needs_login", "probe_failed"} :
        LifecycleStatus(d) \in AccountStatus
  BY DEF LifecycleStatus, AccountStatus
<1>2. ASSUME NEW s \in Minds PROVE WhamFound[s] \subseteq AccountStatus
  <2>1. \A answer \in WhamAnswers(s) : answer.http \in {0, 200, 401, 402, 403, 429, 500}
    BY WhamHttp DEF Minds
  <2>2. \A answer \in WhamAnswers(s), u \in Usages(s) : WhamStatus(answer, u) \in AccountStatus
    BY <2>1 DEF WhamStatus, AccountStatus
  <2> QED
    BY <2>2 DEF WhamFound
<1>3. ASSUME NEW s \in Minds, NEW x \in BOOLEAN PROVE RejectionFound[s][x] \subseteq AccountStatus
  <2>1. \A answer : RefreshFailure(answer) \in {"banned", "risk_blocked", "rt_invalid", "probe_failed"}
    BY DEF RefreshFailure
  <2> QED
    BY <1>1, <2>1 DEF RejectionFound
<1>4. SessionFound \subseteq AccountStatus
  <2>1. \A answer : SessionFailure(answer) \in {"session_expired", "risk_blocked", "probe_failed"}
    BY DEF SessionFailure
  <2> QED
    BY <1>1, <2>1 DEF SessionFound
<1>5. ASSUME NEW s \in Minds, NEW x \in BOOLEAN PROVE CheckFound[s][x] \subseteq AccountStatus
  <2>1. \A answer : CheckFinding(answer) \in
            {"active", "session_expired", "banned", "risk_blocked", "usage_limit_reached", "probe_failed"}
    BY DEF CheckFinding
  <2>2. \A d : Merged("refreshed", d) \in {"refreshed", "banned", "usage_limit_reached"}
    BY DEF Merged
  <2> QED
    BY <1>1, <2>1, <2>2 DEF CheckFound
<1> QED
  BY <1>2, <1>3, <1>4, <1>5

\* Which answers say that an account is available.
LEMMA AvailableFound ==
  /\ \A s \in {"limited", "blocked", "banned"} : "available" \notin WhamFound[s]
  /\ \A s \in Minds, x \in BOOLEAN : "available" \notin RejectionFound[s][x]
  /\ "available" \notin SessionFound
  /\ \A s \in {"blocked", "banned"} : "available" \notin CheckFound[s][FALSE]
<1>1. \A s \in {"blocked", "banned"} : "available" \notin WhamFound[s]
  <2>2. \A s \in {"blocked", "banned"} : \A answer \in WhamAnswers(s) :
           answer.http \in {0, 401, 402, 403, 500}
    BY WhamHttp
  <2>3. \A s \in {"blocked", "banned"} : \A answer \in WhamAnswers(s), u \in Usages(s) :
           WhamStatus(answer, u) # "available"
    BY <2>2 DEF WhamStatus
  <2> QED
    BY <2>3 DEF WhamFound, Minds
<1>2. "available" \notin WhamFound["limited"]
  <2>1. \A u \in Usages("limited") : Exhausted(u)
    <3> DEFINE fresh == [used |-> "below", reset |-> "ahead"]
               full == {w \in Window : Full(w)}
               Paid(w, v) == [free |-> FALSE, primary |-> w, secondary |-> v,
                              unlimited |-> FALSE, credits |-> "some"]
               Free(w) == [Paid(w, NoWindow) EXCEPT !.free = TRUE, !.credits = "none"]
               Empty == [Paid(NoWindow, NoWindow) EXCEPT !.credits = "none"]
    <3>1. Usages("limited") = {Paid(fresh, w) : w \in full} \cup {Paid(w, fresh) : w \in full}
                              \cup {Free(w) : w \in full} \cup {Empty}
      BY DEF Usages
    <3>2. \A w \in full : Blocks(w) /\ w # NoWindow
      BY DEF Full, Blocks, NoWindow
    <3>3. fresh # NoWindow
      BY DEF NoWindow
    <3>4. \A w \in full : Exhausted(Paid(fresh, w))
      BY <3>2 DEF Exhausted, WindowsKept
    <3>5. \A w \in full : Exhausted(Paid(w, fresh))
      BY <3>2, <3>3 DEF Exhausted, WindowsKept
    <3>6. \A w \in full : Exhausted(Free(w))
      BY <3>2 DEF Exhausted, WindowsKept
    <3>7. Exhausted(Empty)
      BY DEF Exhausted, WindowsKept, NoWindow
    <3> HIDE DEF fresh, full, Paid, Free, Empty
    <3> QED
      BY <3>1, <3>4, <3>5, <3>6, <3>7
  <2>2. \A answer \in WhamAnswers("limited") : answer.http \in {0, 200, 401, 402, 403, 500}
    BY WhamHttp
  <2>3. \A answer \in WhamAnswers("limited"), u \in Usages("limited") :
           WhamStatus(answer, u) # "available"
    BY <2>1, <2>2 DEF WhamStatus
  <2> QED
    BY <2>3 DEF WhamFound, Minds
<1>3. \A d \in {"risk_blocked", "banned", "session_expired", "rt_invalid", "probe_failed",
                "usage_limit_reached"} : LifecycleStatus(d) # "available"
  BY DEF LifecycleStatus
<1>4. \A s \in Minds, x \in BOOLEAN : "available" \notin RejectionFound[s][x]
  <2>1. \A answer : RefreshFailure(answer) \in {"banned", "risk_blocked", "rt_invalid", "probe_failed"}
    BY DEF RefreshFailure
  <2> QED
    BY <1>3, <2>1 DEF RejectionFound
<1>5. "available" \notin SessionFound
  <2>1. \A answer : SessionFailure(answer) \in {"session_expired", "risk_blocked", "probe_failed"}
    BY DEF SessionFailure
  <2> QED
    BY <1>3, <2>1 DEF SessionFound
<1>6. \A s \in {"blocked", "banned"} : "available" \notin CheckFound[s][FALSE]
  <2>2. \A s \in {"blocked", "banned"} : \A answer \in CheckAnswers(s) :
           CheckFinding(answer) \in {"session_expired", "banned", "risk_blocked", "probe_failed"}
    BY CheckFindings, Zenon
  <2> QED
    BY <1>3, <2>2 DEF CheckFound, Minds
<1> QED
  BY <1>1, <1>2, <1>4, <1>5, <1>6

\* Which answers say that an account is lost.
LEMMA LostFound ==
  /\ \A s \in {"good", "limited"} : RejectionFound[s][TRUE] \cap {"auth_invalid", "forbidden"} = {}
  /\ \A s \in {"good", "limited"} : CheckFound[s][TRUE] \cap {"auth_invalid", "forbidden"} = {}
<1>1. ASSUME NEW s \in {"good", "limited"}
      PROVE  RejectionFound[s][TRUE] \cap {"auth_invalid", "forbidden"} = {}
  <2>1. Rejections(s, TRUE) \subseteq Outage
    BY DEF Rejections
  <2>2. \A answer \in Outage : RefreshFailure(answer) = "probe_failed"
    <3> TAKE answer \in Outage
    <3>1. answer.http = 0 \/ answer.http = 500
      BY OutageHttp
    <3>2. answer.says \notin BanWords /\ answer.says # "invalid_grant"
      BY OutageHttp DEF BanWords
    <3>3. CASE answer.http = 0
      BY <3>2, <3>3 DEF RefreshFailure
    <3>4. CASE answer.http = 500
      BY <3>2, <3>4 DEF RefreshFailure
    <3> QED
      BY <3>1, <3>3, <3>4
  <2>3. LifecycleStatus("probe_failed") = "refresh_failed"
    BY DEF LifecycleStatus
  <2>4. \A answer \in Rejections(s, TRUE) : LifecycleStatus(RefreshFailure(answer)) = "refresh_failed"
    BY <2>1, <2>2, <2>3
  <2> QED
    BY <2>4 DEF RejectionFound, Minds
<1>2. ASSUME NEW s \in {"good", "limited"}
      PROVE  CheckFound[s][TRUE] \cap {"auth_invalid", "forbidden"} = {}
  <2>2. \A answer \in CheckAnswers(s) :
           CheckFinding(answer) \in {"active", "probe_failed", "usage_limit_reached",
                                     "session_expired", "risk_blocked"}
    BY CheckFindings, Zenon
  <2>3. \A d \in {"active", "probe_failed", "usage_limit_reached", "session_expired", "risk_blocked"} :
           LifecycleStatus(Merged("refreshed", d)) \in {"available", "quota_exhausted"}
    BY DEF LifecycleStatus, Merged
  <2>4. \A answer \in CheckAnswers(s) :
           LifecycleStatus(Merged("refreshed", CheckFinding(answer))) \in {"available", "quota_exhausted"}
    BY <2>2, <2>3
  <2> QED
    BY <2>4 DEF CheckFound, Minds
<1> QED
  BY <1>1, <1>2

\* An answer that gets lost.
LEMMA LostAnswer == LifecycleStatus(RefreshFailure(NoAnswer)) = "refresh_failed"
<1>1. NoAnswer.http = 0 /\ NoAnswer.says \notin BanWords /\ NoAnswer.says # "invalid_grant"
  BY DEF NoAnswer, BanWords
<1>2. RefreshFailure(NoAnswer) = "probe_failed"
  BY <1>1 DEF RefreshFailure
<1> QED
  BY <1>2 DEF LifecycleStatus

-----------------------------------------------------------------------------
(* What an action does to its task.                                        *)

Steps == {"idle", "wham", "exchange", "session", "check", "store", "record", "mark"}

\* All a task remembers stays but where it is, what it got and its verdict.
Keeps(t) ==
    /\ task' \in [Tasks -> TaskState]
    /\ \A u \in Tasks \ {t} : task'[u] = task[u]
    /\ task'[t].kind = task[t].kind /\ task'[t].account = task[t].account
    /\ task'[t].deep = task[t].deep /\ task'[t].sold = task[t].sold
    /\ task'[t].had = task[t].had /\ task'[t].steady = task[t].steady

LEMMA GoesKeeps ==
  ASSUME CareTypeOK, NEW t \in Tasks, NEW at \in Steps, Goes(t, at)
  PROVE  /\ Keeps(t)
         /\ task'[t].at = at /\ task'[t].got = task[t].got /\ task'[t].verdict = task[t].verdict
BY ZenonT(60) DEF CareTypeOK, TaskState, Goes, Keeps, Steps

LEMMA DecidesKeeps ==
  ASSUME CareTypeOK, NEW t \in Tasks, NEW at \in Steps, NEW v \in AccountStatus \cup {None},
         Decides(t, at, v)
  PROVE  /\ Keeps(t)
         /\ task'[t].at = at /\ task'[t].got = task[t].got /\ task'[t].verdict = v
<1> DEFINE k == [task[t] EXCEPT !.at = at, !.verdict = v]
<1>1. task[t] \in TaskState
  BY DEF CareTypeOK
<1>2. /\ k \in TaskState /\ k.at = at /\ k.verdict = v /\ k.got = task[t].got
      /\ k.kind = task[t].kind /\ k.account = task[t].account /\ k.deep = task[t].deep
      /\ k.sold = task[t].sold /\ k.had = task[t].had /\ k.steady = task[t].steady
  BY <1>1, ZenonT(60) DEF TaskState, Steps
<1>3. task' = [task EXCEPT ![t] = k]
  BY DEF CareTypeOK, Decides
<1> HIDE DEF k
<1> QED
  BY <1>2, <1>3 DEF CareTypeOK, Keeps

LEMMA ReceivesKeeps ==
  ASSUME CareTypeOK, NEW t \in Tasks, NEW next \in {"check", "store"}, Receives(t, next),
         newest[task[t].account] + 1 \in Editions
  PROVE  /\ Keeps(t)
         /\ task'[t].at = next
         /\ task'[t].got = newest[task[t].account] + 1
         /\ task'[t].verdict = IF next = "store" THEN "available" ELSE None
<1> DEFINE v == IF next = "store" THEN "available" ELSE None
           k == [task[t] EXCEPT !.at = next, !.got = newest[task[t].account] + 1, !.verdict = v]
<1>1. task[t] \in TaskState /\ v \in AccountStatus \cup {None}
  BY DEF CareTypeOK, AccountStatus
<1>2. task' = [task EXCEPT ![t] = k]
  BY DEF CareTypeOK, Receives
<1> HIDE DEF v
<1>3. /\ k \in TaskState /\ k.at = next /\ k.verdict = v
      /\ k.got = newest[task[t].account] + 1
      /\ k.kind = task[t].kind /\ k.account = task[t].account /\ k.deep = task[t].deep
      /\ k.sold = task[t].sold /\ k.had = task[t].had /\ k.steady = task[t].steady
  BY <1>1 DEF TaskState
<1> HIDE DEF k
<1>4. Keeps(t) /\ task'[t].at = next /\ task'[t].got = newest[task[t].account] + 1
      /\ task'[t].verdict = v
  BY <1>2, <1>3 DEF CareTypeOK, Keeps
<1> QED
  BY <1>4 DEF v

\* A new edition is the next one, and the earlier ones stay what they are.
LEMMA MakesSets ==
  ASSUME CareTypeOK, NEW a \in Accounts, NEW e \in Editions, NEW c \in SUBSET Credentials,
         Makes(a, e, c)
  PROVE  /\ newest[a] \in Nat /\ newest[a] + 1 \in Editions
         /\ newest' \in [Accounts -> Editions]
         /\ newest'[a] = newest[a] + 1
         /\ \A b \in Accounts \ {a} : newest'[b] = newest[b]
         /\ files' \in [Accounts -> [Editions -> SUBSET Credentials]]
         /\ \A b \in Accounts, x \in Editions : x <= newest[b] => files'[b][x] = files[b][x]
<1>1. start.last \in Editions /\ MaxEdition \in Nat
  BY CareAssumption DEF CareTypeOK, Editions
<1>2. /\ newest[a] \in Nat /\ newest[a] + 1 \in Editions
      /\ newest' = [newest EXCEPT ![a] = @ + 1]
  BY <1>1 DEF CareTypeOK, Makes, Editions
<1>3. /\ newest' \in [Accounts -> Editions]
      /\ newest'[a] = newest[a] + 1
      /\ \A b \in Accounts \ {a} : newest'[b] = newest[b]
  BY <1>2 DEF CareTypeOK
<1> DEFINE f == [files[a] EXCEPT ![newest[a] + 1] = files[a][e] \cup c]
<1>4. f \in [Editions -> SUBSET Credentials]
  BY <1>2 DEF CareTypeOK
<1>5. files' = [files EXCEPT ![a] = f]
  BY DEF Makes, CareTypeOK
<1>6. \A x \in Editions : x <= newest[a] => f[x] = files[a][x]
  <2> TAKE x \in Editions
  <2>1. x <= newest[a] => x # newest[a] + 1
    BY <1>2 DEF Editions
  <2> QED
    BY <2>1 DEF CareTypeOK
<1> HIDE DEF f
<1>7. files' \in [Accounts -> [Editions -> SUBSET Credentials]]
  BY <1>4, <1>5 DEF CareTypeOK
<1>8. \A b \in Accounts : files'[b] = IF b = a THEN f ELSE files[b]
  BY <1>5 DEF CareTypeOK
<1> QED
  BY <1>2, <1>3, <1>6, <1>7, <1>8

\* A task that starts has nothing in hand.
LEMMA BegunSets ==
  ASSUME CareTypeOK, NEW t \in Tasks, NEW a \in Accounts, NEW kind \in {"probe", "refresh"},
         NEW deep \in BOOLEAN, NEW at \in Steps, NEW v \in AccountStatus \cup {None},
         Begun(t, a, kind, deep, at, v)
  PROVE  /\ task' \in [Tasks -> TaskState]
         /\ \A u \in Tasks \ {t} : task'[u] = task[u]
         /\ task'[t].at = at /\ task'[t].kind = kind /\ task'[t].account = a
         /\ task'[t].deep = deep /\ task'[t].had = stored[a] /\ task'[t].got = None
         /\ task'[t].verdict = v /\ task'[t].steady = standing[a]
BY DEF CareTypeOK, TaskState, Begun, Steps

LEMMA RestSets ==
  ASSUME CareTypeOK, NEW t \in Tasks, task' = [task EXCEPT ![t] = Resting]
  PROVE  /\ task' \in [Tasks -> TaskState]
         /\ \A u \in Tasks \ {t} : task'[u] = task[u]
         /\ task'[t] = Resting
<1>1. Resting \in TaskState
  BY CareAssumption DEF Resting, TaskState, Editions
<1> QED
  BY <1>1 DEF CareTypeOK

-----------------------------------------------------------------------------
(* The tables.                                                             *)

\* Nothing that is not a write changes what rows and redemptions say.
LEMMA TablesKept ==
  ASSUME CareInv, UNCHANGED tables
  PROVE  SnapshotFollows' /\ BoundListed'
BY DEF CareInv, SnapshotFollows, BoundListed, tables

\* A late store reaches the snapshot of the redemption the row is bound to.
LEMMA StoreRows ==
  ASSUME CareInv, NEW t \in Tasks, Store(t)
  PROVE  SnapshotFollows' /\ BoundListed'
<1> DEFINE a == task[t].account
<1>1. UNCHANGED <<live, bound, listed>>
  BY DEF Store
<1>2. BoundListed'
  BY <1>1 DEF CareInv, BoundListed
<1>3. a \in Accounts
  BY DEF CareInv, CareTypeOK, TaskState, Idle, Store
<1>4. SnapshotFollows'
  <2> SUFFICES ASSUME NEW d \in Redemptions, NEW b \in listed[d], live[b]
               PROVE  /\ bound[b] = d
                      /\ (\A x \in listed[d] : live[x]) => snapshot'[d][b] = stored'[b]
    BY <1>1 DEF SnapshotFollows
  <2>0. b \in Accounts
    BY DEF CareInv, CareTypeOK
  <2>1. bound[b] = d /\ ((\A x \in listed[d] : live[x]) => snapshot[d][b] = stored[b])
    BY DEF CareInv, SnapshotFollows
  <2>2. CASE stored' = stored /\ snapshot' = snapshot
    BY <2>1, <2>2
  <2>3. CASE StoreUnredeemed(a, task[t].got, task[t].verdict) /\ ~(stored' = stored /\ snapshot' = snapshot)
    <3>1. /\ stored' = [stored EXCEPT ![a] = task[t].got] /\ snapshot' = snapshot
          /\ bound[a] = None
      BY <2>3 DEF StoreUnredeemed
    <3>2. d # None
      BY CareAssumption
    <3>3. b # a
      BY <2>1, <3>1, <3>2
    <3> QED
      BY <2>0, <2>1, <3>1, <3>3 DEF CareInv, CareTypeOK
  <2>4. CASE StoreRedeemed(a, task[t].got) /\ ~(stored' = stored /\ snapshot' = snapshot)
    <3>1. /\ stored' = [stored EXCEPT ![a] = task[t].got]
          /\ snapshot' = IF \A x \in listed[bound[a]] : live[x]
                         THEN [snapshot EXCEPT ![bound[a]] = Rebuilt(bound[a])] ELSE snapshot
          /\ bound[a] # None /\ live[a]
      BY <2>4 DEF StoreRedeemed
    <3>2. CASE d = bound[a]
      <4>1. (\A x \in listed[d] : live[x]) => snapshot'[d] = Rebuilt(d)
        BY <3>1, <3>2 DEF CareInv, CareTypeOK
      <4> QED
        BY <2>0, <2>1, <4>1 DEF Rebuilt
    <3>3. CASE d # bound[a]
      <4>1. b # a /\ stored'[b] = stored[b] /\ snapshot'[d] = snapshot[d]
        BY <2>0, <2>1, <3>1, <3>3 DEF CareInv, CareTypeOK
      <4> QED
        BY <2>1, <4>1
    <3> QED
      BY <3>2, <3>3
  <2> QED
    BY <2>2, <2>3, <2>4 DEF Store
<1> QED
  BY <1>2, <1>4

LEMMA StatusRows ==
  ASSUME CareInv, NEW a, NEW s, SetStatus(a, s)
  PROVE  SnapshotFollows' /\ BoundListed'
BY DEF CareInv, SnapshotFollows, BoundListed, SetStatus

\* A delivery takes unbound rows only, so that no other redemption has them.
LEMMA DeliverRows ==
  ASSUME CareInv, NEW d \in Redemptions, Deliver(d)
  PROVE  SnapshotFollows' /\ BoundListed'
<1>1. PICK S \in SUBSET {a \in Accounts : live[a] /\ bound[a] = None /\ status[a] = "available"} :
        /\ bound' = [a \in Accounts |-> IF a \in S THEN d ELSE bound[a]]
        /\ listed' = [listed EXCEPT ![d] = S]
        /\ snapshot' = [snapshot EXCEPT ![d] = [a \in Accounts |-> IF a \in S THEN stored[a] ELSE 0]]
  BY DEF Deliver
<1>2. listed[d] = {} /\ UNCHANGED <<live, stored>> /\ d # None
  BY CareAssumption DEF Deliver
<1>3. BoundListed'
  <2> SUFFICES ASSUME NEW a \in Accounts, bound'[a] # None
               PROVE  live[a] /\ a \in listed'[bound'[a]]
    BY <1>2 DEF BoundListed
  <2>1. CASE a \in S
    BY <1>1, <2>1 DEF CareInv, CareTypeOK
  <2>2. CASE a \notin S
    <3>1. bound'[a] = bound[a] /\ live[a] /\ a \in listed[bound[a]]
      BY <1>1, <2>2 DEF CareInv, BoundListed
    <3>2. bound[a] # d /\ bound[a] \in Redemptions
      BY <1>2, <3>1 DEF CareInv, CareTypeOK
    <3> QED
      BY <1>1, <3>1, <3>2 DEF CareInv, CareTypeOK
  <2> QED
    BY <2>1, <2>2
<1>4. SnapshotFollows'
  <2> SUFFICES ASSUME NEW e \in Redemptions, NEW b \in listed'[e], live[b]
               PROVE  /\ bound'[b] = e
                      /\ (\A x \in listed'[e] : live[x]) => snapshot'[e][b] = stored[b]
    BY <1>2 DEF SnapshotFollows
  <2>1. CASE e = d
    BY <1>1, <2>1 DEF CareInv, CareTypeOK
  <2>2. CASE e # d
    <3>1. listed'[e] = listed[e] /\ snapshot'[e] = snapshot[e]
      BY <1>1, <2>2 DEF CareInv, CareTypeOK
    <3>2. b \in Accounts /\ e # None
      BY <3>1, CareAssumption DEF CareInv, CareTypeOK
    <3>3. bound[b] = e /\ ((\A x \in listed[e] : live[x]) => snapshot[e][b] = stored[b])
      BY <3>1 DEF CareInv, SnapshotFollows
    <3>4. b \notin S
      BY <3>2, <3>3
    <3> QED
      BY <1>1, <3>1, <3>2, <3>3, <3>4
  <2> QED
    BY <2>1, <2>2
<1> QED
  BY <1>3, <1>4

LEMMA DeleteBatchRows ==
  ASSUME CareInv, NEW D \in SUBSET Redemptions, DeleteBatch(D)
  PROVE  SnapshotFollows' /\ BoundListed'
<1>1. /\ bound' = [a \in Accounts |-> IF bound[a] \in D THEN None ELSE bound[a]]
      /\ listed' = [d \in Redemptions |-> IF d \in D THEN {} ELSE listed[d]]
      /\ snapshot' = [d \in Redemptions |-> IF d \in D THEN [a \in Accounts |-> 0] ELSE snapshot[d]]
      /\ UNCHANGED <<live, stored>>
  BY DEF DeleteBatch
<1>2. BoundListed'
  <2> SUFFICES ASSUME NEW a \in Accounts, bound'[a] # None
               PROVE  live[a] /\ a \in listed'[bound'[a]]
    BY <1>1 DEF BoundListed
  <2>1. bound[a] \notin D /\ bound'[a] = bound[a]
    BY <1>1
  <2>2. bound[a] \in Redemptions /\ live[a] /\ a \in listed[bound[a]]
    BY <2>1 DEF CareInv, CareTypeOK, BoundListed
  <2> QED
    BY <1>1, <2>1, <2>2
<1>3. SnapshotFollows'
  <2> SUFFICES ASSUME NEW d \in Redemptions, NEW b \in listed'[d], live[b]
               PROVE  /\ bound'[b] = d
                      /\ (\A x \in listed'[d] : live[x]) => snapshot'[d][b] = stored[b]
    BY <1>1 DEF SnapshotFollows
  <2>1. d \notin D /\ listed'[d] = listed[d] /\ snapshot'[d] = snapshot[d]
    BY <1>1
  <2>2. b \in Accounts
    BY <2>1 DEF CareInv, CareTypeOK
  <2>3. bound[b] = d /\ ((\A x \in listed[d] : live[x]) => snapshot[d][b] = stored[b])
    BY <2>1 DEF CareInv, SnapshotFollows
  <2> QED
    BY <1>1, <2>1, <2>2, <2>3
<1> QED
  BY <1>2, <1>3

\* With a row of it missing, a redemption's snapshot stays what it was.
LEMMA DeleteAccountRows ==
  ASSUME CareInv, NEW a \in Accounts, DeleteAccount(a)
  PROVE  SnapshotFollows' /\ BoundListed'
<1>1. /\ live' = [live EXCEPT ![a] = FALSE]
      /\ bound' = [bound EXCEPT ![a] = None]
      /\ stored' = [stored EXCEPT ![a] = 0]
      /\ UNCHANGED <<listed, snapshot>>
  BY DEF DeleteAccount
<1>2. BoundListed'
  BY <1>1 DEF CareInv, CareTypeOK, BoundListed
<1>3. SnapshotFollows'
  <2> SUFFICES ASSUME NEW d \in Redemptions, NEW b \in listed[d], live'[b]
               PROVE  /\ bound'[b] = d
                      /\ (\A x \in listed[d] : live'[x]) => snapshot[d][b] = stored'[b]
    BY <1>1 DEF SnapshotFollows
  <2>1. b \in Accounts
    BY DEF CareInv, CareTypeOK
  <2>2. b # a /\ live[b] /\ bound'[b] = bound[b] /\ stored'[b] = stored[b]
    BY <1>1, <2>1 DEF CareInv, CareTypeOK
  <2>3. bound[b] = d /\ ((\A x \in listed[d] : live[x]) => snapshot[d][b] = stored[b])
    BY <2>2 DEF CareInv, SnapshotFollows
  <2>4. ASSUME \A x \in listed[d] : live'[x] PROVE \A x \in listed[d] : live[x]
    BY <1>1, <2>4 DEF CareInv, CareTypeOK
  <2> QED
    BY <2>2, <2>3, <2>4
<1> QED
  BY <1>2, <1>3

LEMMA ReimportRows ==
  ASSUME CareInv, NEW a \in Accounts, Reimport(a)
  PROVE  SnapshotFollows' /\ BoundListed'
<1>1. /\ live[a] /\ bound[a] = None
      /\ stored' = [stored EXCEPT ![a] = 0]
      /\ UNCHANGED <<live, bound, listed, snapshot>>
  BY DEF Reimport
<1>2. BoundListed'
  BY <1>1 DEF CareInv, BoundListed
<1>3. SnapshotFollows'
  <2> SUFFICES ASSUME NEW d \in Redemptions, NEW b \in listed[d], live[b]
               PROVE  /\ bound[b] = d
                      /\ (\A x \in listed[d] : live[x]) => snapshot[d][b] = stored'[b]
    BY <1>1 DEF SnapshotFollows
  <2>1. bound[b] = d /\ ((\A x \in listed[d] : live[x]) => snapshot[d][b] = stored[b])
    BY DEF CareInv, SnapshotFollows
  <2>2. d # None /\ b # a
    BY <1>1, <2>1, CareAssumption
  <2>3. stored'[b] = stored[b]
    BY <1>1, <2>2 DEF CareInv, CareTypeOK
  <2> QED
    BY <2>1, <2>3
<1> QED
  BY <1>2, <1>3

-----------------------------------------------------------------------------
(* The tasks.                                                              *)

LEMMA AtAccount ==
  ASSUME CareInv, NEW t \in Tasks
  PROVE  /\ task[t] \in TaskState
         /\ ~Idle(t) => task[t].account \in Accounts
         /\ Idle(t) => task[t].account = None
         /\ Orderly(t) /\ Revived(t)
BY DEF CareInv, CareTypeOK, TaskState, TasksOrderly, VerdictsJust

\* A task moves on without a new edition and without a write.
LEMMA MoveStep ==
  ASSUME CareInv, NEW t \in Tasks, Keeps(t), ~Idle(t), ~Idle(t)',
         UNCHANGED <<start, provider, tables>>,
         task'[t].got = task[t].got, Holds(t)' => Holds(t),
         Orderly(t)', Revived(t)'
  PROVE  CareInv'
<1> USE DEF provider, editions, tables
<1>1. CareTypeOK'
  <2>1. \A u \in Tasks : task'[u].account = None <=> Idle(u)'
    BY DEF CareInv, CareTypeOK, Keeps, Idle
  <2> QED
    BY <2>1 DEF CareInv, CareTypeOK, Keeps
<1>2. SnapshotFollows' /\ BoundListed'
  BY TablesKept
<1>3. EditionsMade'
  BY DEF CareInv, EditionsMade, Keeps, Idle
<1>4. TasksOrderly'
  BY DEF CareInv, TasksOrderly, Orderly, HasRefresh, HasAccess, Idle, Keeps
<1>5. SoleHolder'
  <2>1. \A u \in Tasks : Holds(u)' => Holds(u)
    BY DEF Holds, Keeps
  <2>2. \A u \in Tasks : task'[u].account = task[u].account /\ task'[u].had = task[u].had
                         /\ task'[u].got = task[u].got
    BY DEF Keeps
  <2>3. \A u \in Tasks : Holds(u) => HoldsAlone(u)
    BY DEF CareInv, SoleHolder
  <2> QED
    BY <2>1, <2>2, <2>3 DEF SoleHolder, HoldsAlone, Accepts
<1>6. VerdictsJust'
  BY DEF CareInv, VerdictsJust, Revived, Keeps
<1> QED
  BY <1>1, <1>2, <1>3, <1>4, <1>5, <1>6 DEF CareInv

\* The provider makes a new edition, which the task has or has lost.
LEMMA NewEditionStep ==
  ASSUME CareInv, NEW t \in Tasks, Keeps(t), ~Idle(t), ~Idle(t)',
         UNCHANGED <<start, standing, tables>>,
         NEW c \in SUBSET Credentials, Makes(task[t].account, task[t].had, c),
         \/ spent' = spent
         \/ spent' = [spent EXCEPT ![task[t].account] = @ \cup {task[t].had}],
         \/ task'[t].got = newest[task[t].account] + 1
         \/ task'[t].got = task[t].got /\ ~Holds(t)',
         Orderly(t)', Revived(t)'
  PROVE  CareInv'
<1> DEFINE a == task[t].account
<1> USE DEF tables
<1>0. /\ a \in Accounts /\ task[t].had \in Editions
      /\ newest[a] \in Nat /\ newest'[a] = newest[a] + 1 /\ newest[a] + 1 \in Editions
      /\ newest' \in [Accounts -> Editions]
      /\ files' \in [Accounts -> [Editions -> SUBSET Credentials]]
      /\ \A b \in Accounts \ {a} : newest'[b] = newest[b]
      /\ \A b \in Accounts, x \in Editions : x <= newest[b] => files'[b][x] = files[b][x]
  <2>1. a \in Accounts /\ task[t].had \in Editions
    BY AtAccount DEF TaskState
  <2> QED
    BY <2>1, MakesSets DEF CareInv
<1>1. spent' \in [Accounts -> SUBSET Editions]
      /\ \A b \in Accounts : \A e \in spent'[b] : e \in spent[b] \/ (b = a /\ e = task[t].had)
  <2>1. spent \in [Accounts -> SUBSET Editions]
    BY DEF CareInv, CareTypeOK
  <2>2. CASE spent' = spent
    BY <2>1, <2>2
  <2>3. CASE spent' = [spent EXCEPT ![a] = @ \cup {task[t].had}]
    BY <1>0, <2>1, <2>3
  <2> QED
    BY <2>2, <2>3
<1>2. CareTypeOK'
  <2>1. ASSUME NEW u \in Tasks PROVE task'[u].account = None <=> Idle(u)'
    <3>1. CASE u = t
      BY <1>0, <3>1, CareAssumption DEF Keeps
    <3>2. CASE u # t
      <4>1. task'[u] = task[u]
        BY <3>2 DEF Keeps
      <4> QED
        BY <4>1 DEF CareInv, CareTypeOK, Idle
    <3> QED
      BY <3>1, <3>2
  <2> QED
    BY <1>0, <1>1, <2>1 DEF CareInv, CareTypeOK, Keeps
<1>3. SnapshotFollows' /\ BoundListed'
  BY TablesKept
<1>4. /\ \A b \in Accounts : stored[b] <= newest[b] /\ stored[b] \in Nat
      /\ \A b \in Accounts : \A e \in spent[b] : e \in Nat /\ e <= newest[b]
      /\ \A u \in Tasks : ~Idle(u) =>
            /\ task[u].account \in Accounts /\ task[u].had \in Editions
            /\ task[u].had \in Nat /\ task[u].had <= newest[task[u].account]
            /\ task[u].got # None => task[u].got \in Nat /\ task[u].got <= newest[task[u].account]
  BY DEF CareInv, CareTypeOK, TaskState, EditionsMade, Editions
<1>5. \A b \in Accounts : newest[b] <= newest'[b] /\ newest[b] \in Nat /\ newest'[b] \in Nat
  <2> TAKE b \in Accounts
  <2>1. newest[b] \in Nat
    BY DEF CareInv, CareTypeOK, Editions
  <2>2. CASE b = a
    BY <1>0, <2>2
  <2>3. CASE b # a
    <3>1. newest'[b] = newest[b]
      BY <1>0, <2>3
    <3> QED
      BY <2>1, <3>1
  <2> QED
    BY <2>2, <2>3
<1>6. EditionsMade'
  <2>1. \A b \in Accounts : stored[b] <= newest'[b] /\ \A e \in spent'[b] : e <= newest'[b]
    <3> SUFFICES ASSUME NEW b \in Accounts
                 PROVE  stored[b] <= newest'[b] /\ \A e \in spent'[b] : e <= newest'[b]
      OBVIOUS
    <3>1. stored[b] <= newest'[b]
      BY <1>4, <1>5
    <3>2. ASSUME NEW e \in spent'[b] PROVE e <= newest'[b]
      <4>1. e \in Nat /\ e <= newest[b]
        BY <1>1, <1>4
      <4> QED
        BY <1>5, <4>1
    <3> QED
      BY <3>1, <3>2
  <2>2. ASSUME NEW u \in Tasks \ {t}, ~Idle(u)
        PROVE  /\ task[u].had <= newest'[task[u].account]
               /\ task[u].got # None => task[u].got <= newest'[task[u].account]
    <3>1. task[u].account \in Accounts
      BY <1>4, <2>2
    <3>2. newest[task[u].account] <= newest'[task[u].account]
          /\ newest[task[u].account] \in Nat /\ newest'[task[u].account] \in Nat
      BY <1>5, <3>1
    <3> QED
      BY <1>4, <2>2, <3>2
  <2>3. /\ task'[t].had <= newest'[a]
        /\ task'[t].got # None => task'[t].got <= newest'[a]
    BY <1>0, <1>4 DEF Keeps
  <2> QED
    BY <2>1, <2>2, <2>3 DEF EditionsMade, Idle, Keeps
<1>7. TasksOrderly'
  <2> SUFFICES ASSUME NEW u \in Tasks \ {t} PROVE Orderly(u)'
    BY DEF TasksOrderly
  <2>1. task'[u] = task[u] /\ Orderly(u)
    BY AtAccount DEF Keeps
  <2>2. CASE Idle(u)
    BY <2>1, <2>2 DEF Orderly, Idle
  <2>3. CASE ~Idle(u)
    <3>1. files'[task[u].account][task[u].had] = files[task[u].account][task[u].had]
      BY <1>0, <1>4, <2>3
    <3> QED
      BY <2>1, <3>1 DEF Orderly, HasRefresh, HasAccess, Idle
  <2> QED
    BY <2>2, <2>3
<1>8. SoleHolder'
  <2> SUFFICES ASSUME NEW u \in Tasks, Holds(u)' PROVE HoldsAlone(u)'
    BY DEF SoleHolder
  <2>1. CASE u = t
    <3>1. task'[t].got = newest'[a] /\ task'[t].got # 0 /\ task'[t].account = a
      BY <1>0, <2>1 DEF Keeps
    <3>2. stored[a] # newest'[a] /\ newest'[a] \notin spent'[a]
      BY <1>0, <1>1, <1>4
    <3>3. ASSUME NEW v \in Tasks, task'[v].account = a
          PROVE  task'[v].had # newest'[a] /\ (v # t => task'[v].got # newest'[a])
      <4>1. /\ task[v].account = a /\ task'[v].had = task[v].had
            /\ v # t => task'[v].got = task[v].got
        BY <3>3 DEF Keeps
      <4>2. ~Idle(v)
        BY <1>0, <4>1, AtAccount, CareAssumption
      <4>3. /\ task[v].had \in Nat /\ task[v].had <= newest[a]
            /\ task[v].got # None => task[v].got \in Nat /\ task[v].got <= newest[a]
        BY <1>4, <4>1, <4>2
      <4>4. newest'[a] # None
        BY <1>0, CareAssumption DEF Editions
      <4> QED
        BY <1>0, <4>1, <4>3, <4>4
    <3> QED
      BY <2>1, <3>1, <3>2, <3>3 DEF HoldsAlone, Accepts
  <2>2. CASE u # t
    <3>1. task'[u] = task[u] /\ Holds(u)
      BY <2>2 DEF Holds, Keeps
    <3>2. HoldsAlone(u) /\ ~Idle(u) /\ task[u].account \in Accounts
      BY <3>1, AtAccount DEF CareInv, SoleHolder, Holds, Idle
    <3>3. task[u].got \notin spent'[task[u].account]
      BY <1>1, <3>2 DEF HoldsAlone, Accepts
    <3>4. ASSUME NEW v \in Tasks, task'[v].account = task[u].account
          PROVE  task'[v].had # task[u].got /\ (v # u => task'[v].got # task[u].got)
      <4>1. task[v].account = task[u].account /\ task'[v].had = task[v].had
        BY <3>4 DEF Keeps
      <4>2. CASE task'[v].got = task[v].got
        BY <3>2, <4>1, <4>2 DEF HoldsAlone
      <4>3. CASE v = t /\ task'[t].got = newest[a] + 1
        <5>1. task[u].got \in Nat /\ task[u].got <= newest[a]
          BY <1>4, <3>1, <3>2, <4>1, <4>3 DEF Holds
        <5> QED
          BY <1>0, <3>2, <4>1, <4>3, <5>1 DEF HoldsAlone
      <4> QED
        BY <4>2, <4>3 DEF Keeps
    <3> QED
      BY <3>1, <3>2, <3>3, <3>4 DEF HoldsAlone, Accepts
  <2> QED
    BY <2>1, <2>2
<1>9. VerdictsJust'
  BY DEF CareInv, VerdictsJust, Revived, Keeps
<1> QED
  BY <1>2, <1>3, <1>6, <1>7, <1>8, <1>9 DEF CareInv

\* A task starts: what it loads, no other task has in hand.
LEMMA BegunStep ==
  ASSUME CareInv, NEW t \in Tasks, NEW a \in Accounts, NEW kind \in {"probe", "refresh"},
         NEW deep \in BOOLEAN, NEW at \in Steps \ {"idle"}, NEW v \in AccountStatus \cup {None},
         Begun(t, a, kind, deep, at, v), UNCHANGED <<start, provider, tables>>,
         Orderly(t)', Revived(t)'
  PROVE  CareInv'
<1> USE DEF provider, editions, tables
<1>0. /\ task' \in [Tasks -> TaskState]
      /\ \A u \in Tasks \ {t} : task'[u] = task[u]
      /\ task'[t].at = at /\ task'[t].account = a /\ task'[t].had = stored[a] /\ task'[t].got = None
  BY BegunSets DEF CareInv
<1>1. CareTypeOK'
  <2>1. \A u \in Tasks : task'[u].account = None <=> Idle(u)'
    BY <1>0, CareAssumption DEF CareInv, CareTypeOK, Idle
  <2> QED
    BY <1>0, <2>1 DEF CareInv, CareTypeOK
<1>2. SnapshotFollows' /\ BoundListed'
  BY TablesKept
<1>3. EditionsMade'
  BY <1>0 DEF CareInv, EditionsMade, Idle
<1>4. TasksOrderly'
  BY <1>0 DEF CareInv, TasksOrderly, Orderly, HasRefresh, HasAccess, Idle
<1>5. SoleHolder'
  <2> SUFFICES ASSUME NEW u \in Tasks, Holds(u)' PROVE HoldsAlone(u)'
    BY DEF SoleHolder
  <2>1. u # t /\ task'[u] = task[u] /\ Holds(u)
    BY <1>0 DEF Holds
  <2>2. HoldsAlone(u)
    BY <2>1 DEF CareInv, SoleHolder
  <2>3. ASSUME NEW w \in Tasks, task'[w].account = task[u].account
        PROVE  task'[w].had # task[u].got /\ (w # u => task'[w].got # task[u].got)
    <3>1. CASE w = t
      BY <1>0, <2>2, <2>3, <3>1 DEF HoldsAlone, Holds
    <3>2. CASE w # t
      BY <1>0, <2>2, <2>3, <3>2 DEF HoldsAlone, Holds
    <3> QED
      BY <3>1, <3>2
  <2> QED
    BY <2>1, <2>2, <2>3 DEF HoldsAlone, Accepts
<1>6. VerdictsJust'
  BY <1>0 DEF CareInv, VerdictsJust, Revived
<1> QED
  BY <1>1, <1>2, <1>3, <1>4, <1>5, <1>6 DEF CareInv

LEMMA RestStep ==
  ASSUME CareInv, NEW t \in Tasks, Abort(t), UNCHANGED start
  PROVE  CareInv'
<1> USE DEF provider, editions, tables
<1>0. /\ task' \in [Tasks -> TaskState]
      /\ \A u \in Tasks \ {t} : task'[u] = task[u]
      /\ task'[t] = Resting
      /\ UNCHANGED <<start, provider, tables>>
  BY RestSets DEF CareInv, Abort
<1>1. CareTypeOK'
  <2>1. ASSUME NEW u \in Tasks PROVE task'[u].account = None <=> Idle(u)'
    <3>1. CASE u = t
      BY <1>0, <3>1 DEF Idle, Resting
    <3>2. CASE u # t
      <4>1. task'[u] = task[u]
        BY <1>0, <3>2
      <4> QED
        BY <4>1 DEF CareInv, CareTypeOK, Idle
    <3> QED
      BY <3>1, <3>2
  <2> QED
    BY <1>0, <2>1 DEF CareInv, CareTypeOK
<1>2. SnapshotFollows' /\ BoundListed'
  BY <1>0, TablesKept
<1>3. EditionsMade'
  BY <1>0 DEF CareInv, EditionsMade, Idle, Resting
<1>4. TasksOrderly'
  BY <1>0 DEF CareInv, TasksOrderly, Orderly, HasRefresh, HasAccess, Idle, Resting
<1>5. SoleHolder'
  <2> SUFFICES ASSUME NEW u \in Tasks, Holds(u)' PROVE HoldsAlone(u)'
    BY DEF SoleHolder
  <2>1. u # t /\ task'[u] = task[u] /\ Holds(u)
    BY <1>0 DEF Holds, Resting
  <2>2. HoldsAlone(u) /\ task[u].account \in Accounts
    BY <2>1, AtAccount DEF CareInv, SoleHolder, Holds, Idle
  <2>3. ASSUME NEW w \in Tasks, task'[w].account = task[u].account
        PROVE  w # t
    BY <1>0, <2>2, <2>3, CareAssumption DEF Resting
  <2> QED
    BY <1>0, <2>1, <2>2, <2>3 DEF HoldsAlone, Accepts
<1>6. VerdictsJust'
  BY <1>0 DEF CareInv, VerdictsJust, Revived, Resting
<1> QED
  BY <1>1, <1>2, <1>3, <1>4, <1>5, <1>6 DEF CareInv

\* A task writes what it learnt and rests or goes on to its last write.
LEMMA WriteStep ==
  ASSUME CareInv, NEW t \in Tasks, ~Idle(t), UNCHANGED <<start, provider>>,
         SnapshotFollows', BoundListed',
         live' = live, bound' = bound, listed' = listed,
         snapshot' \in [Redemptions -> [Accounts -> Editions]],
         status' \in [Accounts -> AccountStatus],
         \/ stored' = stored
         \/ task[t].at = "store" /\ stored' = [stored EXCEPT ![task[t].account] = task[t].got],
         \/ task' = [task EXCEPT ![t] = Resting]
         \/ /\ task[t].at = "store"
            /\ task' = [task EXCEPT ![t] = [task[t] EXCEPT !.at = "record"]]
  PROVE  CareInv'
<1> DEFINE a == task[t].account
<1> USE DEF provider, editions
<1>0. /\ a \in Accounts /\ task[t] \in TaskState
      /\ task[t].at = "store" => task[t].got \in Editions /\ task[t].got <= newest[a]
  BY AtAccount DEF Orderly, TaskState, CareInv, EditionsMade
<1>1. /\ task' \in [Tasks -> TaskState]
      /\ \A u \in Tasks \ {t} : task'[u] = task[u]
      /\ \/ task'[t] = Resting
         \/ task[t].at = "store" /\ task'[t] = [task[t] EXCEPT !.at = "record"]
  <2>1. CASE task' = [task EXCEPT ![t] = Resting]
    BY <2>1, RestSets DEF CareInv
  <2>2. CASE task[t].at = "store" /\ task' = [task EXCEPT ![t] = [task[t] EXCEPT !.at = "record"]]
    <3>1. [task[t] EXCEPT !.at = "record"] \in TaskState
      BY <1>0 DEF TaskState
    <3> QED
      BY <2>2, <3>1 DEF CareInv, CareTypeOK
  <2> QED
    BY <2>1, <2>2
<1>2. \/ task'[t] = Resting
      \/ /\ task[t].at = "store"
         /\ task'[t].at = "record" /\ task'[t].account = a /\ task'[t].kind = task[t].kind
         /\ task'[t].deep = task[t].deep /\ task'[t].had = task[t].had
         /\ task'[t].got = task[t].got /\ task'[t].verdict = task[t].verdict
         /\ task'[t].steady = task[t].steady
  BY <1>0, <1>1 DEF TaskState
<1>3. stored' \in [Accounts -> Editions]
  BY <1>0 DEF CareInv, CareTypeOK
<1>4. CareTypeOK'
  <2>1. ASSUME NEW u \in Tasks PROVE task'[u].account = None <=> Idle(u)'
    <3>1. CASE u = t
      BY <1>0, <1>2, <3>1, CareAssumption DEF Idle, Resting
    <3>2. CASE u # t
      BY <1>1, <3>2 DEF CareInv, CareTypeOK, Idle
    <3> QED
      BY <3>1, <3>2
  <2> QED
    BY <1>1, <1>3, <2>1 DEF CareInv, CareTypeOK
<1>5. EditionsMade'
  <2>1. \A b \in Accounts : stored'[b] <= newest[b]
    BY <1>0 DEF CareInv, CareTypeOK, EditionsMade
  <2>2. ASSUME NEW u \in Tasks, ~Idle(u)'
        PROVE  /\ task'[u].had <= newest[task'[u].account]
               /\ task'[u].got # None => task'[u].got <= newest[task'[u].account]
    <3>1. CASE u = t
      BY <1>2, <2>2, <3>1 DEF CareInv, EditionsMade, Idle, Resting
    <3>2. CASE u # t
      BY <1>1, <2>2, <3>2 DEF CareInv, EditionsMade, Idle
    <3> QED
      BY <3>1, <3>2
  <2> QED
    BY <2>1, <2>2 DEF CareInv, EditionsMade
<1>6. TasksOrderly'
  <2>1. ASSUME NEW u \in Tasks PROVE Orderly(u)'
    <3>1. CASE u = t /\ task'[t] = Resting
      BY <3>1 DEF Orderly, HasRefresh, HasAccess, Idle, Resting
    <3>2. CASE u = t /\ task'[t] # Resting
      BY <1>2, <3>2, AtAccount DEF Orderly, HasRefresh, HasAccess, Idle
    <3>3. CASE u # t
      BY <1>1, <3>3, AtAccount DEF Orderly, HasRefresh, HasAccess, Idle
    <3> QED
      BY <3>1, <3>2, <3>3
  <2> QED
    BY <2>1 DEF TasksOrderly
<1>7. SoleHolder'
  <2> SUFFICES ASSUME NEW u \in Tasks, Holds(u)' PROVE HoldsAlone(u)'
    BY DEF SoleHolder
  <2>1. u # t /\ task'[u] = task[u] /\ Holds(u)
    BY <1>1, <1>2 DEF Holds, Resting
  <2>2. HoldsAlone(u) /\ task[u].account \in Accounts
    BY <2>1, AtAccount DEF CareInv, SoleHolder, Holds, Idle
  <2>3. stored'[task[u].account] # task[u].got
    <3>1. CASE task[u].account = a
      BY <1>0, <2>1, <2>2, <3>1 DEF HoldsAlone, CareInv, CareTypeOK
    <3>2. CASE task[u].account # a
      <4>1. stored'[task[u].account] = stored[task[u].account]
        BY <2>2, <3>2 DEF CareInv, CareTypeOK
      <4> QED
        BY <2>2, <4>1 DEF HoldsAlone
    <3> QED
      BY <3>1, <3>2
  <2>4. ASSUME NEW w \in Tasks, task'[w].account = task[u].account
        PROVE  task'[w].had # task[u].got /\ (w # u => task'[w].got # task[u].got)
    <3>1. CASE w = t
      <4>1. task'[t].had = task[t].had /\ a = task[u].account /\ task'[t].got = task[t].got
        BY <1>2, <2>2, <2>4, <3>1, CareAssumption DEF Resting
      <4> QED
        BY <2>1, <2>2, <3>1, <4>1 DEF HoldsAlone
    <3>2. CASE w # t
      BY <1>1, <2>2, <2>4, <3>2 DEF HoldsAlone, Holds
    <3> QED
      BY <3>1, <3>2
  <2> QED
    BY <2>1, <2>2, <2>3, <2>4 DEF HoldsAlone, Accepts
<1>8. VerdictsJust'
  <2>1. ASSUME NEW u \in Tasks PROVE Revived(u)'
    <3>1. CASE u = t /\ task'[t] = Resting
      BY <3>1, CareAssumption DEF Revived, Resting, AccountStatus
    <3>2. CASE u = t /\ task'[t] # Resting
      BY <1>2, <3>2, AtAccount DEF Revived
    <3>3. CASE u # t
      BY <1>1, <3>3, AtAccount DEF Revived
    <3> QED
      BY <3>1, <3>2, <3>3
  <2> QED
    BY <2>1 DEF VerdictsJust
<1> QED
  BY <1>4, <1>5, <1>6, <1>7, <1>8 DEF CareInv

\* Rows are written while the tasks wait.
LEMMA RowStep ==
  ASSUME CareInv, UNCHANGED <<start, provider, task>>, SnapshotFollows', BoundListed',
         live' \in [Accounts -> BOOLEAN],
         stored' \in [Accounts -> Editions],
         \A a \in Accounts : stored'[a] = stored[a] \/ stored'[a] = 0,
         status' \in [Accounts -> AccountStatus],
         bound' \in [Accounts -> Redemptions \cup {None}],
         listed' \in [Redemptions -> SUBSET Accounts],
         snapshot' \in [Redemptions -> [Accounts -> Editions]]
  PROVE  CareInv'
<1> USE DEF provider, editions
<1>1. CareTypeOK'
  BY DEF CareInv, CareTypeOK, Idle
<1>2. EditionsMade'
  <2>0. \A a \in Accounts : stored[a] <= newest[a] /\ newest[a] \in Nat
    BY DEF CareInv, CareTypeOK, EditionsMade, Editions
  <2>1. \A a \in Accounts : stored'[a] <= newest[a]
    BY <2>0
  <2>2. newest' = newest /\ spent' = spent /\ task' = task
    OBVIOUS
  <2>3. \A a \in Accounts : \A e \in spent[a] : e <= newest[a]
    BY DEF CareInv, EditionsMade
  <2>4. \A t \in Tasks : ~Idle(t) => /\ task[t].had <= newest[task[t].account]
                                     /\ task[t].got # None => task[t].got <= newest[task[t].account]
    BY DEF CareInv, EditionsMade
  <2>5. \A a \in Accounts : stored'[a] <= newest'[a] /\ \A e \in spent'[a] : e <= newest'[a]
    BY <2>1, <2>2, <2>3
  <2>6. \A t \in Tasks : ~Idle(t)' => /\ task'[t].had <= newest'[task'[t].account]
                                      /\ task'[t].got # None => task'[t].got <= newest'[task'[t].account]
    BY <2>2, <2>4 DEF Idle
  <2> QED
    BY <2>5, <2>6 DEF EditionsMade, Idle
<1>3. TasksOrderly'
  BY DEF CareInv, TasksOrderly, Orderly, HasRefresh, HasAccess, Idle
<1>4. SoleHolder'
  <2> SUFFICES ASSUME NEW u \in Tasks, Holds(u)' PROVE HoldsAlone(u)'
    BY DEF SoleHolder
  <2>1. Holds(u)
    BY DEF Holds
  <2>2. HoldsAlone(u) /\ task[u].account \in Accounts
    BY <2>1, AtAccount DEF CareInv, SoleHolder, Holds, Idle
  <2>3. stored'[task[u].account] # task[u].got
    BY <2>2 DEF HoldsAlone
  <2> QED
    BY <2>2, <2>3 DEF HoldsAlone, Accepts
<1>5. VerdictsJust'
  BY DEF CareInv, VerdictsJust, Revived
<1> QED
  BY <1>1, <1>2, <1>3, <1>4, <1>5 DEF CareInv

\* The provider changes its mind: no task is about the standing it began with.
LEMMA ReconsiderStep ==
  ASSUME CareInv, NEW a \in start.fickle, Reconsider(a), UNCHANGED start
  PROVE  CareInv'
<1> USE DEF editions, tables
<1>0. PICK s \in Standings :
        /\ standing' = [standing EXCEPT ![a] = s]
        /\ task' = [t \in Tasks |-> IF task[t].account = a
                                    THEN [task[t] EXCEPT !.steady = None] ELSE task[t]]
        /\ UNCHANGED <<editions, tables>>
  BY DEF Reconsider
<1>1. a \in Accounts
  BY CareAssumption DEF CareInv, CareTypeOK
<1>2. \A t \in Tasks :
        /\ task'[t] \in TaskState
        /\ task'[t].at = task[t].at /\ task'[t].kind = task[t].kind
        /\ task'[t].account = task[t].account /\ task'[t].deep = task[t].deep
        /\ task'[t].had = task[t].had /\ task'[t].got = task[t].got
        /\ task'[t].verdict = task[t].verdict
        /\ task'[t].steady = IF task[t].account = a THEN None ELSE task[t].steady
  <2> TAKE t \in Tasks
  <2>1. task[t] \in TaskState
    BY AtAccount
  <2>2. CASE task[t].account = a
    BY <1>0, <2>1, <2>2 DEF TaskState
  <2>3. CASE task[t].account # a
    BY <1>0, <2>1, <2>3
  <2> QED
    BY <2>2, <2>3
<1>3. CareTypeOK'
  <2>1. standing' \in [Accounts -> Standings]
    BY <1>0 DEF CareInv, CareTypeOK
  <2>2. task' \in [Tasks -> TaskState]
    BY <1>0, <1>2
  <2>3. \A u \in Tasks : task'[u].account = None <=> Idle(u)'
    BY <1>2 DEF CareInv, CareTypeOK, Idle
  <2> QED
    BY <1>0, <2>1, <2>2, <2>3 DEF CareInv, CareTypeOK
<1>4. SnapshotFollows' /\ BoundListed'
  BY <1>0, TablesKept
<1>5. EditionsMade'
  BY <1>0, <1>2 DEF CareInv, EditionsMade, Idle
<1>6. TasksOrderly'
  <2> SUFFICES ASSUME NEW t \in Tasks PROVE Orderly(t)'
    BY DEF TasksOrderly
  <2>1. ~Idle(t) => task'[t].steady \in {None, standing'[task[t].account]}
    <3>1. CASE task[t].account = a
      BY <1>2, <3>1
    <3>2. CASE task[t].account # a
      BY <1>0, <1>2, <3>2, AtAccount DEF Orderly, CareInv, CareTypeOK
    <3> QED
      BY <3>1, <3>2
  <2> QED
    BY <1>0, <1>2, <2>1, AtAccount DEF Orderly, HasRefresh, HasAccess, Idle
<1>7. SoleHolder'
  <2>1. \A t \in Tasks : Holds(t)' <=> Holds(t)
    BY <1>2 DEF Holds
  <2> QED
    BY <1>0, <1>2, <2>1 DEF CareInv, SoleHolder, HoldsAlone, Accepts
<1>8. VerdictsJust'
  <2> SUFFICES ASSUME NEW t \in Tasks PROVE Revived(t)'
    BY DEF VerdictsJust
  <2>1. CASE task[t].account = a
    <3>1. task'[t].steady = None
      BY <1>2, <2>1
    <3> QED
      BY <3>1, CareAssumption DEF Revived, Minds
  <2>2. CASE task[t].account # a
    BY <1>0, <1>2, <2>2, AtAccount DEF Revived
  <2> QED
    BY <2>1, <2>2
<1> QED
  BY <1>3, <1>4, <1>5, <1>6, <1>7, <1>8 DEF CareInv

-----------------------------------------------------------------------------
(* The actions.                                                            *)

LEMMA DiagnosisSays ==
  ASSUME CareInv, NEW a \in Accounts, NEW e \in Editions
  PROVE  /\ Diagnosis(a, e) \in {"exchange", "session", "check", "record"}
         /\ Diagnosis(a, e) \in {"session", "check", "record"} => "refresh_token" \notin files[a][e]
         /\ Diagnosis(a, e) = "record" => ~HasAccess(a, e)
<1> DEFINE f == files[a][e]
<1>1. f \in SUBSET Credentials
  BY DEF CareInv, CareTypeOK
<1>2. CASE "refresh_token" \in f
  BY <1>2 DEF Diagnosis
<1>3. CASE "refresh_token" \notin f /\ "session_token" \in f
  BY <1>3 DEF Diagnosis
<1>4. CASE "refresh_token" \notin f /\ "session_token" \notin f
  <2>1. f \subseteq {"access_token"}
    BY <1>1, <1>4 DEF Credentials
  <2>2. CASE HasAccess(a, e)
    <3>1. f = {"access_token"}
      BY <2>1, <2>2 DEF HasAccess
    <3> QED
      BY <1>4, <3>1 DEF Diagnosis
  <2>3. CASE ~HasAccess(a, e)
    <3>1. f = {}
      BY <2>1, <2>3 DEF HasAccess
    <3> QED
      BY <1>4, <2>3, <3>1 DEF Diagnosis
  <2> QED
    BY <2>2, <2>3
<1> QED
  BY <1>2, <1>3, <1>4

LEMMA LoadProbeInv ==
  ASSUME CareInv, NEW t \in Tasks, NEW a \in Accounts, LoadProbe(t, a), UNCHANGED start
  PROVE  CareInv'
<1>0. UNCHANGED <<start, provider, tables>> /\ a # None /\ stored[a] \in Editions
  BY CareAssumption DEF LoadProbe, CareInv, CareTypeOK
<1>1. PICK deep \in BOOLEAN :
         IF HasAccess(a, stored[a])
         THEN Begun(t, a, "probe", deep, "wham", None)
         ELSE IF deep
              THEN Begun(t, a, "probe", TRUE, Diagnosis(a, stored[a]),
                         IF Diagnosis(a, stored[a]) = "record"
                         THEN LifecycleStatus("needs_login") ELSE None)
              ELSE Begun(t, a, "probe", FALSE, "record", "auth_invalid")
  BY DEF LoadProbe
<1>2. LifecycleStatus("needs_login") = "auth_invalid"
  BY DEF LifecycleStatus
<1>3. CASE HasAccess(a, stored[a])
  <2>1. Begun(t, a, "probe", deep, "wham", None)
    BY <1>1, <1>3
  <2>2. /\ task'[t].at = "wham" /\ task'[t].account = a /\ task'[t].kind = "probe"
        /\ task'[t].had = stored[a] /\ task'[t].got = None /\ task'[t].verdict = None
        /\ task'[t].steady = standing[a]
    BY <2>1, BegunSets DEF CareInv, Steps
  <2>3. Orderly(t)' /\ Revived(t)'
    BY <1>0, <1>3, <2>2, CareAssumption
       DEF Orderly, HasRefresh, HasAccess, Idle, Revived, AccountStatus, provider, editions, tables
  <2> QED
    BY <1>0, <2>1, <2>3, BegunStep DEF Steps
<1>4. CASE ~HasAccess(a, stored[a]) /\ deep
  <2> DEFINE d == Diagnosis(a, stored[a])
             v == IF d = "record" THEN "auth_invalid" ELSE None
  <2>1. Begun(t, a, "probe", deep, d, v)
    <3>1. Begun(t, a, "probe", TRUE, d, v)
      BY <1>1, <1>2, <1>4
    <3>2. deep = TRUE
      BY <1>4
    <3> QED
      BY <3>1, <3>2
  <2>2. /\ d \in Steps \ {"idle"} /\ v \in AccountStatus \cup {None}
        /\ d \in {"exchange", "session", "check", "record"}
        /\ d \in {"session", "check"} => "refresh_token" \notin files[a][stored[a]]
    BY <1>0, DiagnosisSays DEF Steps, AccountStatus
  <2>4. v \in {None, "auth_invalid"}
    OBVIOUS
  <2>5. d = "record" => v = "auth_invalid"
    OBVIOUS
  <2> HIDE DEF d, v
  <2>6. /\ task'[t].at = d /\ task'[t].account = a /\ task'[t].kind = "probe"
        /\ task'[t].deep = deep /\ task'[t].had = stored[a] /\ task'[t].got = None
        /\ task'[t].verdict = v /\ task'[t].steady = standing[a]
    BY <2>1, <2>2, BegunSets DEF CareInv
  <2>7. Orderly(t)'
    BY <1>0, <1>4, <2>2, <2>5, <2>6, CareAssumption
       DEF Orderly, HasRefresh, HasAccess, Idle, AccountStatus, provider, editions, tables
  <2>8. Revived(t)'
    BY <1>0, <2>5, <2>6, <2>4, CareAssumption DEF Revived, AccountStatus
  <2> QED
    BY <1>0, <2>1, <2>2, <2>7, <2>8, BegunStep
<1>5. CASE ~HasAccess(a, stored[a]) /\ ~deep
  <2>1. Begun(t, a, "probe", deep, "record", "auth_invalid")
    <3>1. Begun(t, a, "probe", FALSE, "record", "auth_invalid")
      BY <1>1, <1>5
    <3>2. deep = FALSE
      BY <1>5
    <3> QED
      BY <3>1, <3>2
  <2>2. /\ task'[t].at = "record" /\ task'[t].account = a /\ task'[t].kind = "probe"
        /\ task'[t].deep = deep /\ task'[t].had = stored[a] /\ task'[t].got = None
        /\ task'[t].verdict = "auth_invalid" /\ task'[t].steady = standing[a]
    <3>1. CareTypeOK /\ "record" \in Steps /\ "auth_invalid" \in AccountStatus \cup {None}
      BY DEF CareInv, Steps, AccountStatus
    <3> QED
      BY <2>1, <3>1, BegunSets
  <2>3. Orderly(t)' /\ Revived(t)'
    BY <1>0, <1>5, <2>2, CareAssumption
       DEF Orderly, HasRefresh, HasAccess, Idle, Revived, AccountStatus, provider, editions, tables
  <2> QED
    BY <1>0, <2>1, <2>3, BegunStep DEF Steps, AccountStatus
<1> QED
  BY <1>3, <1>4, <1>5

LEMMA LoadRefreshInv ==
  ASSUME CareInv, NEW t \in Tasks, NEW a \in Accounts, LoadRefresh(t, a), UNCHANGED start
  PROVE  CareInv'
<1> DEFINE at == IF "refresh_token" \in files[a][stored[a]] THEN "exchange" ELSE "mark"
<1>0. PICK no \in BOOLEAN : no = FALSE
  OBVIOUS
<1>1. Begun(t, a, "refresh", no, at, None) /\ UNCHANGED <<start, provider, tables>>
  BY <1>0 DEF LoadRefresh
<1>2. at \in {"exchange", "mark"}
  OBVIOUS
<1> HIDE DEF at
<1>3. /\ task'[t].at = at /\ task'[t].account = a /\ task'[t].kind = "refresh"
      /\ task'[t].got = None /\ task'[t].verdict = None /\ task'[t].steady = standing[a]
  BY <1>1, <1>2, BegunSets DEF CareInv, Steps
<1>4. Orderly(t)' /\ Revived(t)'
  BY <1>1, <1>2, <1>3, CareAssumption
     DEF Orderly, HasRefresh, HasAccess, Idle, Revived, AccountStatus, provider, editions, tables
<1> QED
  BY <1>1, <1>2, <1>4, BegunStep DEF Steps

LEMMA WhamInv ==
  ASSUME CareInv, NEW t \in Tasks, Wham(t), UNCHANGED start
  PROVE  CareInv'
<1> DEFINE a == task[t].account
<1>0. /\ task[t].at = "wham" /\ ~Idle(t) /\ a \in Accounts /\ task[t].kind = "probe"
      /\ UNCHANGED <<start, provider, tables>> /\ ~Holds(t)
      /\ HasAccess(a, task[t].had) /\ standing[a] \in Minds /\ task[t].steady \in {None, standing[a]}
      /\ task[t].had \in Editions
  BY AtAccount, CareAssumption DEF Wham, Idle, Holds, Orderly, TaskState, CareInv, CareTypeOK
<1>1. PICK found \in WhamFound[standing[a]] :
         IF task[t].deep /\ found # "available"
         THEN Goes(t, Diagnosis(a, task[t].had))
         ELSE Decides(t, "record", found)
  BY DEF Wham
<1>2. CASE task[t].deep /\ found # "available"
  <2> DEFINE d == Diagnosis(a, task[t].had)
  <2>1. /\ d \in {"exchange", "session", "check"}
        /\ d \in {"session", "check"} => "refresh_token" \notin files[a][task[t].had]
    BY <1>0, DiagnosisSays
  <2>2. Goes(t, d)
    BY <1>1, <1>2
  <2> HIDE DEF d
  <2>3. /\ Keeps(t) /\ task'[t].at = d /\ task'[t].got = task[t].got
        /\ task'[t].verdict = task[t].verdict
    BY <2>1, <2>2, GoesKeeps DEF CareInv, Steps
  <2>4. HasRefresh(t)' <=> "refresh_token" \in files[a][task[t].had]
    BY <1>0, <2>3 DEF HasRefresh, Keeps, provider, editions
  <2>5. Orderly(t)' /\ ~Idle(t)' /\ ~Holds(t)'
    <3>1. standing' = standing
      BY <1>0 DEF provider
    <3>2. /\ task'[t].kind = task[t].kind /\ task'[t].account = a /\ task'[t].deep = task[t].deep
          /\ task'[t].steady = task[t].steady
      BY <2>3 DEF Keeps
    <3>3. task[t].got = None
      BY <1>0, AtAccount DEF Orderly
    <3>4. Orderly(t)' /\ ~Idle(t)'
      BY <1>0, <1>2, <2>1, <2>3, <2>4, <3>1, <3>2 DEF Orderly, Idle
    <3> QED
      BY <2>3, <3>3, <3>4 DEF Holds
  <2>6. Revived(t)'
    BY <1>0, <2>3, AtAccount DEF Revived, Keeps, provider, editions, tables
  <2> QED
    BY <1>0, <2>3, <2>5, <2>6, MoveStep
<1>3. CASE ~(task[t].deep /\ found # "available")
  <2>1. Decides(t, "record", found) /\ found \in AccountStatus
    BY <1>0, <1>1, <1>3, StatusesFound
  <2>2. Keeps(t) /\ task'[t].at = "record" /\ task'[t].got = task[t].got /\ task'[t].verdict = found
    BY <2>1, DecidesKeeps DEF CareInv, Steps
  <2>3. Orderly(t)' /\ ~Idle(t)' /\ ~Holds(t)'
    BY <1>0, <2>1, <2>2, AtAccount, CareAssumption
       DEF Orderly, HasRefresh, HasAccess, Idle, Holds, Keeps, provider, editions, tables
  <2>4. found = "available" => standing[a] \notin {"limited", "blocked", "banned"}
    BY <1>1, AvailableFound
  <2>5. Revived(t)'
    BY <1>0, <2>2, <2>4, CareAssumption DEF Revived, Keeps, Minds
  <2> QED
    BY <1>0, <2>2, <2>3, <2>5, MoveStep
<1> QED
  BY <1>2, <1>3

\* What a task in the middle of its exchange or session call is like.
LEMMA MidCall ==
  ASSUME CareInv, NEW t \in Tasks, task[t].at \in {"exchange", "session", "check"}
  PROVE  /\ ~Idle(t) /\ task[t].account \in Accounts
         /\ task[t].kind \in {"probe", "refresh"}
         /\ standing[task[t].account] \in Minds
         /\ task[t].steady \in {None, standing[task[t].account]}
         /\ task[t].kind = "probe" => task[t].deep
BY AtAccount, CareAssumption DEF TaskState, Idle, Orderly, CareInv, CareTypeOK

\* The answer arrives.
LEMMA ReceivesInv ==
  ASSUME CareInv, NEW t \in Tasks, task[t].at \in {"exchange", "session"},
         NEW next \in {"check", "store"}, next = "store" <=> task[t].kind = "refresh",
         NEW c \in SUBSET Credentials, Makes(task[t].account, task[t].had, c),
         \/ spent' = spent
         \/ spent' = [spent EXCEPT ![task[t].account] = @ \cup {task[t].had}],
         Receives(t, next), UNCHANGED <<start, standing, tables>>
  PROVE  CareInv'
<1> DEFINE a == task[t].account
<1>0. /\ ~Idle(t) /\ a \in Accounts /\ task[t].kind \in {"probe", "refresh"} /\ ~Holds(t)
      /\ task[t].steady \in {None, standing[a]} /\ (task[t].kind = "probe" => task[t].deep)
      /\ task[t].had \in Editions
  BY MidCall, AtAccount DEF Holds, TaskState
<1>1. newest[a] + 1 \in Editions
  BY <1>0, MakesSets DEF CareInv
<1>2. /\ Keeps(t) /\ task'[t].at = next
      /\ task'[t].got = newest[a] + 1
      /\ task'[t].verdict = IF next = "store" THEN "available" ELSE None
  BY <1>1, ReceivesKeeps DEF CareInv
<1>3. newest[a] + 1 # None /\ "available" # None
  BY <1>1, CareAssumption DEF Editions, AccountStatus
<1>4. ~Idle(t)' /\ Orderly(t)'
  BY <1>0, <1>2, <1>3 DEF Orderly, HasRefresh, HasAccess, Idle, Keeps, tables
<1>5. Revived(t)'
  BY <1>0, <1>2, <1>3 DEF Revived, Keeps
<1> QED
  BY <1>0, <1>2, <1>4, <1>5, NewEditionStep

\* An exchange that failed is marked or recorded.
LEMMA FailedSets ==
  ASSUME CareInv, NEW t \in Tasks, task[t].at = "exchange", NEW found \in AccountStatus,
         ExchangeFailed(t, found), UNCHANGED <<start, standing, tables>>,
         found # "available"
  PROVE  /\ Keeps(t) /\ task'[t].got = task[t].got
         /\ task'[t].at = IF task[t].kind = "refresh" THEN "mark" ELSE "record"
         /\ task[t].kind = "probe" => task'[t].verdict = found
         /\ ~Idle(t)' /\ ~Holds(t)' /\ Orderly(t)' /\ Revived(t)'
<1>0. /\ ~Idle(t) /\ task[t].account \in Accounts /\ task[t].kind \in {"probe", "refresh"}
  BY MidCall
<1>1. /\ Keeps(t) /\ task'[t].got = task[t].got
      /\ task'[t].at = IF task[t].kind = "refresh" THEN "mark" ELSE "record"
      /\ task[t].kind = "probe" => task'[t].verdict = found
  <2>1. CASE task[t].kind = "refresh"
    <3>1. Goes(t, "mark")
      BY <2>1 DEF ExchangeFailed
    <3>2. "mark" \in Steps
      BY DEF Steps
    <3> QED
      BY <2>1, <3>1, <3>2, GoesKeeps DEF CareInv
  <2>2. CASE task[t].kind = "probe"
    <3>1. Decides(t, "record", found)
      BY <2>2 DEF ExchangeFailed
    <3>2. "record" \in Steps
      BY DEF Steps
    <3> QED
      BY <2>2, <3>1, <3>2, DecidesKeeps DEF CareInv
  <2> QED
    BY <1>0, <2>1, <2>2
<1>2. ~Idle(t)' /\ ~Holds(t)' /\ Orderly(t)'
  BY <1>0, <1>1, AtAccount, CareAssumption
     DEF Orderly, HasRefresh, HasAccess, Idle, Holds, Keeps, tables
<1>3. Revived(t)'
  BY <1>0, <1>1 DEF Revived, Keeps
<1> QED
  BY <1>1, <1>2, <1>3

LEMMA ExchangeInv ==
  ASSUME CareInv, NEW t \in Tasks, Exchange(t), UNCHANGED start
  PROVE  CareInv'
<1> DEFINE a == task[t].account
<1>0. /\ task[t].at = "exchange" /\ UNCHANGED <<start, standing, tables>>
      /\ ~Idle(t) /\ a \in Accounts /\ task[t].kind \in {"probe", "refresh"} /\ ~Holds(t)
      /\ standing[a] \in Minds /\ task[t].steady \in {None, standing[a]}
  BY MidCall DEF Exchange, Holds
<1> DEFINE c == {"access_token"}
<1>c. c \in SUBSET Credentials
  BY DEF Credentials
<1>1. CASE /\ Exchanges(a, task[t].had)
           /\ Receives(t, IF task[t].kind = "refresh" THEN "store" ELSE "check")
  <2>1. Makes(a, task[t].had, c) /\ spent' = [spent EXCEPT ![a] = @ \cup {task[t].had}]
    BY <1>1 DEF Exchanges
  <2> HIDE DEF c
  <2> QED
    BY <1>0, <1>1, <1>c, <2>1, ReceivesInv
<1>2. CASE /\ Exchanges(a, task[t].had)
           /\ ExchangeFailed(t, LifecycleStatus(RefreshFailure(NoAnswer)))
  <2>1. LifecycleStatus(RefreshFailure(NoAnswer)) = "refresh_failed"
    BY LostAnswer
  <2>3. ExchangeFailed(t, "refresh_failed") /\ "refresh_failed" \in AccountStatus
    BY <1>2, <2>1 DEF AccountStatus
  <2>4. /\ Keeps(t) /\ task'[t].got = task[t].got
        /\ task[t].kind = "probe" => task'[t].verdict = "refresh_failed"
        /\ ~Idle(t)' /\ ~Holds(t)' /\ Orderly(t)' /\ Revived(t)'
    BY <1>0, <2>3, FailedSets
  <2>5. Makes(a, task[t].had, c) /\ spent' = [spent EXCEPT ![a] = @ \cup {task[t].had}]
    BY <1>2 DEF Exchanges
  <2> HIDE DEF c
  <2> QED
    BY <1>0, <1>c, <2>4, <2>5, NewEditionStep
<1>3. CASE /\ \E found \in RejectionFound[standing[a]][Accepts(a, task[t].had)] : ExchangeFailed(t, found)
           /\ UNCHANGED editions
  <2>0. Accepts(a, task[t].had) \in BOOLEAN
    BY DEF Accepts
  <2>1. PICK found \in RejectionFound[standing[a]][Accepts(a, task[t].had)] : ExchangeFailed(t, found)
    BY <1>3
  <2>2. found \in AccountStatus /\ found # "available"
    BY <1>0, <2>0, <2>1, StatusesFound, AvailableFound
  <2>3. /\ Keeps(t) /\ task'[t].got = task[t].got
        /\ task[t].kind = "probe" => task'[t].verdict = found
        /\ ~Idle(t)' /\ ~Holds(t)' /\ Orderly(t)' /\ Revived(t)'
    BY <1>0, <2>1, <2>2, FailedSets
  <2> QED
    BY <1>0, <1>3, <2>3, MoveStep DEF provider
<1> QED
  BY <1>1, <1>2, <1>3 DEF Exchange

LEMMA SessionInv ==
  ASSUME CareInv, NEW t \in Tasks, Session(t), UNCHANGED start
  PROVE  CareInv'
<1> DEFINE a == task[t].account
<1>0. /\ task[t].at = "session" /\ UNCHANGED <<start, standing, tables>>
      /\ ~Idle(t) /\ a \in Accounts /\ task[t].kind = "probe" /\ ~Holds(t)
  BY MidCall, AtAccount DEF Session, Holds, Orderly
<1>1. CASE /\ \E c \in {{"access_token"}, {"access_token", "refresh_token"}} :
                Makes(a, task[t].had, c)
           /\ Receives(t, "check")
           /\ UNCHANGED spent
  <2>1. PICK c \in {{"access_token"}, {"access_token", "refresh_token"}} : Makes(a, task[t].had, c)
    BY <1>1
  <2>2. c \in SUBSET Credentials
    BY DEF Credentials
  <2> QED
    BY <1>0, <1>1, <2>1, <2>2, ReceivesInv
<1>2. CASE /\ \E found \in SessionFound : Decides(t, "record", found)
           /\ UNCHANGED editions
  <2>1. PICK found \in SessionFound : Decides(t, "record", found)
    BY <1>2
  <2>2. found \in AccountStatus /\ found # "available" /\ "record" \in Steps
    BY <1>0, <2>1, StatusesFound, AvailableFound DEF Steps
  <2>3. Keeps(t) /\ task'[t].at = "record" /\ task'[t].got = task[t].got /\ task'[t].verdict = found
    BY <2>1, <2>2, DecidesKeeps DEF CareInv
  <2>4. ~Idle(t)' /\ ~Holds(t)' /\ Orderly(t)'
    BY <1>0, <2>2, <2>3, AtAccount, CareAssumption
       DEF Orderly, HasRefresh, HasAccess, Idle, Holds, Keeps, tables
  <2>5. Revived(t)'
    BY <1>0, <2>2, <2>3 DEF Revived, Keeps
  <2> QED
    BY <1>0, <1>2, <2>3, <2>4, <2>5, MoveStep DEF provider
<1> QED
  BY <1>1, <1>2 DEF Session

LEMMA CheckInv ==
  ASSUME CareInv, NEW t \in Tasks, Check(t), UNCHANGED start
  PROVE  CareInv'
<1> DEFINE a == task[t].account
           fresh == task[t].got # None
           next == IF fresh THEN "store" ELSE "record"
<1>0. /\ task[t].at = "check" /\ UNCHANGED <<start, provider, tables>>
      /\ ~Idle(t) /\ a \in Accounts /\ task[t].kind = "probe" /\ task[t].deep
      /\ standing[a] \in Minds /\ task[t].steady \in {None, standing[a]}
  BY MidCall, AtAccount DEF Check, Orderly
<1>1. PICK found \in CheckFound[standing[a]][fresh] : Decides(t, next, found)
  BY DEF Check
<1>2. fresh \in BOOLEAN /\ next \in Steps /\ next \in {"store", "record"} /\ (next = "store" <=> fresh)
  BY DEF Steps
<1>3. found \in AccountStatus
  BY <1>0, <1>1, <1>2, StatusesFound
<1>4. ASSUME found = "available", task[t].steady \in {"blocked", "banned"} PROVE fresh
  <2> SUFFICES ASSUME ~fresh PROVE FALSE
    OBVIOUS
  <2>1. fresh = FALSE
    BY <1>2
  <2>2. found \in CheckFound[standing[a]][FALSE]
    BY <1>1, <2>1
  <2>3. standing[a] \in {"blocked", "banned"}
    BY <1>0, <1>4, CareAssumption DEF Minds
  <2> QED
    BY <1>4, <2>2, <2>3, AvailableFound
<1> HIDE DEF next
<1>6. Keeps(t) /\ task'[t].at = next /\ task'[t].got = task[t].got /\ task'[t].verdict = found
  BY <1>1, <1>2, <1>3, DecidesKeeps DEF CareInv
<1>7. ~Idle(t)' /\ (Holds(t)' => Holds(t)) /\ Orderly(t)'
  BY <1>0, <1>2, <1>3, <1>6, AtAccount, CareAssumption
     DEF Orderly, HasRefresh, HasAccess, Idle, Holds, Keeps, provider, editions, tables
<1>8. Revived(t)'
  BY <1>0, <1>4, <1>6 DEF Revived, Keeps
<1> QED
  BY <1>0, <1>6, <1>7, <1>8, MoveStep

LEMMA StoreInv ==
  ASSUME CareInv, NEW t \in Tasks, Store(t), UNCHANGED start
  PROVE  CareInv'
<1> DEFINE a == task[t].account
<1>0. /\ task[t].at = "store" /\ ~Idle(t) /\ a \in Accounts
      /\ task[t].got \in Editions /\ task[t].verdict \in AccountStatus
      /\ UNCHANGED <<start, provider, live, bound, listed>>
  BY AtAccount DEF Store, Idle, Orderly, TaskState
<1>1. /\ \/ stored' = stored
         \/ stored' = [stored EXCEPT ![a] = task[t].got]
      /\ \/ status' = status
         \/ status' = [status EXCEPT ![a] = task[t].verdict]
      /\ \/ snapshot' = snapshot
         \/ bound[a] # None /\ snapshot' = [snapshot EXCEPT ![bound[a]] = Rebuilt(bound[a])]
  BY DEF Store, StoreUnredeemed, StoreRedeemed
<1>2. stored' \in [Accounts -> Editions] /\ status' \in [Accounts -> AccountStatus]
  BY <1>0, <1>1 DEF CareInv, CareTypeOK
<1>3. snapshot' \in [Redemptions -> [Accounts -> Editions]]
  <2>1. Rebuilt(bound[a]) \in [Accounts -> Editions]
    BY <1>2, CareAssumption DEF Rebuilt, Editions
  <2> QED
    BY <1>1, <2>1 DEF CareInv, CareTypeOK
<1>4. \/ task' = [task EXCEPT ![t] = Resting]
      \/ task' = [task EXCEPT ![t] = [task[t] EXCEPT !.at = "record"]]
  BY DEF Store
<1> QED
  BY <1>0, <1>1, <1>2, <1>3, <1>4, StoreRows, WriteStep

LEMMA MarkInv ==
  ASSUME CareInv, NEW t \in Tasks, Mark(t) \/ Record(t), UNCHANGED start
  PROVE  CareInv'
<1>1. PICK s \in AccountStatus : SetStatus(task[t].account, s)
  <2>1. CASE Mark(t)
    BY <2>1 DEF Mark, AccountStatus
  <2>2. CASE Record(t)
    BY <2>2, AtAccount DEF Record, Orderly, TaskState
  <2> QED
    BY <2>1, <2>2
<1>2. ~Idle(t) /\ task' = [task EXCEPT ![t] = Resting] /\ UNCHANGED <<start, provider>>
  BY DEF Mark, Record, Idle
<1>3. /\ UNCHANGED <<live, stored, bound, listed, snapshot>>
      /\ status' \in [Accounts -> AccountStatus]
  BY <1>1 DEF SetStatus, CareInv, CareTypeOK
<1>4. SnapshotFollows' /\ BoundListed'
  BY <1>1, StatusRows
<1>5. snapshot' \in [Redemptions -> [Accounts -> Editions]]
  BY <1>3 DEF CareInv, CareTypeOK
<1> QED
  BY <1>2, <1>3, <1>4, <1>5, WriteStep

LEMMA DeliverInv ==
  ASSUME CareInv, NEW d \in Redemptions, Deliver(d), UNCHANGED start
  PROVE  CareInv'
<1>1. PICK S \in SUBSET Accounts :
        /\ bound' = [a \in Accounts |-> IF a \in S THEN d ELSE bound[a]]
        /\ listed' = [listed EXCEPT ![d] = S]
        /\ snapshot' = [snapshot EXCEPT ![d] = [a \in Accounts |-> IF a \in S THEN stored[a] ELSE 0]]
  BY DEF Deliver
<1>2. UNCHANGED <<start, provider, live, stored, status, task>>
  BY DEF Deliver
<1>3. bound' \in [Accounts -> Redemptions \cup {None}] /\ listed' \in [Redemptions -> SUBSET Accounts]
  BY <1>1 DEF CareInv, CareTypeOK
<1>4. snapshot' \in [Redemptions -> [Accounts -> Editions]]
  <2>1. [a \in Accounts |-> IF a \in S THEN stored[a] ELSE 0] \in [Accounts -> Editions]
    BY CareAssumption DEF CareInv, CareTypeOK, Editions
  <2> QED
    BY <1>1, <2>1 DEF CareInv, CareTypeOK
<1>5. live' \in [Accounts -> BOOLEAN] /\ stored' \in [Accounts -> Editions]
      /\ status' \in [Accounts -> AccountStatus]
  BY <1>2 DEF CareInv, CareTypeOK
<1> QED
  BY <1>2, <1>3, <1>4, <1>5, DeliverRows, RowStep

LEMMA DeleteBatchInv ==
  ASSUME CareInv, NEW D \in SUBSET Redemptions, DeleteBatch(D), UNCHANGED start
  PROVE  CareInv'
<1>1. /\ bound' = [a \in Accounts |-> IF bound[a] \in D THEN None ELSE bound[a]]
      /\ listed' = [d \in Redemptions |-> IF d \in D THEN {} ELSE listed[d]]
      /\ snapshot' = [d \in Redemptions |-> IF d \in D THEN [a \in Accounts |-> 0] ELSE snapshot[d]]
      /\ UNCHANGED <<start, provider, live, stored, status, task>>
  BY DEF DeleteBatch
<1>2. bound' \in [Accounts -> Redemptions \cup {None}] /\ listed' \in [Redemptions -> SUBSET Accounts]
  BY <1>1 DEF CareInv, CareTypeOK
<1>3. snapshot' \in [Redemptions -> [Accounts -> Editions]]
  <2>1. [a \in Accounts |-> 0] \in [Accounts -> Editions]
    BY CareAssumption DEF Editions
  <2> QED
    BY <1>1, <2>1 DEF CareInv, CareTypeOK
<1>4. live' \in [Accounts -> BOOLEAN] /\ stored' \in [Accounts -> Editions]
      /\ status' \in [Accounts -> AccountStatus]
  BY <1>1 DEF CareInv, CareTypeOK
<1> QED
  BY <1>1, <1>2, <1>3, <1>4, DeleteBatchRows, RowStep

LEMMA RowInv ==
  ASSUME CareInv, NEW a \in Accounts, DeleteAccount(a) \/ Reimport(a), UNCHANGED start
  PROVE  CareInv'
<1>1. /\ UNCHANGED <<start, provider, listed, snapshot, task>>
      /\ live' \in [Accounts -> BOOLEAN] /\ bound' \in [Accounts -> Redemptions \cup {None}]
  BY DEF DeleteAccount, Reimport, CareInv, CareTypeOK
<1>2. stored' = [stored EXCEPT ![a] = 0]
  BY DEF DeleteAccount, Reimport
<1>3. stored' \in [Accounts -> Editions] /\ \A b \in Accounts : stored'[b] = stored[b] \/ stored'[b] = 0
  BY <1>2, CareAssumption DEF CareInv, CareTypeOK, Editions
<1>4. status' \in [Accounts -> AccountStatus]
  BY DEF DeleteAccount, Reimport, CareInv, CareTypeOK, AccountStatus
<1>5. listed' \in [Redemptions -> SUBSET Accounts] /\ snapshot' \in [Redemptions -> [Accounts -> Editions]]
  BY <1>1 DEF CareInv, CareTypeOK
<1> QED
  BY <1>1, <1>3, <1>4, <1>5, DeleteAccountRows, ReimportRows, RowStep

LEMMA CareStep == CareInv /\ [CareNext]_cvars => CareInv'
<1> SUFFICES ASSUME CareInv, [CareNext]_cvars PROVE CareInv'
  OBVIOUS
<1>1. CASE UNCHANGED cvars
  BY <1>1 DEF cvars, provider, editions, tables, Accepts, CareInv, CareTypeOK, SnapshotFollows, BoundListed,
     EditionsMade, TasksOrderly, Orderly, HasRefresh, HasAccess, Idle, SoleHolder, HoldsAlone, Holds,
     VerdictsJust, Revived
<1>2. CASE CareNext
  <2>1. UNCHANGED start
    BY <1>2 DEF CareNext
  <2>2. ASSUME NEW t \in Tasks, TaskStep(t) PROVE CareInv'
    BY <2>1, <2>2, WhamInv, ExchangeInv, SessionInv, CheckInv, StoreInv, MarkInv DEF TaskStep
  <2>3. ASSUME NEW t \in Tasks, Abort(t) PROVE CareInv'
    BY <2>1, <2>3, RestStep
  <2>4. ASSUME NEW t \in Tasks, NEW a \in Accounts, LoadProbe(t, a) \/ LoadRefresh(t, a) PROVE CareInv'
    BY <2>1, <2>4, LoadProbeInv, LoadRefreshInv
  <2>5. ASSUME NEW a \in start.fickle, Reconsider(a) PROVE CareInv'
    BY <2>1, <2>5, ReconsiderStep
  <2>6. ASSUME NEW a \in Accounts, DeleteAccount(a) \/ Reimport(a) PROVE CareInv'
    BY <2>1, <2>6, RowInv
  <2>7. ASSUME NEW d \in Redemptions, Deliver(d) PROVE CareInv'
    BY <2>1, <2>7, DeliverInv
  <2>8. ASSUME NEW D \in SUBSET Redemptions, DeleteBatch(D) PROVE CareInv'
    BY <2>1, <2>8, DeleteBatchInv
  <2> QED
    BY <1>2, <2>2, <2>3, <2>4, <2>5, <2>6, <2>7, <2>8 DEF CareNext
<1> QED
  BY <1>1, <1>2

LEMMA InitCare == CareInit => CareInv
<1> SUFFICES ASSUME CareInit PROVE CareInv
  OBVIOUS
<1>1. /\ start \in Starts
      /\ start.files \in [Accounts -> SUBSET Credentials]
      /\ files = [a \in Accounts |-> [e \in Editions |-> IF e = 0 THEN start.files[a] ELSE {}]]
      /\ live = [a \in Accounts |-> a \in start.rows]
  BY CareAssumption DEF CareInit
<1>2. files \in [Accounts -> [Editions -> SUBSET Credentials]]
  BY <1>1
<1>3. \A t \in Tasks : task[t] = Resting
  BY DEF CareInit
<1>4. Resting \in TaskState
  BY CareAssumption DEF Resting, TaskState, Editions
<1>5. CareTypeOK
  <2>1. 0 \in Editions /\ "good" \in Standings /\ "available" \in AccountStatus
    BY CareAssumption DEF Editions, AccountStatus
  <2>2. \A t \in Tasks : task[t].account = None <=> Idle(t)
    BY <1>3 DEF Idle, Resting
  <2> QED
    BY <1>1, <1>2, <1>4, <2>1, <2>2 DEF CareInit, CareTypeOK
<1>6. SnapshotFollows /\ BoundListed
  BY DEF CareInit, SnapshotFollows, BoundListed
<1>7. EditionsMade
  BY <1>3 DEF CareInit, EditionsMade, Idle, Resting
<1>8. TasksOrderly
  BY <1>3 DEF TasksOrderly, Orderly, HasRefresh, HasAccess, Idle, Resting
<1>9. SoleHolder
  BY <1>3 DEF SoleHolder, Holds, Resting
<1>10. VerdictsJust
  BY <1>3, CareAssumption DEF VerdictsJust, Revived, Resting, AccountStatus
<1> QED
  BY <1>5, <1>6, <1>7, <1>8, <1>9, <1>10 DEF CareInv

LEMMA CareInvariant == CareSpec => []CareInv
BY InitCare, CareStep, PTL DEF CareSpec

\* Every table and every task has values of its kind: no verdict outside the
\* statuses of the accounts table, no task at work without an account.
THEOREM CareTypeCorrect == CareSpec => []CareTypeOK
<1>1. CareInv => CareTypeOK
  BY DEF CareInv
<1> QED
  BY <1>1, CareInvariant, PTL

\* What a customer downloads again is what the service holds.
THEOREM SnapshotsCurrent == CareSpec => []SnapshotFollows
<1>1. CareInv => SnapshotFollows
  BY DEF CareInv
<1> QED
  BY <1>1, CareInvariant, PTL

\* A probe revives an account the provider blocked or banned all the time it
\* took only by a deep check that renewed its tokens; with a spent quota only
\* by a deep check.
THEOREM NoneRevived == CareSpec => []RevivedWithCause
<1>1. CareInv => RevivedWithCause
  BY DEF CareInv, VerdictsJust, Revived, RevivedWithCause
<1> QED
  BY <1>1, CareInvariant, PTL

-----------------------------------------------------------------------------
(* The step that condemns an account.                                      *)

\* The step of a task is about itself.
LEMMA OthersWait ==
  ASSUME CareInv, NEW t \in Tasks, TaskStep(t) \/ Abort(t)
  PROVE  \A u \in Tasks \ {t} : task'[u] = task[u]
<1>0. task \in [Tasks -> TaskState]
  BY DEF CareInv, CareTypeOK
<1>1. ASSUME NEW at, Goes(t, at) PROVE \A u \in Tasks \ {t} : task'[u] = task[u]
  BY <1>0, <1>1 DEF Goes
<1>2. ASSUME NEW at, NEW v, Decides(t, at, v) PROVE \A u \in Tasks \ {t} : task'[u] = task[u]
  BY <1>0, <1>2 DEF Decides
<1>3. ASSUME NEW next, Receives(t, next) PROVE \A u \in Tasks \ {t} : task'[u] = task[u]
  BY <1>0, <1>3 DEF Receives
<1>4. CASE Wham(t)
  BY <1>1, <1>2, <1>4 DEF Wham
<1>5. CASE Exchange(t)
  BY <1>1, <1>2, <1>3, <1>5 DEF Exchange, ExchangeFailed
<1>6. CASE Session(t)
  BY <1>2, <1>3, <1>6 DEF Session
<1>7. CASE Check(t)
  BY <1>2, <1>7 DEF Check
<1>8. CASE Mark(t) \/ Record(t) \/ Store(t) \/ Abort(t)
  BY <1>0, <1>8 DEF Mark, Record, Store, Abort
<1> QED
  BY <1>4, <1>5, <1>6, <1>7, <1>8 DEF TaskStep

LEMMA BegunWait ==
  ASSUME CareInv, NEW t \in Tasks, NEW a \in Accounts, LoadProbe(t, a) \/ LoadRefresh(t, a)
  PROVE  \A u \in Tasks \ {t} : task'[u] = task[u]
<1>0. task \in [Tasks -> TaskState]
  BY DEF CareInv, CareTypeOK
<1>1. ASSUME NEW kind, NEW deep, NEW at, NEW v, Begun(t, a, kind, deep, at, v)
      PROVE  \A u \in Tasks \ {t} : task'[u] = task[u]
  BY <1>0, <1>1 DEF Begun
<1> QED
  BY <1>1 DEF LoadProbe, LoadRefresh

\* A deep check of an account in good standing that has a refresh token comes
\* to an auth-failure verdict.
Condemns(t) ==
    /\ task[t].verdict = None /\ task'[t].verdict \in {"auth_invalid", "forbidden"}
    /\ task'[t].kind = "probe" /\ task'[t].deep
    /\ task'[t].steady \in {"good", "limited"}
    /\ "refresh_token" \in files[task'[t].account][task'[t].had]

LEMMA VerdictGiven ==
  ASSUME NEW t \in Tasks, Condemns(t)
  PROVE  task'[t].verdict # task[t].verdict /\ task'[t].verdict # None
BY CareAssumption DEF Condemns, AccountStatus

\* Nothing to ask the provider with: there is no refresh token.
LEMMA LoadCondemns ==
  ASSUME CareInv, NEW t \in Tasks, NEW a \in Accounts, LoadProbe(t, a) \/ LoadRefresh(t, a), Condemns(t)
  PROVE  FALSE
<1>0. CareTypeOK /\ stored[a] \in Editions
  BY DEF CareInv, CareTypeOK
<1>1. CASE LoadRefresh(t, a)
  <2> DEFINE at == IF "refresh_token" \in files[a][stored[a]] THEN "exchange" ELSE "mark"
  <2>0. PICK no \in BOOLEAN : no = FALSE
    OBVIOUS
  <2>1. Begun(t, a, "refresh", no, at, None) /\ at \in Steps
    BY <1>1, <2>0 DEF LoadRefresh, Steps
  <2> HIDE DEF at
  <2>2. task'[t].kind = "refresh"
    BY <1>0, <2>1, BegunSets
  <2> QED
    BY <2>2 DEF Condemns
<1>2. CASE LoadProbe(t, a)
  <2>1. PICK deep \in BOOLEAN :
         IF HasAccess(a, stored[a])
         THEN Begun(t, a, "probe", deep, "wham", None)
         ELSE IF deep
              THEN Begun(t, a, "probe", TRUE, Diagnosis(a, stored[a]),
                         IF Diagnosis(a, stored[a]) = "record"
                         THEN LifecycleStatus("needs_login") ELSE None)
              ELSE Begun(t, a, "probe", FALSE, "record", "auth_invalid")
    BY <1>2 DEF LoadProbe
  <2>2. CASE HasAccess(a, stored[a])
    <3>1. Begun(t, a, "probe", deep, "wham", None) /\ "wham" \in Steps
      BY <2>1, <2>2 DEF Steps
    <3>2. task'[t].verdict = None
      BY <1>0, <3>1, BegunSets
    <3> QED
      BY <3>2, VerdictGiven
  <2>3. CASE ~HasAccess(a, stored[a]) /\ deep
    <3> DEFINE d == Diagnosis(a, stored[a])
               v == IF d = "record" THEN LifecycleStatus("needs_login") ELSE None
    <3>0. LifecycleStatus("needs_login") = "auth_invalid"
      BY DEF LifecycleStatus
    <3>1. /\ d \in Steps /\ v \in AccountStatus \cup {None} /\ (d # "record" => v = None)
          /\ d = "record" => "refresh_token" \notin files[a][stored[a]]
      BY <1>0, <3>0, DiagnosisSays DEF Steps, AccountStatus
    <3>2. PICK yes \in BOOLEAN : yes = TRUE
      OBVIOUS
    <3>3. Begun(t, a, "probe", yes, d, v)
      BY <2>1, <2>3, <3>2
    <3> HIDE DEF d, v
    <3>4. task'[t].verdict = v /\ task'[t].account = a /\ task'[t].had = stored[a]
      BY <1>0, <3>1, <3>3, BegunSets
    <3>5. d # "record"
      BY <3>1, <3>4 DEF Condemns
    <3> QED
      BY <3>1, <3>4, <3>5, VerdictGiven
  <2>4. CASE ~HasAccess(a, stored[a]) /\ ~deep
    <3>1. PICK no \in BOOLEAN : no = FALSE
      OBVIOUS
    <3>2. Begun(t, a, "probe", no, "record", "auth_invalid")
      BY <2>1, <2>4, <3>1
    <3>3. "record" \in Steps /\ "auth_invalid" \in AccountStatus \cup {None}
      BY DEF Steps, AccountStatus
    <3>4. task'[t].deep = no
      BY <1>0, <3>2, <3>3, BegunSets
    <3> QED
      BY <3>1, <3>4 DEF Condemns
  <2> QED
    BY <2>2, <2>3, <2>4
<1> QED
  BY <1>1, <1>2

\* A usage answer alone decides no deep check.
LEMMA WhamCondemns ==
  ASSUME CareInv, NEW t \in Tasks, Wham(t), Condemns(t)
  PROVE  FALSE
<1> DEFINE a == task[t].account
<1>0. /\ a \in Accounts /\ task[t].had \in Editions /\ standing[a] \in Minds /\ CareTypeOK
  BY AtAccount, CareAssumption DEF Wham, Idle, TaskState, CareInv, CareTypeOK
<1>1. PICK found \in WhamFound[standing[a]] :
         IF task[t].deep /\ found # "available"
         THEN Goes(t, Diagnosis(a, task[t].had))
         ELSE Decides(t, "record", found)
  BY DEF Wham
<1>2. CASE task[t].deep /\ found # "available"
  <2>1. Goes(t, Diagnosis(a, task[t].had)) /\ Diagnosis(a, task[t].had) \in Steps
    BY <1>0, <1>1, <1>2, DiagnosisSays DEF Steps
  <2>2. task'[t].verdict = task[t].verdict
    BY <1>0, <2>1, GoesKeeps
  <2> QED
    BY <2>2, VerdictGiven
<1>3. CASE ~(task[t].deep /\ found # "available")
  <2>1. Decides(t, "record", found) /\ found \in AccountStatus /\ "record" \in Steps
    BY <1>0, <1>1, <1>3, StatusesFound DEF Steps
  <2>2. task'[t].verdict = found /\ task'[t].deep = task[t].deep
    BY <1>0, <2>1, DecidesKeeps DEF Keeps
  <2> QED
    BY <1>3, <2>2 DEF Condemns
<1> QED
  BY <1>2, <1>3

\* Of an account in good standing an exchange is refused only with a refresh
\* token that was used before.
LEMMA ExchangeCondemns ==
  ASSUME CareInv, NEW t \in Tasks, Exchange(t), Condemns(t)
  PROVE  task[t].at = "exchange" /\ ~Accepts(task'[t].account, task'[t].had)
<1> DEFINE a == task[t].account
<1>0. /\ task[t].at = "exchange" /\ a \in Accounts /\ task[t].kind \in {"probe", "refresh"}
      /\ standing[a] \in Minds /\ task[t].steady \in {None, standing[a]}
      /\ task[t].had \in Editions /\ CareTypeOK
  <2>1. task[t].at = "exchange"
    BY DEF Exchange
  <2> QED
    BY <2>1, MidCall, AtAccount DEF TaskState, CareInv
<1>1. CASE /\ Exchanges(a, task[t].had)
           /\ Receives(t, IF task[t].kind = "refresh" THEN "store" ELSE "check")
  <2> DEFINE next == IF task[t].kind = "refresh" THEN "store" ELSE "check"
             c == {"access_token"}
  <2>1. Makes(a, task[t].had, c) /\ c \in SUBSET Credentials
    BY <1>1 DEF Exchanges, Credentials
  <2> HIDE DEF c
  <2>2. newest[a] + 1 \in Editions
    BY <1>0, <2>1, MakesSets
  <2>3. Receives(t, next) /\ next \in {"check", "store"}
    BY <1>1
  <2> HIDE DEF next
  <2>4. task'[t].verdict = IF next = "store" THEN "available" ELSE None
    BY <1>0, <2>2, <2>3, ReceivesKeeps
  <2> QED
    BY <2>4, VerdictGiven DEF Condemns
<1>2. ASSUME NEW found \in AccountStatus, ExchangeFailed(t, found)
      PROVE  Keeps(t) /\ task'[t].verdict = found
  <2>1. CASE task[t].kind = "refresh"
    <3>1. Goes(t, "mark") /\ "mark" \in Steps
      BY <1>2, <2>1 DEF ExchangeFailed, Steps
    <3>2. task'[t].verdict = task[t].verdict
      BY <1>0, <3>1, GoesKeeps
    <3> QED
      BY <3>2, VerdictGiven
  <2>2. CASE task[t].kind = "probe"
    <3>1. Decides(t, "record", found) /\ "record" \in Steps
      BY <1>2, <2>2 DEF ExchangeFailed, Steps
    <3> QED
      BY <1>0, <3>1, DecidesKeeps
  <2> QED
    BY <1>0, <2>1, <2>2
<1>3. CASE ExchangeFailed(t, LifecycleStatus(RefreshFailure(NoAnswer)))
  <2>1. LifecycleStatus(RefreshFailure(NoAnswer)) = "refresh_failed"
    BY LostAnswer
  <2>2. task'[t].verdict = "refresh_failed"
    BY <1>2, <1>3, <2>1 DEF AccountStatus
  <2> QED
    BY <2>2 DEF Condemns
<1>4. CASE \E found \in RejectionFound[standing[a]][Accepts(a, task[t].had)] : ExchangeFailed(t, found)
  <2>0. Accepts(a, task[t].had) \in BOOLEAN
    BY DEF Accepts
  <2>1. PICK found \in RejectionFound[standing[a]][Accepts(a, task[t].had)] : ExchangeFailed(t, found)
    BY <1>4
  <2>2. found \in AccountStatus
    BY <1>0, <2>0, <2>1, StatusesFound
  <2>3. Keeps(t) /\ task'[t].verdict = found
    BY <1>2, <2>1, <2>2
  <2>4. standing[a] \in {"good", "limited"} /\ found \in {"auth_invalid", "forbidden"}
    BY <1>0, <2>3, CareAssumption DEF Condemns, Keeps, Minds
  <2>5. ~Accepts(a, task[t].had)
    <3> SUFFICES ASSUME Accepts(a, task[t].had) PROVE FALSE
      OBVIOUS
    <3>1. Accepts(a, task[t].had) = TRUE
      BY <2>0
    <3>2. found \in RejectionFound[standing[a]][TRUE]
      BY <2>1, <3>1
    <3> QED
      BY <2>4, <3>2, LostFound
  <2> QED
    BY <1>0, <2>3, <2>5 DEF Keeps
<1> QED
  BY <1>1, <1>3, <1>4 DEF Exchange

\* A session token is used where there is no refresh token; a check after an
\* exchange is not believed unless it says banned or exhausted.
LEMMA PageCondemns ==
  ASSUME CareInv, NEW t \in Tasks, Session(t) \/ Check(t), Condemns(t)
  PROVE  FALSE
<1> DEFINE a == task[t].account
<1>0. /\ task[t].at \in {"session", "check"} /\ a \in Accounts
      /\ standing[a] \in Minds /\ task[t].steady \in {None, standing[a]}
      /\ task[t].had \in Editions /\ CareTypeOK /\ UNCHANGED <<standing>>
      /\ HasRefresh(t) => task[t].at = "check" /\ task[t].got # None
  BY MidCall, AtAccount DEF Session, Check, TaskState, CareInv, Orderly, provider
<1>1. ASSUME NEW at \in Steps, NEW found \in AccountStatus, Decides(t, at, found)
      PROVE  HasRefresh(t) /\ Keeps(t) /\ task'[t].verdict = found
  BY <1>0, <1>1, DecidesKeeps DEF Keeps, HasRefresh, Condemns
<1>2. CASE Session(t)
  <2>1. CASE /\ \E c \in {{"access_token"}, {"access_token", "refresh_token"}} :
                  Makes(a, task[t].had, c)
             /\ Receives(t, "check")
    <3>1. PICK c \in {{"access_token"}, {"access_token", "refresh_token"}} : Makes(a, task[t].had, c)
      BY <2>1
    <3>2. c \in SUBSET Credentials
      BY DEF Credentials
    <3>3. newest[a] + 1 \in Editions
      BY <1>0, <3>1, <3>2, MakesSets
    <3>4. task'[t].verdict = None
      BY <1>0, <2>1, <3>3, ReceivesKeeps
    <3> QED
      BY <3>4, VerdictGiven
  <2>2. CASE \E found \in SessionFound : Decides(t, "record", found)
    <3>1. PICK found \in SessionFound : Decides(t, "record", found)
      BY <2>2
    <3>2. found \in AccountStatus /\ "record" \in Steps
      BY StatusesFound DEF Steps
    <3>3. HasRefresh(t) /\ task[t].at = "session"
      BY <1>1, <1>2, <3>1, <3>2 DEF Session
    <3> QED
      BY <1>0, <3>3
  <2> QED
    BY <1>2, <2>1, <2>2 DEF Session
<1>3. CASE Check(t)
  <2> DEFINE fresh == task[t].got # None
             next == IF fresh THEN "store" ELSE "record"
  <2>0. fresh \in BOOLEAN /\ next \in Steps
    BY DEF Steps
  <2>1. PICK found \in CheckFound[standing[a]][fresh] : Decides(t, next, found)
    BY <1>3 DEF Check
  <2>2. found \in AccountStatus
    BY <1>0, <2>0, <2>1, StatusesFound
  <2> HIDE DEF next
  <2>3. HasRefresh(t) /\ Keeps(t) /\ task'[t].verdict = found
    BY <1>1, <2>0, <2>1, <2>2
  <2>4. fresh = TRUE
    BY <1>0, <2>3
  <2>5. found \in CheckFound[standing[a]][TRUE]
    BY <2>1, <2>4
  <2>6. standing[a] \in {"good", "limited"} /\ found \in {"auth_invalid", "forbidden"}
    BY <1>0, <2>3, CareAssumption DEF Condemns, Keeps, Minds
  <2> QED
    BY <2>5, <2>6, LostFound
<1> QED
  BY <1>2, <1>3

\* No write gives a verdict, nor does anything else.
LEMMA CondemnedStep ==
  ASSUME CareInv, CareNext, NEW t \in Tasks, Condemns(t)
  PROVE  task[t].at = "exchange" /\ ~Accepts(task'[t].account, task'[t].had)
<1>1. task'[t].verdict # task[t].verdict /\ task'[t].verdict # None
  BY VerdictGiven
<1>2. ASSUME NEW u \in Tasks, TaskStep(u) \/ Abort(u)
      PROVE  task[t].at = "exchange" /\ ~Accepts(task'[t].account, task'[t].had)
  <2>1. u = t
    BY <1>1, <1>2, OthersWait
  <2>2. ~(Mark(t) \/ Record(t) \/ Abort(t))
    <3>1. ASSUME task' = [task EXCEPT ![t] = Resting] PROVE FALSE
      BY <1>1, <3>1, RestSets DEF Resting, CareInv
    <3> QED
      BY <3>1 DEF Mark, Record, Abort
  <2>3. ~Store(t)
    <3> SUFFICES ASSUME Store(t) PROVE FALSE
      OBVIOUS
    <3>1. task'[t] = Resting \/ task'[t] = [task[t] EXCEPT !.at = "record"]
      BY DEF Store, CareInv, CareTypeOK
    <3>2. task'[t].verdict \in {None, task[t].verdict}
      BY <3>1, AtAccount DEF Resting, TaskState
    <3> QED
      BY <1>1, <3>2
  <2> QED
    BY <1>2, <2>1, <2>2, <2>3, WhamCondemns, ExchangeCondemns, PageCondemns DEF TaskStep
<1>3. ASSUME NEW u \in Tasks, NEW a \in Accounts, LoadProbe(u, a) \/ LoadRefresh(u, a) PROVE FALSE
  <2>1. u = t
    BY <1>1, <1>3, BegunWait
  <2> QED
    BY <1>3, <2>1, LoadCondemns
<1>4. ASSUME NEW a \in start.fickle, Reconsider(a) PROVE FALSE
  <2>1. task'[t] = [task[t] EXCEPT !.steady = None] \/ task'[t] = task[t]
    BY <1>4 DEF Reconsider
  <2>2. task'[t].verdict = task[t].verdict
    BY <2>1, AtAccount DEF TaskState
  <2> QED
    BY <1>1, <2>2
<1>5. ASSUME NEW a \in Accounts, DeleteAccount(a) \/ Reimport(a) PROVE FALSE
  BY <1>1, <1>5 DEF DeleteAccount, Reimport
<1>6. ASSUME NEW d \in Redemptions, Deliver(d) PROVE FALSE
  BY <1>1, <1>6 DEF Deliver
<1>7. ASSUME NEW D \in SUBSET Redemptions, DeleteBatch(D) PROVE FALSE
  BY <1>1, <1>7 DEF DeleteBatch
<1> QED
  BY <1>2, <1>3, <1>4, <1>5, <1>6, <1>7 DEF CareNext

\* A deep check condemns an account in good standing that has a refresh token
\* only where its exchange is refused because another task had used that up.
THEOREM NoneCondemned == CareSpec => CondemnedWithCause
<1>1. CareInv /\ [CareNext]_cvars =>
        [\A t \in Tasks : LET k == task'[t] IN
          /\ task[t].verdict = None /\ k.verdict \in {"auth_invalid", "forbidden"}
          /\ k.kind = "probe" /\ k.deep /\ k.steady \in {"good", "limited"}
          /\ "refresh_token" \in files[k.account][k.had]
          => task[t].at = "exchange" /\ ~Accepts(k.account, k.had)]_cvars
  BY CondemnedStep DEF Condemns
<1> QED
  BY <1>1, CareInvariant, PTL DEF CareSpec, CondemnedWithCause

-----------------------------------------------------------------------------
(* The login of an account.                                                *)

\* A login is known after a step in which neither the row nor the task that
\* has it changes.
LEMMA KnownStays ==
  ASSUME NEW a \in Accounts, Known(a), spent'[a] = spent[a], stored'[a] = stored[a],
         \A t \in Tasks : InHand(t, a) => InHand(t, a)'
  PROVE  Known(a)'
BY DEF Known, Accepts

\* Where no edition is made, no refresh token is taken.
LEMMA SpentStays ==
  ASSUME CareInv, CareNext, NEW a \in Accounts, newest'[a] = newest[a]
  PROVE  spent'[a] = spent[a]
<1>1. ASSUME NEW t \in Tasks, Exchanges(task[t].account, task[t].had), task[t].at = "exchange"
      PROVE  spent'[a] = spent[a]
  <2> DEFINE c == {"access_token"}
  <2>1. task[t].account \in Accounts /\ task[t].had \in Editions /\ c \in SUBSET Credentials
    BY <1>1, AtAccount DEF TaskState, Idle, Credentials
  <2>2. Makes(task[t].account, task[t].had, c)
    BY <1>1 DEF Exchanges
  <2> HIDE DEF c
  <2>3. newest'[task[t].account] = newest[task[t].account] + 1 /\ newest[task[t].account] \in Nat
    BY <2>1, <2>2, MakesSets DEF CareInv
  <2>4. a # task[t].account
    BY <2>3
  <2> QED
    BY <1>1, <2>4 DEF Exchanges, CareInv, CareTypeOK
<1>2. ASSUME NEW t \in Tasks, TaskStep(t) PROVE spent'[a] = spent[a]
  BY <1>1, <1>2 DEF TaskStep, Wham, Exchange, Session, Check, Store, Mark, Record, provider, editions
<1>3. ASSUME NEW t \in Tasks, Abort(t) PROVE spent'[a] = spent[a]
  BY <1>3 DEF Abort, provider, editions
<1>4. ASSUME NEW t \in Tasks, NEW b \in Accounts, LoadProbe(t, b) \/ LoadRefresh(t, b)
      PROVE  spent'[a] = spent[a]
  BY <1>4 DEF LoadProbe, LoadRefresh, provider, editions
<1>5. ASSUME NEW b \in start.fickle, Reconsider(b) PROVE spent'[a] = spent[a]
  BY <1>5 DEF Reconsider, editions
<1>6. ASSUME NEW b \in Accounts, DeleteAccount(b) \/ Reimport(b) PROVE spent'[a] = spent[a]
  BY <1>6 DEF DeleteAccount, Reimport, provider, editions
<1>7. ASSUME NEW d \in Redemptions, Deliver(d) PROVE spent'[a] = spent[a]
  BY <1>7 DEF Deliver, provider, editions
<1>8. ASSUME NEW D \in SUBSET Redemptions, DeleteBatch(D) PROVE spent'[a] = spent[a]
  BY <1>8 DEF DeleteBatch, provider, editions
<1> QED
  BY <1>2, <1>3, <1>4, <1>5, <1>6, <1>7, <1>8 DEF CareNext

\* The step that loses a login.
LEMMA LoginStep ==
  ASSUME CareInv, CareNext, NEW a \in Accounts, live[a], live'[a], Known(a), ~Known(a)'
  PROVE  \/ newest'[a] # newest[a]
         \/ \E t \in Tasks : InHand(t, a) /\ task'[t].at = "idle" /\ stored' = stored
         \/ \E t \in Tasks : InHand(t, a) /\ task[t].at = "store"
                             /\ task[t].sold # (bound[a] # None)
         \/ stored'[a] # stored[a] /\ task' = task
<1> SUFFICES ASSUME newest'[a] = newest[a] PROVE
         \/ \E t \in Tasks : InHand(t, a) /\ task'[t].at = "idle" /\ stored' = stored
         \/ \E t \in Tasks : InHand(t, a) /\ task[t].at = "store"
                             /\ task[t].sold # (bound[a] # None)
         \/ stored'[a] # stored[a] /\ task' = task
  OBVIOUS
<1>0. spent'[a] = spent[a]
  BY SpentStays
<1>1. stored'[a] # stored[a] \/ \E t \in Tasks : InHand(t, a) /\ ~InHand(t, a)'
  BY <1>0, KnownStays
<1>2. ASSUME NEW t \in Tasks, TaskStep(t) /\ task[t].at # "store" PROVE FALSE
  <2>1. stored' = stored
    BY <1>2 DEF TaskStep, Wham, Exchange, Session, Check, Store, Mark, Record, SetStatus, tables
  <2>2. \A u \in Tasks \ {t} : task'[u] = task[u]
    BY <1>2, OthersWait
  <2>3. InHand(t, a) => InHand(t, a)'
    <3> SUFFICES ASSUME InHand(t, a) PROVE InHand(t, a)'
      OBVIOUS
    <3>1. Check(t) /\ task[t].at = "check" /\ task[t].got # None
      BY <1>2 DEF InHand, TaskStep, Wham, Exchange, Session, Store, Mark, Record
    <3>2. PICK found \in CheckFound[standing[task[t].account]][TRUE] : Decides(t, "store", found)
      BY <3>1 DEF Check
    <3>3. task'[t].at = "store" /\ task'[t].got = task[t].got /\ task'[t].account = task[t].account
      BY <3>2, AtAccount DEF Decides, TaskState, CareInv, CareTypeOK
    <3> QED
      BY <1>0, <3>3 DEF InHand, Accepts
  <2> QED
    BY <1>0, <1>1, <2>1, <2>2, <2>3 DEF InHand, Accepts
<1>3. ASSUME NEW t \in Tasks, Store(t)
      PROVE  InHand(t, a) /\ task[t].at = "store" /\ task[t].sold # (bound[a] # None)
  <2>1. /\ task[t].at = "store" /\ task[t].got # None
        /\ task[t].account \in Accounts /\ task[t].sold \in BOOLEAN
    BY <1>3, AtAccount DEF Store, Idle, Orderly, TaskState
  <2>2. \A u \in Tasks \ {t} : task'[u] = task[u]
    BY <1>3 DEF Store
  <2>3. task[t].account = a
    <3> SUFFICES ASSUME task[t].account # a PROVE FALSE
      OBVIOUS
    <3>1. stored'[a] = stored[a]
      BY <1>3, <2>1 DEF Store, StoreRedeemed, StoreUnredeemed, CareInv, CareTypeOK
    <3>2. \A u \in Tasks : InHand(u, a) => InHand(u, a)'
      BY <1>0, <2>2 DEF InHand, Accepts
    <3> QED
      BY <1>1, <3>1, <3>2
  <2>5. Accepts(a, task[t].got)
    BY <2>1, <2>3 DEF CareInv, SoleHolder, HoldsAlone, Holds
  <2>6. stored'[a] # task[t].got
    BY <1>0, <2>5 DEF Known, Accepts
  <2>7. CASE task[t].sold /\ bound[a] # None
    <3>1. StoreRedeemed(a, task[t].got)
      BY <1>3, <2>3, <2>7 DEF Store
    <3>2. stored'[a] = task[t].got
      BY <2>3, <2>7, <3>1 DEF StoreRedeemed, CareInv, CareTypeOK
    <3> QED
      BY <2>6, <3>2
  <2>8. CASE ~task[t].sold /\ bound[a] = None
    <3>1. StoreUnredeemed(a, task[t].got, task[t].verdict)
      BY <1>3, <2>3, <2>8 DEF Store
    <3>2. stored'[a] = task[t].got
      BY <2>3, <2>8, <3>1 DEF StoreUnredeemed, CareInv, CareTypeOK
    <3> QED
      BY <2>6, <3>2
  <2>9. InHand(t, a)
    BY <2>1, <2>3, <2>5 DEF InHand
  <2> QED
    BY <2>1, <2>7, <2>8, <2>9
<1>4. ASSUME NEW t \in Tasks, Abort(t)
      PROVE  \E u \in Tasks : InHand(u, a) /\ task'[u].at = "idle" /\ stored' = stored
  <2>1. stored' = stored /\ task' = [task EXCEPT ![t] = Resting]
    BY <1>4 DEF Abort, tables
  <2>2. PICK u \in Tasks : InHand(u, a) /\ ~InHand(u, a)'
    BY <1>1, <2>1
  <2>3. u = t
    BY <1>0, <2>1, <2>2 DEF InHand, Accepts
  <2>4. task'[t].at = "idle"
    BY <2>1 DEF Resting, CareInv, CareTypeOK
  <2> QED
    BY <2>1, <2>2, <2>3, <2>4
<1>5. ASSUME NEW t \in Tasks, NEW b \in Accounts, LoadProbe(t, b) \/ LoadRefresh(t, b) PROVE FALSE
  <2>1. stored' = stored /\ task[t].at = "idle"
    BY <1>5 DEF LoadProbe, LoadRefresh, tables, Idle
  <2>2. \A u \in Tasks \ {t} : task'[u] = task[u]
    BY <1>5, BegunWait
  <2> QED
    BY <1>0, <1>1, <2>1, <2>2 DEF InHand, Accepts
<1>6. ASSUME NEW b \in start.fickle, Reconsider(b) PROVE FALSE
  <2>1. stored' = stored
        /\ task' = [t \in Tasks |-> IF task[t].account = b
                                    THEN [task[t] EXCEPT !.steady = None] ELSE task[t]]
    BY <1>6 DEF Reconsider, tables
  <2>2. ASSUME NEW t \in Tasks, InHand(t, a) PROVE InHand(t, a)'
    <3>1. task'[t].at = task[t].at /\ task'[t].got = task[t].got /\ task'[t].account = task[t].account
      BY <2>1, AtAccount DEF TaskState
    <3> QED
      BY <1>0, <2>2, <3>1 DEF InHand, Accepts
  <2> QED
    BY <1>1, <2>1, <2>2
<1>7. ASSUME NEW b \in Accounts, DeleteAccount(b) \/ Reimport(b)
      PROVE  stored'[a] # stored[a] /\ task' = task
  BY <1>0, <1>1, <1>7 DEF DeleteAccount, Reimport, InHand, Accepts
<1>8. ASSUME NEW d \in Redemptions, Deliver(d) PROVE FALSE
  BY <1>0, <1>1, <1>8 DEF Deliver, InHand, Accepts
<1>9. ASSUME NEW D \in SUBSET Redemptions, DeleteBatch(D) PROVE FALSE
  BY <1>0, <1>1, <1>9 DEF DeleteBatch, InHand, Accepts
<1>10. ASSUME NEW t \in Tasks, TaskStep(t) PROVE task[t].at # "store" \/ Store(t)
  BY <1>10 DEF TaskStep, Wham, Exchange, Session, Check, Store, Mark, Record
<1> QED
  BY <1>2, <1>3, <1>4, <1>5, <1>6, <1>7, <1>8, <1>9, <1>10 DEF CareNext

\* A login is lost only in one of the four ways LoginKept lists.
THEOREM LoginsKept == CareSpec => LoginKept
<1>1. CareInv /\ [CareNext]_cvars =>
        [\A a \in Accounts : live[a] /\ live'[a] /\ Known(a) /\ ~Known(a)' =>
          \/ newest'[a] # newest[a]
          \/ \E t \in Tasks : InHand(t, a) /\ task'[t].at = "idle" /\ stored' = stored
          \/ \E t \in Tasks : InHand(t, a) /\ task[t].at = "store"
                               /\ task[t].sold # (bound[a] # None)
          \/ stored'[a] # stored[a] /\ task' = task]_cvars
  BY LoginStep
<1> QED
  BY <1>1, CareInvariant, PTL DEF CareSpec, LoginKept
=============================================================================
