---------------------------- MODULE ProbeVerdict ----------------------------
(***************************************************************************)
(* What backend/src makes of the provider's answers: the wham/usage answer *)
(* (normalize_wham_usage_response), the answers to a token refresh and to  *)
(* an account check, and the account status they end in.                   *)
(*                                                                         *)
(* What is abstracted: of an HTTP status only the values the code tells    *)
(* apart are kept, 200 stands for any success, 0 for no answer at all; of  *)
(* a text only which of the word lists match; a quota window is below or   *)
(* at its limit, and its reset has elapsed, lies ahead or is not given.    *)
(***************************************************************************)

AccountStatus == {"available", "at_expired", "refresh_failed", "auth_invalid",
                  "forbidden", "quota_exhausted"}

\* Texts, by the lists of words they are found by; "plain" by none.  An account
\* or a workspace is said to be "deactivated", an account to be "banned" (or
\* disabled, suspended), a token "token_invalid" (or a session expired), a
\* refresh an "invalid_grant" (or one of its relatives), a quota "usage_limit".
Texts == {"plain", "account_deactivated", "workspace_deactivated", "banned",
          "token_invalid", "invalid_grant", "usage_limit"}

Answers == [http : {0, 200, 400, 401, 402, 403, 429, 500}, says : Texts]

\* codex_looks_like_token_invalidated, ..._workspace_deactivated, and the words
\* for a ban, of which "deactivated" is one.
TokenInvalidated == {"account_deactivated", "token_invalid"}
WorkspaceDeactivated == {"workspace_deactivated"}
BanWords == {"account_deactivated", "workspace_deactivated", "banned"}

NoAnswer == [http |-> 0, says |-> "plain"]

-----------------------------------------------------------------------------
(* Quota windows of a 200 answer.                                          *)

Window == [used : {"below", "full", "unknown"}, reset : {"elapsed", "ahead", "unknown"}]

\* A window the answer leaves out.
NoWindow == [used |-> "unknown", reset |-> "unknown"]

Usage == [free : BOOLEAN, primary : Window, secondary : Window,
          unlimited : BOOLEAN, credits : {"some", "none", "unknown"}]

\* The windows parse_codex_wham_usage_response keeps.  Which of the two it
\* calls primary makes no difference here.
WindowsKept(u) ==
    IF u.secondary # NoWindow /\ ~u.free THEN {u.primary, u.secondary} ELSE {u.primary}

\* Mutant: a full window blocks only if its reset time is given.
BlocksIfAhead(w) == w.used = "full" /\ w.reset = "ahead"

\* Without a reset time a full window stays full.
Blocks(w) == w.used = "full" /\ w.reset # "elapsed"

Exhausted(u) ==
    /\ ~u.unlimited
    /\ \/ \E w \in WindowsKept(u) : Blocks(w)
       \/ u.credits = "none" /\ \A w \in WindowsKept(u) : w.used = "unknown"

-----------------------------------------------------------------------------
(* Statuses.                                                               *)

WhamStatus(answer, usage) ==
    CASE \/ answer.http = 401
         \/ answer.http = 403 /\ answer.says \in TokenInvalidated
         \/ answer.http = 402 /\ answer.says \in WorkspaceDeactivated -> "auth_invalid"
      [] answer.http = 403 /\ answer.says \notin TokenInvalidated     -> "forbidden"
      [] answer.http = 402 /\ answer.says \notin WorkspaceDeactivated -> "quota_exhausted"
      [] answer.http \notin {200, 401, 402, 403}                      -> "refresh_failed"
      [] answer.http = 200 -> IF Exhausted(usage) THEN "quota_exhausted" ELSE "available"

\* Mutant: a refresh that fails for any other reason condemns the token too.
RefreshFailureAny(answer) ==
    CASE answer.says \in BanWords                            -> "banned"
      [] answer.says \notin BanWords /\ answer.http = 403     -> "risk_blocked"
      [] OTHER                                               -> "rt_invalid"

\* classify_oauth_refresh_error, of an answer that is not a success.
RefreshFailure(answer) ==
    CASE answer.says \in BanWords                            -> "banned"
      [] answer.says \notin BanWords /\ answer.http = 403     -> "risk_blocked"
      [] /\ answer.says \notin BanWords /\ answer.http # 403
         /\ answer.http \in {400, 401} \/ answer.says = "invalid_grant" -> "rt_invalid"
      [] OTHER                                               -> "probe_failed"

\* The session token's branch of diagnose_lifecycle.
SessionFailure(answer) ==
    CASE answer.http = 401 -> "session_expired"
      [] answer.http = 403 -> "risk_blocked"
      [] OTHER             -> "probe_failed"

\* probe_openai_access_token.
CheckFinding(answer) ==
    CASE answer.http = 200 -> "active"
      [] answer.http = 401 -> "session_expired"
      [] answer.http = 403 -> IF answer.says \in BanWords THEN "banned" ELSE "risk_blocked"
      [] answer.http = 429 /\ answer.says = "usage_limit" -> "usage_limit_reached"
      [] OTHER             -> "probe_failed"

\* Mutant: after a refresh every finding of the check decides.
MergedAll(diagnosis, finding) == finding

\* merge_probe_into_diagnosis: after a successful refresh the check decides
\* only if it says banned or exhausted; any other failure of it is ignored.
Merged(diagnosis, finding) ==
    IF finding \in {"banned", "usage_limit_reached"} THEN finding ELSE diagnosis

\* Mutant: the diagnosis is stored as the status.
LifecycleStatusAsIs(diagnosis) == diagnosis

\* lifecycle_status_to_account_status.
LifecycleStatus(diagnosis) ==
    CASE diagnosis \in {"active", "refreshed"}      -> "available"
      [] diagnosis = "usage_limit_reached"          -> "quota_exhausted"
      [] diagnosis = "risk_blocked"                 -> "forbidden"
      [] diagnosis \in {"banned", "session_expired", "rt_invalid", "needs_login"} -> "auth_invalid"
      [] diagnosis = "probe_failed"                 -> "refresh_failed"
=============================================================================
