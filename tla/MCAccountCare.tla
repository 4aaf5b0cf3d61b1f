---------------------------- MODULE MCAccountCare ----------------------------
(* Two tasks.  Either two accounts with refresh tokens that stay in good     *)
(* standing, or one account with any kind of auth file about which the       *)
(* provider changes its mind, or one with a session token that may become    *)
(* one with a refresh token and be refreshed with that.                      *)
EXTENDS AccountCare, TLC

CONSTANTS a1, a2, t1, t2

MCTasks == {t1, t2}

Files == {{"refresh_token"}, {"session_token", "access_token"}, {"access_token"}, {}}

One(kind, fickle, last) ==
    [rows |-> {a1}, files |-> [a \in {a1, a2} |-> kind], fickle |-> fickle, last |-> last]

MCStarts ==
    {[One({"refresh_token"}, {}, 1) EXCEPT !.rows = {a1, a2}]}
    \cup {One(f, {a1}, IF "refresh_token" \in f THEN 2 ELSE 1) : f \in Files}
    \cup {One({"session_token"}, {}, 2)}

Symmetric == Permutations(MCTasks)
=============================================================================
