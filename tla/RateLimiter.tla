---------------------------- MODULE RateLimiter -----------------------------
(***************************************************************************)
(* The rate limiter of the redeem requests in backend/src/main.rs: one     *)
(* bucket per client address, restarted when its window is over.  A        *)
(* request reads the settings, waits for the limiter's lock and is judged  *)
(* by what it read; the administrator saves new settings and clears the    *)
(* buckets afterwards, so that requests may be judged by settings that are *)
(* gone and refill buckets that were just cleared.                         *)
(*                                                                         *)
(* What is abstracted: a time is its age in ticks; how a client's address  *)
(* is read from the headers is left out, a client is its address.          *)
(***************************************************************************)
EXTENDS Integers, FiniteSets, FiniteSetsExt

CONSTANTS
    Clients,   \* client addresses
    Requests,  \* redeem requests; each is sent any number of times
    None,
    Windows,   \* values of window_seconds, in ticks
    Limits,    \* values of max_requests
    Lists      \* values of whitelist_ips, by the clients they cover

ASSUME LimiterAssumption ==
    /\ Windows \subseteq Nat \ {0}
    /\ \E w \in Windows : \A v \in Windows : v <= w
    /\ Limits \subseteq Nat \ {0}
    /\ Lists \subseteq SUBSET Clients
    /\ None \notin Nat /\ None \notin [age : Nat, count : Nat]

VARIABLES
    settings,   \* the row of app_settings
    bucket,     \* buckets: age of window_start, and count
    request,    \* requests between reading the settings and being judged
    uncleared,  \* administrators have saved settings and not yet cleared
    \* what the properties look back to, since the buckets were cleared
    judged,     \* windows and limits requests were judged by
    recent,     \* admissions the limiter counted in the last w ticks
    promised,   \* ticks left of the last retry_after_seconds
    served      \* an admission since the promise has come due

lvars == <<settings, bucket, request, uncleared, judged, recent, promised, served>>

Span == CHOOSE w \in Windows : \A v \in Windows : v <= w

\* Both windows and limits are at least 1 after normalized().
Settings == [enabled : BOOLEAN, window : Windows, most : Limits, spared : Lists]

Buckets == [age : 0 .. 2 * Span, count : Nat]

LimiterTypeOK ==
    /\ settings \in Settings
    /\ bucket \in [Clients -> Buckets \cup {None}]
    /\ request \in [Requests -> [client : Clients, by : Settings] \cup {None}]
    /\ uncleared \in BOOLEAN
    /\ judged \subseteq Windows \X Limits
    /\ recent \in [Clients -> [0 .. Span -> Nat]]
    /\ promised \in [Clients -> (0 .. Span) \cup {None}]
    /\ served \in [Clients -> BOOLEAN]

Cleared ==
    /\ bucket' = [c \in Clients |-> None]
    /\ judged' = {}
    /\ recent' = [c \in Clients |-> [w \in 0 .. Span |-> 0]]
    /\ promised' = [c \in Clients |-> None]
    /\ served' = [c \in Clients |-> FALSE]

LimiterInit ==
    /\ settings \in Settings
    /\ bucket = [c \in Clients |-> None]
    /\ request = [q \in Requests |-> None]
    /\ uncleared = FALSE
    /\ judged = {}
    /\ recent = [c \in Clients |-> [w \in 0 .. Span |-> 0]]
    /\ promised = [c \in Clients |-> None]
    /\ served = [c \in Clients |-> FALSE]

-----------------------------------------------------------------------------
\* enforce_redeem_rate_limit up to the lock.
Arrive(q, c) ==
    /\ request[q] = None
    /\ request' = [request EXCEPT ![q] = [client |-> c, by |-> settings]]
    /\ UNCHANGED <<settings, bucket, uncleared, judged, recent, promised, served>>

Exempt(r) == ~r.by.enabled \/ r.client \in r.by.spared

\* Buckets of other clients go as well, by the window of this request.
Retained(b, w) == b # None /\ b.age < 2 * w

\* Mutant: the window is over one tick early.
OverEarly(b, w) == b.age + 1 >= w

\* Mutant: the window is over one tick late.
OverLate(b, w) == b.age > w

Over(b, w) == b.age >= w

\* The bucket of the client the request is counted in.
Current(b, w) ==
    IF Retained(b, w) /\ ~Over(b, w) THEN b ELSE [age |-> 0, count |-> 0]

\* Mutant: the client is told to wait until the bucket is dropped.
RetryAfterDrop(b, w) == Max({2 * w - b.age, 1})

RetryAfter(b, w) == Max({w - b.age, 1})

Counted(c, b, w) ==
    bucket' = [d \in Clients |-> IF d = c THEN b
                                 ELSE IF Retained(bucket[d], w) THEN bucket[d] ELSE None]

Pass(q) ==
    /\ request[q] # None /\ Exempt(request[q])
    /\ request' = [request EXCEPT ![q] = None]
    /\ UNCHANGED <<settings, bucket, uncleared, judged, recent, promised, served>>

\* RedeemRateLimiter::check, under the lock, with the time taken there.
Admit(q) ==
    /\ request[q] # None /\ ~Exempt(request[q])
    /\ LET c == request[q].client
           s == request[q].by
           b == Current(bucket[c], s.window) IN
       /\ b.count < s.most
       /\ Counted(c, [b EXCEPT !.count = @ + 1], s.window)
       /\ judged' = judged \cup {<<s.window, s.most>>}
       /\ recent' = [recent EXCEPT ![c] =
                        [w \in 0 .. Span |-> IF w = 0 THEN 0 ELSE recent[c][w] + 1]]
       /\ served' = [served EXCEPT ![c] = @ \/ promised[c] = 0]
    /\ request' = [request EXCEPT ![q] = None]
    /\ UNCHANGED <<settings, uncleared, promised>>

Deny(q) ==
    /\ request[q] # None /\ ~Exempt(request[q])
    /\ LET c == request[q].client
           s == request[q].by
           b == Current(bucket[c], s.window) IN
       /\ b.count >= s.most
       /\ Counted(c, b, s.window)
       /\ judged' = judged \cup {<<s.window, s.most>>}
       /\ promised' = [promised EXCEPT ![c] = RetryAfter(b, s.window)]
       /\ served' = [served EXCEPT ![c] = FALSE]
    /\ request' = [request EXCEPT ![q] = None]
    /\ UNCHANGED <<settings, uncleared, recent>>

\* update_redeem_rate_limit_settings: whatever it keeps of the settings it has
\* read, any settings may come out.
Save ==
    /\ settings' \in Settings
    /\ uncleared' = TRUE
    /\ UNCHANGED <<bucket, request, judged, recent, promised, served>>

\* Others may have saved as well and still have to clear.
Clear ==
    /\ uncleared
    /\ uncleared' \in BOOLEAN
    /\ Cleared
    /\ UNCHANGED <<settings, request>>

\* The server stops and starts again.
Restart ==
    /\ request' = [q \in Requests |-> None]
    /\ uncleared' = FALSE
    /\ Cleared
    /\ UNCHANGED settings

Older(age) == IF age = 2 * Span THEN age ELSE age + 1

Tick ==
    /\ bucket' = [c \in Clients |-> IF bucket[c] = None THEN None
                                    ELSE [bucket[c] EXCEPT !.age = Older(@)]]
    /\ recent' = [c \in Clients |-> [w \in 0 .. Span |->
                      IF w = 0 THEN 0 ELSE recent[c][w - 1]]]
    /\ promised' = [c \in Clients |-> IF promised[c] \in {None, 0} THEN promised[c]
                                      ELSE promised[c] - 1]
    /\ UNCHANGED <<settings, request, uncleared, judged, served>>

LimiterNext ==
    \/ \E q \in Requests, c \in Clients : Arrive(q, c)
    \/ \E q \in Requests : Pass(q) \/ Admit(q) \/ Deny(q)
    \/ Save
    \/ Clear
    \/ Restart
    \/ Tick

LimiterSpec == LimiterInit /\ [][LimiterNext]_lvars

-----------------------------------------------------------------------------
(* Properties.                                                             *)

\* All requests judged so far had windows of at least w and limits of at most
\* most.
Within(w, most) == \A j \in judged : w <= j[1] /\ j[2] <= most

\* Within the shortest window requests were judged by since the buckets were
\* cleared, a client gets at most twice the largest limit: the rest of one
\* bucket and all of the next, also when requests bring settings of different
\* age to the same bucket.
BurstBounded ==
    \A w \in Windows, most \in Limits :
        Within(w, most) => \A c \in Clients : recent[c][w] <= 2 * most

\* A client that waits as long as it was told is let in: a request after that
\* is denied only if another one of that client was let in since, as long as
\* requests bring the same settings.
PromiseKept ==
    [][\A c \in Clients :
          /\ promised[c] = 0 /\ ~served[c]
          /\ Cardinality(judged') = 1
          => promised'[c] \in {None, 0}]_lvars
=============================================================================
