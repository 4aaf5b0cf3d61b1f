---------------------------- MODULE RedeemLedger ----------------------------
(***************************************************************************)
(* What the redemption service promises about accounts, without rows,      *)
(* statuses, tokens, reservations or requests: an account arrives in stock,*)
(* is dealt from stock to at most one delivery of one code, can be         *)
(* withdrawn for good, and returns to stock only when the operator recalls *)
(* the code it was dealt to.  RedeemStore implements this.                 *)
(***************************************************************************)
EXTENDS Integers

CONSTANTS Accounts, Codes, None,
          MaxDeals    \* deliveries a code may get: the first and its after-sales

VARIABLES
    stock,   \* accounts that can be dealt
    gone,    \* accounts withdrawn
    turn,    \* deliveries each code has had
    dealt    \* the accounts of each delivery

lvars == <<stock, gone, turn, dealt>>

Deals == 1 .. MaxDeals

LInit ==
    /\ stock = {}
    /\ gone = {}
    /\ turn = [c \in Codes |-> 0]
    /\ dealt = [c \in Codes |-> [n \in Deals |-> {}]]

Arrive(a) ==
    /\ a \notin stock \cup gone
    /\ \A c \in Codes, n \in Deals : a \notin dealt[c][n]
    /\ stock' = stock \cup {a}
    /\ UNCHANGED <<gone, turn, dealt>>

Withdraw(a) ==
    /\ a \in stock \/ \E c \in Codes, n \in Deals : a \in dealt[c][n]
    /\ a \notin gone
    /\ stock' = stock \ {a}
    /\ gone' = gone \cup {a}
    /\ UNCHANGED <<turn, dealt>>

\* One settled request: every code that to names gets its next delivery.
Deal(to) ==
    LET paid == {c \in Codes : \E a \in Accounts : to[a] = c}
    IN /\ \A a \in Accounts : to[a] # None => a \in stock
       /\ \A c \in paid : turn[c] < MaxDeals
       /\ stock' = {a \in stock : to[a] = None}
       /\ turn' = [c \in Codes |-> IF c \in paid THEN turn[c] + 1 ELSE turn[c]]
       /\ dealt' = [c \in Codes |-> [n \in Deals |->
                      IF c \in paid /\ n = turn[c] + 1
                      THEN {a \in Accounts : to[a] = c} ELSE dealt[c][n]]]
       /\ UNCHANGED gone

\* The operator deletes the batch the codes C belong to.
Recall(C) ==
    /\ stock' = stock \cup {a \in Accounts \ gone :
                              \E c \in C, n \in Deals : a \in dealt[c][n]}
    /\ turn' = [c \in Codes |-> IF c \in C THEN 0 ELSE turn[c]]
    /\ dealt' = [c \in Codes |-> IF c \in C THEN [n \in Deals |-> {}] ELSE dealt[c]]
    /\ UNCHANGED gone

LNext ==
    \/ \E a \in Accounts : Arrive(a) \/ Withdraw(a)
    \/ \E to \in [Accounts -> Codes \cup {None}] : Deal(to)
    \/ \E C \in SUBSET Codes : Recall(C)

LSpec == LInit /\ [][LNext]_lvars
=============================================================================
