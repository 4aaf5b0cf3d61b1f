---------------------------- MODULE MCRedeemJobs ----------------------------
(* Two clients: one submits three jobs again and again, the other one.      *)
EXTENDS RedeemJobs, TLC

CONSTANTS j1, j2, j3, j4, A, B

MCClientOf == (j1 :> A) @@ (j2 :> A) @@ (j3 :> A) @@ (j4 :> B)

\* Three jobs of a single code; the fourth has several chunks with network work.
MCMaxCodes == (j1 :> 1) @@ (j2 :> 1) @@ (j3 :> 1) @@ (j4 :> 3)
MCMaxNetwork == (j1 :> 0) @@ (j2 :> 0) @@ (j3 :> 0) @@ (j4 :> 1)
=============================================================================
