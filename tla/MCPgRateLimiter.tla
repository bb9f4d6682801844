-------------------------- MODULE MCPgRateLimiter --------------------------
(***************************************************************************)
(* An instance of PgRateLimiter: two calls in flight, each in a process of *)
(* its own, one caller (a caller's calls meet only in its own rows), a     *)
(* clock that passes the window, and transactions that may stay open while *)
(* the rows of their window are pruned by another.                         *)
(***************************************************************************)
EXTENDS PgRateLimiter, TLC

CONSTANTS p1, p2, k1, k2

TwoProcesses == (k1 :> p1 @@ k2 :> p2)
============================================================================
