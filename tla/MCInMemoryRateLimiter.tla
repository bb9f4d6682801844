----------------------- MODULE MCInMemoryRateLimiter -----------------------
(***************************************************************************)
(* Two callers, two calls per window of two seconds of two ticks each, and *)
(* a clock of seven ticks: the window slides by almost twice its length,   *)
(* so the deque is pruned completely, partly and not at all, and refusals  *)
(* fall on whole and on half seconds.                                      *)
(***************************************************************************)
EXTENDS InMemoryRateLimiter

============================================================================
