--------------------------- MODULE MC_RateLimiter ---------------------------
(***************************************************************************)
(* Instances of RateLimiter for TLC: three goroutines whose clocks show    *)
(* 0 or 2, and one domain.                                                 *)
(***************************************************************************)
EXTENDS RateLimiter

CONSTANTS c1, c2, c3, d1
=============================================================================
