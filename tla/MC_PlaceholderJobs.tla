------------------------- MODULE MC_PlaceholderJobs -------------------------
(***************************************************************************)
(* Instances of PlaceholderJobs for TLC.                                   *)
(***************************************************************************)
EXTENDS PlaceholderJobs, TLC

CONSTANTS w1, w2, a, b

\* Workers are alike, and so are searches.
Alike == Permutations({w1, w2}) \cup Permutations({a, b})
=============================================================================
