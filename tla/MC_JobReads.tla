---------------------------- MODULE MC_JobReads ----------------------------
(***************************************************************************)
(* An instance of JobReads for TLC: a process with two goroutines beside   *)
(* one with one, and a job of two items that a client polls.               *)
(***************************************************************************)
EXTENDS JobReads, TLC

CONSTANTS w1, w2, s1, s2, s3, i1, i2, j1

MixedWorkerOf == s1 :> w1 @@ s2 :> w1 @@ s3 :> w2
OneJobOf == i1 :> j1 @@ i2 :> j1

\* Items of one job are alike, and so are the goroutines of one process.
Alike == Permutations({i1, i2}) \cup Permutations({s1, s2})
=============================================================================
