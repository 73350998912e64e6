---------------------------- MODULE MC_ItemQueue ----------------------------
(***************************************************************************)
(* Instances of ItemQueue for TLC: worker processes with one goroutine     *)
(* each (Fleet) and one process with two goroutines (Threads).             *)
(***************************************************************************)
EXTENDS ItemQueue, TLC

CONSTANTS w1, w2, s1, s2, i1, i2, j1

FleetWorkerOf == s1 :> w1 @@ s2 :> w2
ThreadsWorkerOf == s1 :> w1 @@ s2 :> w1
OneJobOf == i1 :> j1 @@ i2 :> j1
SingleJobOf == i1 :> j1
=============================================================================
