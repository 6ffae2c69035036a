----------------------------- MODULE MCRecovery -----------------------------
(***************************************************************************)
(* Small instances of Recovery for TLC.  Requests are interchangeable;     *)
(* workers are not, because the router breaks ties by worker_id.           *)
(***************************************************************************)
EXTENDS Recovery, TLC

RequestSymmetry == Permutations(Requests)
=============================================================================
