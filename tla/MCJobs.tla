------------------------------- MODULE MCJobs -------------------------------
(* Instances of Jobs for TLC, and plausible bugs its properties catch.      *)
EXTENDS Jobs, TLC

WorkerSymmetry == Permutations(Workers)
=============================================================================
