----------------------------- MODULE MCCharBasic -----------------------------
(* CharBasic for TLC: files and processes are interchangeable. *)
EXTENDS CharBasic, TLC

Symmetry == Permutations(Files) \cup Permutations(Processes)
=============================================================================
