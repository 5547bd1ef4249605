----------------------------- MODULE MCIntegration -----------------------------
(***************************************************************************)
(* Integration for TLC: two transactions, two allowed paths and a private  *)
(* one, every pair of deltas over them and every fault of the evidence.    *)
(***************************************************************************)
EXTENDS Integration, TLC

\* Transactions may be exchanged, and so may the allowed paths.
MCSymmetry == Permutations(Transactions) \cup Permutations(Allowed)
================================================================================
