------------------------------ MODULE MCWorkflow -------------------------------
(***************************************************************************)
(* Workflow for TLC: two processes, two invocations, two tasks.            *)
(***************************************************************************)
EXTENDS Workflow, TLC

\* Identities are only ever compared.
MCSymmetry == Permutations(Processes) \cup Permutations(Invocations)
                \cup Permutations(Tasks) \cup Permutations(Models)
================================================================================
