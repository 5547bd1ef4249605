----------------------------- MODULE MCInvocation ------------------------------
(***************************************************************************)
(* One process that cleans up and retries, and two sealers of different    *)
(* results.                                                                *)
(***************************************************************************)
EXTENDS Invocation, TLC

CONSTANTS s1, s2, e1, e2

MCSealers == {s1, s2}
MCInodes == MCSealers \X SealFiles
DistinctEvidence == (s1 :> e1) @@ (s2 :> e2)
================================================================================
