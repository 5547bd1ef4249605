-------------------------------- MODULE MCSeal ---------------------------------
(***************************************************************************)
(* Seal for TLC: three calls, the first two of the same evidence.          *)
(***************************************************************************)
EXTENDS Seal, TLC

CONSTANTS s1, s2, s3, e1, e2

MCSealers == {s1, s2, s3}
MCInodes == MCSealers \X SealFiles

\* s1 and s2 seal the same result, s3 another one.
SharedEvidence == (s1 :> e1) @@ (s2 :> e1) @@ (s3 :> e2)
================================================================================
