------------------------------ MODULE Invocation -------------------------------
(***************************************************************************)
(* One invocation used by sealers, a reader and cleanups at the same time, *)
(* as separate commands do: nothing keeps a cleanup from starting while a  *)
(* worker's result is being sealed, and the only things they share are the *)
(* files of InvocationFiles and the lock on the seal claim.                *)
(***************************************************************************)
EXTENDS Cleanup, Seal

invocationVars == << filesVars, cleanupVars, sealVars >>

InvocationInit == SealInit /\ InitCleanup

InvocationNext == \/ CleanupNext /\ UNCHANGED sealVars
                  \/ SealNext /\ UNCHANGED cleanupVars

InvocationSpec == InvocationInit /\ [][InvocationNext]_invocationVars

(***************************************************************************)
(* What the two together promise.                                          *)
(***************************************************************************)
\* No result is sealed into a consumed invocation: once a cleanup has reported
\* "cleaned" there is no final receipt, and none can appear, although a sealer
\* that validated the layout before the removal may create its claim and its
\* bundle after it.
NoSealAfterCleanup ==
    cleaned > 0 => \A f \in SealFiles : seal[f] = NoInode \/ ~IsFinal(seal[f])

\* A cleanup never takes the claim from under a sealing: when a sealer is about
\* to rename its final receipt, the claim is still its own.
ClaimHeldToTheEnd ==
    \A s \in Sealers : spc[s] = "rename" => seal["claim"] = ClaimOf(s)
================================================================================
