------------------------------ MODULE SealProofs -------------------------------
(***************************************************************************)
(* What the sealing of a result promises, for any number of sealers of any *)
(* evidence and any number of faults and crashes; most of it as long as no *)
(* two sealers with the same evidence run at the same time.                *)
(***************************************************************************)
EXTENDS Seal, FiniteSetTheorems, TLAPS

\* One worker seals its result with one call at a time: the code leaves that to
\* its callers, and sealers of the same result that overlap can break what is
\* proved here.
Exclusive == ~Twins \/ \A s, t \in Sealers : Evidence[s] = Evidence[t] => s = t

(***************************************************************************)
(* The claim.  The part of the invariant that does not depend on the       *)
(* layout or on the bundle.                                                *)
(***************************************************************************)
Recovery == {"drop_bundle", "drop_final", "drop_claim"}

\* Before the sealer has a claim of its own.
Early == {"start", "open", "lock", "create"} \cup Recovery

\* While it has one.
Owning == {"write", "flock", "unlink_claim", "bundle", "write_bundle", "check", "stat",
           "make_final", "rename", "undo_bundle", "undo_final", "undo_claim"}

\* Where a sealer that has the claim knows that there is no second receipt.
Clear == {"drop_claim", "write", "flock", "unlink_claim", "bundle", "write_bundle",
          "check", "stat", "make_final", "undo_claim"}

\* s is alone with the claim that it recovers, or made.
Owner(s) == spc[s] \in Recovery \cup Owning

NoTwinsRun == \A s, t \in Sealers :
    Running(s) /\ Running(t) /\ Evidence[s] = Evidence[t] => s = t

Claims == \A s \in Sealers :
    /\ spc[s] \in Early => ClaimOf(s) \notin written /\ seal["claim"] # ClaimOf(s)
    /\ spc[s] \in Recovery \cup {"lock"} =>
           found[s] \in written /\ \E u \in Sealers : found[s] = ClaimOf(u)
    /\ spc[s] \in Recovery =>
           seal["claim"] = found[s] /\ EvidenceOf(found[s]) = Evidence[s]
    /\ spc[s] \in Owning => seal["claim"] = ClaimOf(s)
    /\ spc[s] \in Owning \ {"write", "unlink_claim"} => ClaimOf(s) \in written

Finals ==
    /\ \A s \in Sealers : /\ spc[s] \in Clear => seal["final"] = NoInode
                          /\ spc[s] = "rename" => seal["final"] = FinalOf(s)
    /\ seal["final"] # NoInode =>
           \E u \in Sealers : /\ seal["final"] = FinalOf(u) /\ FinalOf(u) \in written
                              /\ seal["claim"] = ClaimOf(u)
    /\ seal["claim"] \in (Sealers \X SealFiles) \cup {NoInode}
    /\ \A u \in Sealers : seal["claim"] = FinalOf(u) => FinalOf(u) \in written

Ownership == NoTwinsRun /\ Claims /\ Finals

(***************************************************************************)
(* The bundle, while the layout is valid.                                  *)
(***************************************************************************)
\* Where a sealer with the claim knows that there is no bundle, and where the
\* bundle is its own.
Bare == {"drop_final", "drop_claim", "write", "flock", "unlink_claim", "bundle",
         "undo_final", "undo_claim"}
Bundling == {"write_bundle", "check", "stat", "make_final", "rename"}

Bundled ==
    /\ "bundle" \in entries =>
           /\ bundleOf \in Sealers
           /\ seal["claim"] = ClaimOf(bundleOf) \/ seal["claim"] = FinalOf(bundleOf)
    /\ \A s \in Sealers : /\ spc[s] \in Bare => "bundle" \notin entries
                          /\ spc[s] \in Bundling => HasOwnBundle(s)
                          /\ spc[s] \in Bundling \ {"write_bundle"} => s \in bundleFull

Sealed ==
    /\ \A s \in Sealers : seal["claim"] = FinalOf(s) => s \in placed
    /\ \A s \in placed : /\ seal["claim"] = FinalOf(s)
                         /\ HasOwnBundle(s) /\ s \in bundleFull
    /\ \A e \in accepted : \E s \in placed : e = Evidence[s]

(***************************************************************************)
(* How a call ends when nothing fails.                                     *)
(***************************************************************************)
LocksHeld == \A i \in held : \E s \in Sealers : i \in LocksOf(s)

\* A sealer of other evidence has begun; the claim is one that a sealer left
\* before it was written.
Rival(s) == \E t \in Sealers : Evidence[t] # Evidence[s] /\ spc[t] # "start"
Orphan == \E u \in Sealers : /\ seal["claim"] = ClaimOf(u) /\ ClaimOf(u) \notin written
                             /\ spc[u] = "done"
RivalClaim(s) == \E t \in Sealers : ClaimOf(t) \in written /\ Evidence[t] # Evidence[s]

Faultless == \A s \in Sealers :
    /\ spc[s] \notin {"unlink_claim", "undo_bundle", "undo_final", "undo_claim"}
    /\ Running(s) \/ spc[s] = "start" => outcome[s] = "none"
    /\ spc[s] = "lock" => seal["claim"] = found[s] \/ Rival(s)
    /\ spc[s] = "create" => seal["claim"] = NoInode \/ Rival(s)
    /\ outcome[s] = "already_sealed" => placed # {} \/ RivalClaim(s)
    /\ outcome[s] = "error" => Rival(s) \/ Orphan

SealInvariant ==
    /\ SealTypeOK /\ LayoutValid
    /\ Ownership /\ Bundled /\ Sealed /\ LocksHeld
    /\ sealFaults = 0 => Faultless

\* What the operators say of a receipt's inode.
LEMMA InodeFacts ==
    /\ \A s \in Sealers : /\ ClaimOf(s) \in Inodes /\ FinalOf(s) \in Inodes
                          /\ ClaimOf(s) # NoInode /\ FinalOf(s) # NoInode
                          /\ ClaimOf(s) \in Sealers \X SealFiles
                          /\ FinalOf(s) \in Sealers \X SealFiles
                          /\ ~IsFinal(ClaimOf(s)) /\ IsFinal(FinalOf(s))
                          /\ EvidenceOf(ClaimOf(s)) = Evidence[s]
                          /\ EvidenceOf(FinalOf(s)) = Evidence[s]
    /\ \A s, t \in Sealers : /\ ClaimOf(s) # FinalOf(t)
                             /\ ClaimOf(s) = ClaimOf(t) => s = t
                             /\ FinalOf(s) = FinalOf(t) => s = t
    /\ \A i \in Sealers \X SealFiles : \E u \in Sealers : i = ClaimOf(u) \/ i = FinalOf(u)
  <1>1. \A s \in Sealers : << s, "claim" >> \in Inodes /\ << s, "final" >> \in Inodes
    BY SealAssumption DEF SealFiles
  <1>2. NoInode \notin Inodes
    BY InvocationFilesAssumption
  <1> QED
    BY <1>1, <1>2 DEF ClaimOf, FinalOf, SealFiles, IsFinal, EvidenceOf

\* A sealer that has the claim has one of its own evidence.
LEMMA OwnersClaim ==
    ASSUME Ownership, NEW s \in Sealers, Owner(s)
    PROVE  \E u \in Sealers : /\ seal["claim"] = ClaimOf(u)
                              /\ Evidence[u] = Evidence[s]
                              /\ spc[s] \in Owning => u = s
  <1>1. CASE spc[s] \in Owning
    <2>1. seal["claim"] = ClaimOf(s)
      BY <1>1 DEF Ownership, Claims
    <2> QED
      BY <2>1
  <1>2. CASE spc[s] \in Recovery
    <2>1. seal["claim"] = found[s] /\ EvidenceOf(found[s]) = Evidence[s]
      BY <1>2 DEF Ownership, Claims
    <2>2. PICK u \in Sealers : found[s] = ClaimOf(u)
      BY <1>2 DEF Ownership, Claims
    <2>3. Evidence[u] = Evidence[s] /\ spc[s] \notin Owning
      BY <1>2, <2>1, <2>2, InodeFacts DEF Recovery, Owning
    <2> QED
      BY <2>1, <2>2, <2>3
  <1> QED
    BY <1>1, <1>2 DEF Owner

\* At most one sealer has the claim.
LEMMA OneOwner ==
    ASSUME Ownership, NEW s \in Sealers, NEW t \in Sealers, Owner(s), Owner(t)
    PROVE  s = t
  <1>1. Running(s) /\ Running(t)
    BY DEF Owner, Running, Recovery, Owning
  <1>2. PICK u \in Sealers : seal["claim"] = ClaimOf(u) /\ Evidence[u] = Evidence[s]
                             /\ (spc[s] \in Owning => u = s)
    BY OwnersClaim
  <1>3. PICK v \in Sealers : seal["claim"] = ClaimOf(v) /\ Evidence[v] = Evidence[t]
                             /\ (spc[t] \in Owning => v = t)
    BY OwnersClaim
  <1>4. u = v
    BY <1>2, <1>3, InodeFacts
  <1> QED
    BY <1>1, <1>2, <1>3, <1>4 DEF Ownership, NoTwinsRun

(***************************************************************************)
(* What a step of one sealer has to show.                                  *)
(***************************************************************************)
\* The step is one of s, and does not put another claim in place.
StepOf(s) ==
    /\ spc' = [spc EXCEPT ![s] = spc'[s]] /\ spc'[s] \in SealSteps
    /\ \A t \in Sealers \ {s} : found'[t] = found[t]
    /\ written \subseteq written'
    /\ written' \subseteq written \cup {ClaimOf(s), FinalOf(s)}
    /\ seal' = seal \/ Owner(s) \/ seal["claim"] = NoInode
    /\ seal'["claim"] \in {seal["claim"], ClaimOf(s), FinalOf(s), NoInode}

\* What is true of s and of the receipts after it.
OwnFacts(s) ==
    /\ spc[s] \in Early => ClaimOf(s) \notin written /\ seal["claim"] # ClaimOf(s)
    /\ spc[s] \in Recovery \cup {"lock"} =>
           found[s] \in written /\ \E u \in Sealers : found[s] = ClaimOf(u)
    /\ spc[s] \in Recovery =>
           seal["claim"] = found[s] /\ EvidenceOf(found[s]) = Evidence[s]
    /\ spc[s] \in Owning => seal["claim"] = ClaimOf(s)
    /\ spc[s] \in Owning \ {"write", "unlink_claim"} => ClaimOf(s) \in written
    /\ spc[s] \in Clear => seal["final"] = NoInode
    /\ spc[s] = "rename" => seal["final"] = FinalOf(s)
    /\ seal["final"] # NoInode =>
           \E u \in Sealers : /\ seal["final"] = FinalOf(u) /\ FinalOf(u) \in written
                              /\ seal["claim"] = ClaimOf(u)
    /\ \A u \in Sealers : seal["claim"] = FinalOf(u) => FinalOf(u) \in written

LEMMA StepOwnership ==
    ASSUME SealTypeOK, Ownership, NEW s \in Sealers, StepOf(s), OwnFacts(s)',
           Running(s)' => Running(s) \/
               \A t \in Sealers : Evidence[t] = Evidence[s] /\ Running(t) => t = s
    PROVE  Ownership'
  <1>1. \A t \in Sealers \ {s} : spc'[t] = spc[t]
    BY DEF StepOf, SealTypeOK
  <1>2. NoTwinsRun'
    BY <1>1 DEF Ownership, NoTwinsRun, Running
  <1>3. ASSUME NEW t \in Sealers \ {s}
        PROVE  /\ spc[t] \in Early =>
                      ClaimOf(t) \notin written' /\ seal'["claim"] # ClaimOf(t)
               /\ spc[t] \in Recovery \cup {"lock"} =>
                      found[t] \in written' /\ \E u \in Sealers : found[t] = ClaimOf(u)
               /\ spc[t] \in Recovery =>
                      seal'["claim"] = found[t] /\ EvidenceOf(found[t]) = Evidence[t]
               /\ spc[t] \in Owning => seal'["claim"] = ClaimOf(t)
               /\ spc[t] \in Owning \ {"write", "unlink_claim"} => ClaimOf(t) \in written'
               /\ spc[t] \in Clear => seal'["final"] = NoInode
               /\ spc[t] = "rename" => seal'["final"] = FinalOf(t)
    <2>1. Owner(t) => seal' = seal
      <3>1. Owner(t) => seal["claim"] # NoInode
        BY InodeFacts DEF Owner, Ownership, Claims
      <3> QED
        BY <3>1, OneOwner DEF StepOf
    <2>2. spc[t] \in Clear \cup {"rename"} => Owner(t)
      BY DEF Clear, Owner, Owning, Recovery
    <2>3. /\ spc[t] \in Early => ClaimOf(t) \notin written /\ seal["claim"] # ClaimOf(t)
          /\ spc[t] \in Recovery \cup {"lock"} =>
                 found[t] \in written /\ \E u \in Sealers : found[t] = ClaimOf(u)
          /\ spc[t] \in Recovery =>
                 seal["claim"] = found[t] /\ EvidenceOf(found[t]) = Evidence[t]
          /\ spc[t] \in Owning => seal["claim"] = ClaimOf(t)
          /\ spc[t] \in Owning \ {"write", "unlink_claim"} => ClaimOf(t) \in written
          /\ spc[t] \in Clear => seal["final"] = NoInode
          /\ spc[t] = "rename" => seal["final"] = FinalOf(t)
      BY DEF Ownership, Claims, Finals
    <2>4. /\ ClaimOf(t) # ClaimOf(s) /\ ClaimOf(t) # FinalOf(s) /\ ClaimOf(t) # NoInode
      BY InodeFacts
    <2> QED
      BY <2>1, <2>2, <2>3, <2>4 DEF StepOf, Owner
  <1>4. \A t \in Sealers \ {s} : found'[t] = found[t]
    BY DEF StepOf
  <1>5. Claims'
    BY <1>1, <1>3, <1>4 DEF Claims, OwnFacts
  <1>6. Finals'
    <2>1. seal'["claim"] \in (Sealers \X SealFiles) \cup {NoInode}
      BY InodeFacts DEF StepOf, Ownership, Finals
    <2> QED
      BY <1>1, <1>3, <2>1 DEF Finals, OwnFacts
  <1> QED
    BY <1>2, <1>5, <1>6 DEF Ownership
(***************************************************************************)
(* Every step keeps the types, and the claim with its owner.               *)
(***************************************************************************)
LEMMA CallTyped ==
    ASSUME SealTypeOK, NEW s \in Sealers, SealCall(s),
           spc[s] = "lock" => found[s] \in Inodes
    PROVE  SealTypeOK'
  <1>a. /\ ClaimOf(s) \in Inodes /\ FinalOf(s) \in Inodes
        /\ ClaimOf(s) \in Sealers \X SealFiles /\ FinalOf(s) \in Sealers \X SealFiles
    BY InodeFacts
  <1>b. "claim" \in SealFiles /\ "final" \in SealFiles
    BY DEF SealFiles
  <1>c. \A t \in SealSteps : [spc EXCEPT ![s] = t] \in [Sealers -> SealSteps]
    BY DEF SealTypeOK
  <1>d. \A r \in Outcomes : [outcome EXCEPT ![s] = r] \in [Sealers -> Outcomes]
    BY DEF SealTypeOK
  <1>e. outcome[s] \in Outcomes
    BY DEF SealTypeOK
  <1>f. \A f \in SealFiles, i \in Inodes \cup {NoInode} :
            [seal EXCEPT ![f] = i] \in [SealFiles -> Inodes \cup {NoInode}]
    BY DEF SealTypeOK, FilesTypeOK
  <1>g. seal["claim"] \in Inodes \cup {NoInode} /\ seal["final"] \in Inodes \cup {NoInode}
    BY <1>b DEF SealTypeOK, FilesTypeOK
  <1> USE <1>a, <1>b, <1>c, <1>d, <1>f, <1>g
          DEF SealTypeOK, FilesTypeOK, filesVars, otherVars, SealSteps, Outcomes,
              GoSeal, Continue, Refuse, End, Closes
  <1>1. CASE Start(s)
    BY <1>1 DEF Start, SealTest
  <1>2. CASE OpenReceipt(s)
    BY <1>2 DEF OpenReceipt
  <1>3. CASE LockFound(s)
    BY <1>3 DEF LockFound
  <1>4. CASE RecoverBundle(s)
    BY <1>4 DEF RecoverBundle
  <1>5. CASE RecoverFinal(s)
    BY <1>5 DEF RecoverFinal
  <1>6. CASE RecoverClaim(s)
    BY <1>6 DEF RecoverClaim
  <1>7. CASE CreateClaim(s)
    BY <1>7 DEF CreateClaim
  <1>8. CASE WriteClaim(s)
    BY <1>8 DEF WriteClaim
  <1>9. CASE LockClaim(s)
    BY <1>9 DEF LockClaim
  <1>10. CASE UnlinkClaim(s)
    BY <1>10 DEF UnlinkClaim
  <1>11. CASE CreateBundle(s)
    BY <1>11 DEF CreateBundle, Recorded
  <1>12. CASE WriteBundle(s)
    BY <1>12 DEF WriteBundle
  <1>13. CASE CheckBundle(s)
    BY <1>13 DEF CheckBundle
  <1>14. CASE StatClaim(s)
    BY <1>14 DEF StatClaim
  <1>15. CASE MakeFinal(s)
    BY <1>15 DEF MakeFinal
  <1>16. CASE RenameFinal(s)
    BY <1>16 DEF RenameFinal
  <1>17. CASE UndoBundle(s)
    BY <1>17 DEF UndoBundle
  <1>18. CASE UndoFinal(s)
    BY <1>18 DEF UndoFinal
  <1>19. CASE UndoClaim(s)
    BY <1>19, <1>e DEF UndoClaim
  <1> HIDE DEF SealTypeOK, FilesTypeOK, filesVars, otherVars, SealSteps, Outcomes,
          GoSeal, Continue, Refuse, End, Closes
  <1> QED
    BY <1>1, <1>2, <1>3, <1>4, <1>5, <1>6, <1>7, <1>8, <1>9, <1>10, <1>11, <1>12, <1>13,
       <1>14, <1>15, <1>16, <1>17, <1>18, <1>19 DEF SealCall

\* A step of the call keeps the claim with its owner, whatever becomes of the
\* layout.
LEMMA CallOwned ==
    ASSUME SealTypeOK, Ownership, NEW s \in Sealers, SealCall(s)
    PROVE  StepOf(s) /\ OwnFacts(s)'
  <1>a. /\ ClaimOf(s) \in Inodes /\ FinalOf(s) \in Inodes
        /\ ClaimOf(s) # NoInode /\ FinalOf(s) # NoInode
        /\ \A u \in Sealers : /\ ClaimOf(s) # FinalOf(u) /\ FinalOf(s) # ClaimOf(u)
                              /\ NoInode # FinalOf(u) /\ NoInode # ClaimOf(u)
                              /\ FinalOf(s) = FinalOf(u) => s = u
                              /\ ClaimOf(s) = ClaimOf(u) => s = u
    BY InodeFacts
  <1>b. \A step \in SealSteps : [spc EXCEPT ![s] = step][s] = step
    BY DEF SealTypeOK
  <1>c. \A f \in SealFiles, i \in Inodes \cup {NoInode} :
            /\ [seal EXCEPT ![f] = i][f] = i
            /\ \A g \in SealFiles \ {f} : [seal EXCEPT ![f] = i][g] = seal[g]
    BY DEF SealTypeOK, FilesTypeOK
  <1>d. "claim" \in SealFiles /\ "final" \in SealFiles /\ "claim" # "final"
    BY DEF SealFiles
  <1>e. spc \in [Sealers -> SealSteps] /\ found \in [Sealers -> Inodes \cup {NoInode}]
        /\ seal \in [SealFiles -> Inodes \cup {NoInode}]
    BY DEF SealTypeOK, FilesTypeOK
  <1>f. OwnFacts(s)
    BY DEF Ownership, Claims, Finals, OwnFacts
  <1>g. seal["claim"] \in (Sealers \X SealFiles) \cup {NoInode}
    BY DEF Ownership, Finals
  <1>h. NoInode \notin written
    BY SealAssumption, InvocationFilesAssumption DEF SealTypeOK
  <1> USE <1>h, <1>a, <1>b, <1>c, <1>d, <1>e, <1>f
          DEF StepOf, OwnFacts, Owner, Early, Recovery, Owning, Clear, SealSteps, filesVars,
              otherVars, GoSeal, Continue, Refuse, End
  <1>1. CASE Start(s)
    BY <1>1 DEF Start, SealTest
  <1>2. CASE OpenReceipt(s)
    <2>1. seal["claim"] # NoInode /\ ~IsFinal(seal["claim"]) =>
              \E u \in Sealers : seal["claim"] = ClaimOf(u)
      BY <1>g, InodeFacts
    <2>2. CASE seal["claim"] = NoInode
      BY <1>2, <2>2 DEF OpenReceipt
    <2>3. CASE seal["claim"] # NoInode /\ seal["claim"] \notin written
      BY <1>2, <2>3 DEF OpenReceipt
    <2>4. CASE seal["claim"] \in written /\ IsFinal(seal["claim"])
      BY <1>2, <2>4, InodeFacts DEF OpenReceipt
    <2>5. CASE seal["claim"] # NoInode /\ seal["claim"] \in written /\ ~IsFinal(seal["claim"])
      <3>1. PICK u \in Sealers : seal["claim"] = ClaimOf(u)
        BY <2>1, <2>5
      <3>2. /\ found' = [found EXCEPT ![s] = seal["claim"]]
            /\ spc' = [spc EXCEPT ![s] = "lock"] /\ spc[s] = "open"
            /\ UNCHANGED << seal, written >>
        BY <1>2, <2>5 DEF OpenReceipt
      <3>3. StepOf(s)
        BY <3>2
      <3>4. found'[s] \in written' /\ found'[s] = ClaimOf(u) /\ spc'[s] = "lock"
        BY <3>1, <3>2, <2>5
      <3> QED
        BY <3>2, <3>3, <3>4
    <2> QED
      BY <1>2, <2>2, <2>3, <2>4, <2>5 DEF OpenReceipt
  <1>3. CASE LockFound(s)
    BY <1>3 DEF LockFound
  <1>4. CASE RecoverBundle(s)
    BY <1>4 DEF RecoverBundle
  <1>5. CASE RecoverFinal(s)
    BY <1>5 DEF RecoverFinal
  <1>6. CASE RecoverClaim(s)
    BY <1>6 DEF RecoverClaim
  <1>7. CASE CreateClaim(s)
    BY <1>7 DEF CreateClaim
  <1>8. CASE WriteClaim(s)
    BY <1>8 DEF WriteClaim
  <1>9. CASE LockClaim(s)
    BY <1>9 DEF LockClaim
  <1>10. CASE UnlinkClaim(s)
    BY <1>10 DEF UnlinkClaim
  <1>11. CASE CreateBundle(s)
    BY <1>11 DEF CreateBundle
  <1>12. CASE WriteBundle(s)
    BY <1>12 DEF WriteBundle
  <1>13. CASE CheckBundle(s)
    BY <1>13 DEF CheckBundle
  <1>14. CASE StatClaim(s)
    BY <1>14 DEF StatClaim
  <1>15. CASE MakeFinal(s)
    BY <1>15 DEF MakeFinal
  <1>16. CASE RenameFinal(s)
    BY <1>16 DEF RenameFinal
  <1>17. CASE UndoBundle(s)
    BY <1>17 DEF UndoBundle
  <1>18. CASE UndoFinal(s)
    BY <1>18 DEF UndoFinal
  <1>19. CASE UndoClaim(s)
    BY <1>19 DEF UndoClaim
  <1> HIDE DEF StepOf, OwnFacts, Owner, Early, Recovery, Owning, Clear, SealSteps,
               filesVars, otherVars, GoSeal, Continue, Refuse, End
  <1> QED
    BY <1>1, <1>2, <1>3, <1>4, <1>5, <1>6, <1>7, <1>8, <1>9, <1>10, <1>11, <1>12,
       <1>13, <1>14, <1>15, <1>16, <1>17, <1>18, <1>19 DEF SealCall

\* A crash and a fault change no file, and leave the call nothing but to roll back.
LEMMA Failing ==
    ASSUME SealTypeOK, NEW s \in Sealers, SealCrash(s) \/ SealFault(s)
    PROVE  /\ spc' = [spc EXCEPT ![s] = spc'[s]]
           /\ \/ spc'[s] = "done"
              \/ spc'[s] = "undo_bundle" /\ Claimed(s)
              \/ spc'[s] = "unlink_claim" /\ spc[s] \in {"write", "flock"}
           /\ UNCHANGED << root, entries, registered, seal, written, bundleOf, bundleFull,
                           found, placed, readPc, readEvidence, accepted >>
           /\ held' \subseteq held /\ outcome' \in [Sealers -> Outcomes]
           /\ sealCrashes' \in Nat /\ sealFaults' \in Nat
  <1>1. /\ spc \in [Sealers -> SealSteps] /\ outcome \in [Sealers -> Outcomes]
        /\ sealCrashes \in Nat /\ sealFaults \in Nat
    BY DEF SealTypeOK
  <1>2. CASE SealCrash(s)
    BY <1>1, <1>2 DEF SealCrash, End, GoSeal, Closes, SealSteps, Outcomes
  <1>3. CASE SealFault(s)
    BY <1>1, <1>3 DEF SealFault, End, GoSeal, Closes, SealSteps, Outcomes
  <1> QED
    BY <1>2, <1>3

LEMMA FailureTyped ==
    ASSUME SealTypeOK, NEW s \in Sealers, SealCrash(s) \/ SealFault(s)
    PROVE  SealTypeOK'
  <1>1. spc \in [Sealers -> SealSteps] /\ spc'[s] \in SealSteps
    BY Failing DEF SealTypeOK, SealSteps
  <1> QED
    BY <1>1, Failing DEF SealTypeOK, FilesTypeOK

LEMMA FailureOwned ==
    ASSUME SealTypeOK, Ownership, NEW s \in Sealers, SealCrash(s) \/ SealFault(s)
    PROVE  StepOf(s) /\ OwnFacts(s)'
  <1>1. OwnFacts(s)
    BY DEF Ownership, Claims, Finals, OwnFacts
  <1>2. spc'[s] \in SealSteps
    BY Failing DEF SealSteps
  <1>3. StepOf(s)
    BY <1>2, Failing DEF StepOf
  <1>4. OwnFacts(s)'
    BY <1>1, Failing DEF OwnFacts, Claimed, Early, Recovery, Owning, Clear
  <1> QED
    BY <1>3, <1>4

\* Only the start makes a call run, and it waits for a twin.
LEMMA RunsAlone ==
    ASSUME SealTypeOK, Exclusive, NEW s \in Sealers,
           SealCall(s) \/ SealCrash(s) \/ SealFault(s), Running(s)', ~Running(s)
    PROVE  \A t \in Sealers : Evidence[t] = Evidence[s] /\ Running(t) => t = s
  <1>1. spc[s] \in {"start", "done"}
    BY DEF Running
  <1>2. CASE SealCall(s)
    <2>1. Start(s)
      BY <1>1, <1>2
         DEF SealCall, Start, OpenReceipt, LockFound, RecoverBundle, RecoverFinal,
             RecoverClaim, CreateClaim, WriteClaim, LockClaim, UnlinkClaim, CreateBundle,
             WriteBundle, CheckBundle, StatClaim, MakeFinal, RenameFinal, UndoBundle,
             UndoFinal, UndoClaim
    <2>2. Twins \/ \A t \in Sealers : Evidence[t] = Evidence[s] => ~Running(t)
      BY <2>1 DEF Start
    <2> QED
      BY <2>2, SealAssumption DEF Exclusive
  <1>3. CASE SealCrash(s) \/ SealFault(s)
    BY <1>1, <1>3 DEF SealCrash, SealFault, Running
  <1> QED
    BY <1>2, <1>3

LEMMA ReadTyped ==
    ASSUME SealTypeOK, ReadBundle \/ ReadReceipt
    PROVE  SealTypeOK'
  <1>1. CASE ReadBundle
    <2>1. Evidence[bundleOf] \in Evidences
      BY <1>1 DEF ReadBundle, SealTypeOK, Evidences
    <2> QED
      BY <1>1, <2>1 DEF ReadBundle, SealTypeOK, FilesTypeOK, filesVars
  <1>2. CASE ReadReceipt
    <2>1. accepted' \subseteq Evidences
      <3>1. ASSUME seal["claim"] \in written, EvidenceOf(seal["claim"]) = readEvidence
            PROVE  readEvidence \in Evidences
        BY <3>1 DEF SealTypeOK, EvidenceOf, Evidences
      <3> QED
        BY <1>2, <3>1 DEF ReadReceipt, SealTypeOK
    <2> QED
      BY <1>2, <2>1 DEF ReadReceipt, SealTypeOK, FilesTypeOK, filesVars
  <1> QED
    BY <1>1, <1>2

\* A step of the sealing keeps the claim with its owner, whatever has become of
\* the layout.
LEMMA SealStepOwned ==
    ASSUME SealTypeOK, Ownership, Exclusive, [SealNext]_sealSpecVars
    PROVE  SealTypeOK' /\ Ownership'
  <1>1. ASSUME NEW s \in Sealers, SealCall(s) \/ SealCrash(s) \/ SealFault(s)
        PROVE  SealTypeOK' /\ Ownership'
    <2>a. spc[s] = "lock" => found[s] \in Inodes
      BY InodeFacts DEF Ownership, Claims
    <2>1. SealTypeOK' /\ StepOf(s) /\ OwnFacts(s)'
      BY <1>1, <2>a, CallTyped, FailureTyped, CallOwned, FailureOwned
    <2>2. Running(s)' => Running(s) \/
              \A t \in Sealers : Evidence[t] = Evidence[s] /\ Running(t) => t = s
      BY <1>1, RunsAlone
    <2> QED
      BY <2>1, <2>2, StepOwnership
  <1>2. CASE ReadBundle \/ ReadReceipt
    <2>1. UNCHANGED << seal, written, spc, found >>
      BY <1>2 DEF ReadBundle, ReadReceipt, filesVars
    <2>2. Ownership'
      BY <2>1 DEF Ownership, NoTwinsRun, Running, Claims, Finals
    <2> QED
      BY <1>2, <2>2, ReadTyped
  <1>3. CASE UNCHANGED sealSpecVars
    <2>1. Ownership'
      BY <1>3 DEF sealSpecVars, filesVars, sealVars, Ownership, NoTwinsRun, Running, Claims,
                  Finals
    <2> QED
      BY <1>3, <2>1 DEF sealSpecVars, filesVars, sealVars, SealTypeOK, FilesTypeOK
  <1> QED
    BY <1>1, <1>2, <1>3 DEF SealNext

(***************************************************************************)
(* The bundle and the sealed receipt.                                      *)
(***************************************************************************)
\* What is true of the bundle where s stands.
OwnBundle(s) ==
    /\ "bundle" \in entries =>
           /\ bundleOf \in Sealers
           /\ seal["claim"] = ClaimOf(bundleOf) \/ seal["claim"] = FinalOf(bundleOf)
    /\ spc[s] \in Bare => "bundle" \notin entries
    /\ spc[s] \in Bundling => HasOwnBundle(s)
    /\ spc[s] \in Bundling \ {"write_bundle"} => s \in bundleFull

\* Only the owner of the claim touches the bundle, and only its receipt is
\* placed.
BundleStep(s) ==
    /\ root' = root /\ entries \ {"bundle"} \subseteq entries'
    /\ bundleFull \subseteq bundleFull' /\ accepted' = accepted
    /\ \/ Owner(s)
       \/ /\ UNCHANGED << entries, bundleOf, placed >>
          /\ seal' = seal \/ seal["claim"] = NoInode
    /\ \/ placed' = placed /\ seal'["claim"] \in {seal["claim"], ClaimOf(s), NoInode}
       \/ placed' = placed \cup {s} /\ seal'["claim"] = FinalOf(s)
          /\ HasOwnBundle(s)' /\ s \in bundleFull'

LEMMA CallBundled ==
    ASSUME SealTypeOK, Ownership, LayoutValid, Bundled, NEW s \in Sealers, SealCall(s)
    PROVE  BundleStep(s) /\ OwnBundle(s)'
  <1>a. /\ ClaimOf(s) # NoInode /\ FinalOf(s) # NoInode /\ ClaimOf(s) # FinalOf(s)
        /\ \A u \in Sealers : /\ ClaimOf(s) # FinalOf(u) /\ FinalOf(s) # ClaimOf(u)
                              /\ FinalOf(u) # NoInode /\ ClaimOf(u) # NoInode
                              /\ FinalOf(s) = FinalOf(u) => s = u
                              /\ ClaimOf(s) = ClaimOf(u) => s = u
    BY InodeFacts
  <1>b. \A step \in SealSteps : [spc EXCEPT ![s] = step][s] = step
    BY DEF SealTypeOK
  <1>c. seal \in [SealFiles -> Inodes \cup {NoInode}]
    BY DEF SealTypeOK, FilesTypeOK
  <1>d. "claim" \in SealFiles /\ "final" \in SealFiles /\ "claim" # "final"
    BY DEF SealFiles
  <1>e. OwnFacts(s) /\ OwnBundle(s)
    BY DEF Ownership, Claims, Finals, OwnFacts, Bundled, OwnBundle
  <1>f. "bundle" \notin Required
    BY DEF Required
  <1> USE <1>a, <1>b, <1>c, <1>d, <1>e
          DEF BundleStep, OwnBundle, OwnFacts, Owner, Recovery, Owning, Clear, Bare,
              Bundling, SealSteps, filesVars, otherVars, HasOwnBundle, GoSeal, Continue, Refuse, End
  <1>1. CASE Start(s)
    BY <1>1 DEF Start, SealTest
  <1>2. CASE OpenReceipt(s)
    BY <1>2 DEF OpenReceipt
  <1>3. CASE LockFound(s)
    BY <1>3 DEF LockFound
  <1>4. CASE RecoverBundle(s)
    BY <1>4 DEF RecoverBundle
  <1>5. CASE RecoverFinal(s)
    BY <1>5 DEF RecoverFinal
  <1>6. CASE RecoverClaim(s)
    BY <1>6 DEF RecoverClaim
  <1>7. CASE CreateClaim(s)
    BY <1>7 DEF CreateClaim
  <1>8. CASE WriteClaim(s)
    BY <1>8 DEF WriteClaim
  <1>9. CASE LockClaim(s)
    BY <1>9 DEF LockClaim
  <1>10. CASE UnlinkClaim(s)
    BY <1>10 DEF UnlinkClaim
  <1>11. CASE CreateBundle(s)
    BY <1>11 DEF CreateBundle
  <1>12. CASE WriteBundle(s)
    BY <1>12 DEF WriteBundle
  <1>13. CASE CheckBundle(s)
    BY <1>13 DEF CheckBundle
  <1>14. CASE StatClaim(s)
    BY <1>14 DEF StatClaim
  <1>15. CASE MakeFinal(s)
    BY <1>15 DEF MakeFinal
  <1>16. CASE RenameFinal(s)
    BY <1>16 DEF RenameFinal
  <1>17. CASE UndoBundle(s)
    BY <1>17 DEF UndoBundle
  <1>18. CASE UndoFinal(s)
    BY <1>18 DEF UndoFinal
  <1>19. CASE UndoClaim(s)
    BY <1>19 DEF UndoClaim
  <1> HIDE DEF BundleStep, OwnBundle, OwnFacts, Owner, Recovery, Owning, Clear, Bare,
               Bundling, SealSteps, filesVars, otherVars, HasOwnBundle, GoSeal, Continue, Refuse, End
  <1> QED
    BY <1>1, <1>2, <1>3, <1>4, <1>5, <1>6, <1>7, <1>8, <1>9, <1>10, <1>11, <1>12,
       <1>13, <1>14, <1>15, <1>16, <1>17, <1>18, <1>19 DEF SealCall

LEMMA FailureBundled ==
    ASSUME SealTypeOK, Ownership, LayoutValid, Bundled, NEW s \in Sealers,
           SealCrash(s) \/ SealFault(s)
    PROVE  BundleStep(s) /\ OwnBundle(s)'
  <1>1. /\ UNCHANGED << root, entries, seal, bundleOf, bundleFull, placed, accepted >>
        /\ \/ spc'[s] \in {"done", "undo_bundle"}
           \/ spc'[s] = "unlink_claim" /\ spc[s] \in {"write", "flock"}
    BY DEF SealCrash, SealFault, End, GoSeal, SealTypeOK
  <1> QED
    BY <1>1 DEF BundleStep, OwnBundle, Bundled, Bare, Bundling, HasOwnBundle

\* One sealer's step keeps what the invariant says of the bundle, the sealed
\* receipt and the layout.
LEMMA StepBundled ==
    ASSUME SealTypeOK, Ownership, LayoutValid, Bundled, Sealed, NEW s \in Sealers,
           StepOf(s), BundleStep(s), OwnBundle(s)'
    PROVE  LayoutValid' /\ Bundled' /\ Sealed'
  <1>1. LayoutValid'
    BY DEF BundleStep, LayoutValid, Required
  <1>2. \A t \in Sealers \ {s} : spc'[t] = spc[t]
    BY DEF StepOf, SealTypeOK
  <1>3. ASSUME NEW t \in Sealers \ {s}
        PROVE  /\ spc[t] \in Bare => "bundle" \notin entries'
               /\ spc[t] \in Bundling => HasOwnBundle(t)'
               /\ spc[t] \in Bundling \ {"write_bundle"} => t \in bundleFull'
    <2>1. spc[t] \in Bare \cup Bundling => Owner(t)
      BY DEF Bare, Bundling, Owner, Recovery, Owning
    <2>2. Owner(t) => UNCHANGED << entries, bundleOf >>
      BY OneOwner DEF BundleStep
    <2>3. bundleFull \subseteq bundleFull'
      BY DEF BundleStep
    <2> QED
      BY <2>1, <2>2, <2>3 DEF Bundled, HasOwnBundle
  <1>4. Bundled'
    BY <1>2, <1>3 DEF Bundled, OwnBundle
  <1>5. CASE placed = {}
    <2>1. accepted' = {}
      BY <1>5 DEF Sealed, BundleStep
    <2>2. CASE placed' = placed /\ seal'["claim"] \in {seal["claim"], ClaimOf(s), NoInode}
      <3>1. \A u \in Sealers : seal'["claim"] # FinalOf(u)
        BY <1>5, <2>2, InodeFacts DEF Sealed
      <3> QED
        BY <1>1, <1>4, <1>5, <2>1, <2>2, <3>1 DEF Sealed
    <2>3. CASE placed' = placed \cup {s} /\ seal'["claim"] = FinalOf(s)
               /\ HasOwnBundle(s)' /\ s \in bundleFull'
      <3>1. placed' = {s}
        BY <1>5, <2>3
      <3>2. \A u \in Sealers : seal'["claim"] = FinalOf(u) => u = s
        BY <2>3, InodeFacts
      <3> QED
        BY <1>1, <1>4, <2>1, <2>3, <3>1, <3>2 DEF Sealed
    <2> QED
      BY <2>2, <2>3 DEF BundleStep
  <1>6. CASE placed # {}
    <2>1. PICK u \in placed : seal["claim"] = FinalOf(u)
      BY <1>6 DEF Sealed
    <2>2. u \in Sealers
      BY DEF SealTypeOK
    <2>3. ~Owner(s)
      BY <2>1, <2>2, OwnersClaim, InodeFacts
    <2>4. seal["claim"] # NoInode
      BY <2>1, <2>2, InodeFacts
    <2>5. /\ UNCHANGED << entries, bundleOf, placed, seal, accepted >>
          /\ bundleFull \subseteq bundleFull'
      BY <2>3, <2>4 DEF BundleStep
    <2> QED
      BY <1>1, <1>4, <2>5 DEF Sealed, HasOwnBundle
  <1> QED
    BY <1>1, <1>4, <1>5, <1>6

(***************************************************************************)
(* The locks, and the calls in which nothing fails.                        *)
(***************************************************************************)
\* Every lock is one that a sealer's step accounts for.
LEMMA StepLocks ==
    ASSUME SealTypeOK, Ownership, LocksHeld, NEW s \in Sealers,
           SealCall(s) \/ SealCrash(s) \/ SealFault(s)
    PROVE  LocksHeld'
  <1>1. StepOf(s)
    BY CallOwned, FailureOwned
  <1>2. \A t \in Sealers \ {s} : spc'[t] = spc[t] /\ found'[t] = found[t]
    BY <1>1 DEF StepOf, SealTypeOK
  <1>3. \A i \in held' : i \in LocksOf(s)' \/ (i \in held /\ i \notin LocksOf(s))
    <2>a. spc \in [Sealers -> SealSteps] /\ found \in [Sealers -> Inodes \cup {NoInode}]
      BY DEF SealTypeOK
    <2> USE <2>a DEF LocksOf, filesVars, otherVars, GoSeal, Continue, Refuse, End, Closes
    <2>1. CASE Start(s)
      BY <2>1 DEF Start, SealTest
    <2>2. CASE OpenReceipt(s)
      BY <2>2 DEF OpenReceipt
    <2>3. CASE LockFound(s)
      BY <2>3 DEF LockFound
    <2>4. CASE RecoverBundle(s)
      BY <2>4 DEF RecoverBundle
    <2>5. CASE RecoverFinal(s)
      BY <2>5 DEF RecoverFinal
    <2>6. CASE RecoverClaim(s)
      BY <2>6 DEF RecoverClaim
    <2>7. CASE CreateClaim(s)
      BY <2>7 DEF CreateClaim
    <2>8. CASE WriteClaim(s)
      BY <2>8 DEF WriteClaim
    <2>9. CASE LockClaim(s)
      BY <2>9 DEF LockClaim
    <2>10. CASE UnlinkClaim(s)
      BY <2>10 DEF UnlinkClaim
    <2>11. CASE CreateBundle(s)
      BY <2>11 DEF CreateBundle
    <2>12. CASE WriteBundle(s)
      BY <2>12 DEF WriteBundle
    <2>13. CASE CheckBundle(s)
      BY <2>13 DEF CheckBundle
    <2>14. CASE StatClaim(s)
      BY <2>14 DEF StatClaim
    <2>15. CASE MakeFinal(s)
      BY <2>15 DEF MakeFinal
    <2>16. CASE RenameFinal(s)
      BY <2>16 DEF RenameFinal
    <2>17. CASE UndoBundle(s)
      BY <2>17 DEF UndoBundle
    <2>18. CASE UndoFinal(s)
      BY <2>18 DEF UndoFinal
    <2>19. CASE UndoClaim(s)
      BY <2>19 DEF UndoClaim
    <2>20. CASE SealCrash(s)
      BY <2>20 DEF SealCrash
    <2>21. CASE SealFault(s)
      BY <2>21 DEF SealFault, Claimed
    <2> HIDE DEF LocksOf, filesVars, otherVars, GoSeal, Continue, Refuse, End, Closes
    <2> QED
      BY <2>1, <2>2, <2>3, <2>4, <2>5, <2>6, <2>7, <2>8, <2>9, <2>10, <2>11, <2>12,
         <2>13, <2>14, <2>15, <2>16, <2>17, <2>18, <2>19, <2>20, <2>21 DEF SealCall
  <1>4. ASSUME NEW i \in held'
        PROVE  \E t \in Sealers : i \in LocksOf(t)'
    <2>1. CASE i \in LocksOf(s)'
      BY <2>1
    <2>2. CASE i \in held /\ i \notin LocksOf(s)
      <3>1. PICK t \in Sealers : i \in LocksOf(t)
        BY <2>2 DEF LocksHeld
      <3>2. t # s
        BY <2>2, <3>1
      <3>3. i \in LocksOf(t)'
        BY <1>2, <3>1, <3>2 DEF LocksOf
      <3> QED
        BY <3>3
    <2> QED
      BY <1>3, <2>1, <2>2
  <1> QED
    BY <1>4 DEF LocksHeld

\* A claim that was left unwritten is never written, replaced or removed.
LEMMA OrphanStays ==
    ASSUME Ownership, NEW s \in Sealers, StepOf(s), spc[s] # "done", SealTypeOK, Orphan
    PROVE  Orphan'
  <1>1. PICK u \in Sealers : /\ seal["claim"] = ClaimOf(u) /\ ClaimOf(u) \notin written
                             /\ spc[u] = "done"
    BY DEF Orphan
  <1>2. u # s
    BY <1>1
  <1>3. ~Owner(s)
    <2>1. spc[s] \notin Recovery
      BY <1>1 DEF Ownership, Claims
    <2>2. spc[s] \notin Owning
      BY <1>1, <1>2, InodeFacts DEF Ownership, Claims
    <2> QED
      BY <2>1, <2>2 DEF Owner
  <1>4. seal' = seal /\ ClaimOf(u) \notin written' /\ spc'[u] = spc[u]
    BY <1>1, <1>2, <1>3, InodeFacts DEF StepOf, SealTypeOK
  <1> QED
    BY <1>1, <1>4 DEF Orphan

\* How one call goes on.
CallFaultless(s) ==
    /\ spc[s] \notin {"unlink_claim", "undo_bundle", "undo_final", "undo_claim"}
    /\ Running(s) \/ spc[s] = "start" => outcome[s] = "none"
    /\ spc[s] = "lock" => seal["claim"] = found[s] \/ Rival(s)
    /\ spc[s] = "create" => seal["claim"] = NoInode \/ Rival(s)
    /\ outcome[s] = "already_sealed" => placed # {} \/ RivalClaim(s)
    /\ outcome[s] = "error" => Rival(s) \/ Orphan

\* What one sees of the claim at the steps that could refuse the call.
LEMMA Refusals ==
    ASSUME SealTypeOK, Ownership, Bundled, Sealed, LocksHeld, Faultless, NEW s \in Sealers
    PROVE  /\ spc[s] = "open" /\ seal["claim"] \notin written /\ seal["claim"] # NoInode =>
                  Rival(s) \/ Orphan
           /\ spc[s] = "open" /\ seal["claim"] \in written /\ IsFinal(seal["claim"]) =>
                  placed # {}
           /\ spc[s] = "lock" /\ found[s] \in held => RivalClaim(s)
           /\ spc[s] = "lock" /\ EvidenceOf(found[s]) # Evidence[s] => RivalClaim(s)
           /\ spc[s] = "flock" => ClaimOf(s) \notin held
  <1>1. ASSUME spc[s] = "open", seal["claim"] \notin written, seal["claim"] # NoInode
        PROVE  Rival(s) \/ Orphan
    <2>1. PICK u \in Sealers : seal["claim"] = ClaimOf(u)
      BY <1>1, InodeFacts DEF Ownership, Finals
    <2>2. spc[u] \notin Early \cup Recovery
      BY <2>1 DEF Ownership, Claims, Early
    <2>3. u # s /\ Running(s)
      BY <1>1, <2>2 DEF Early, Running
    <2>4. CASE spc[u] = "done"
      BY <1>1, <2>1, <2>4 DEF Orphan
    <2>5. CASE spc[u] # "done"
      <3>1. Running(u) /\ spc[u] # "start"
        BY <2>2, <2>5 DEF Running, Early
      <3>2. Evidence[u] # Evidence[s]
        BY <2>3, <3>1 DEF Ownership, NoTwinsRun
      <3> QED
        BY <3>1, <3>2 DEF Rival
    <2> QED
      BY <2>4, <2>5
  <1>2. ASSUME spc[s] = "open", seal["claim"] \in written, IsFinal(seal["claim"])
        PROVE  placed # {}
    <2>1. PICK u \in Sealers : seal["claim"] = ClaimOf(u) \/ seal["claim"] = FinalOf(u)
      BY <1>2, InodeFacts DEF SealTypeOK
    <2>2. seal["claim"] = FinalOf(u)
      BY <1>2, <2>1, InodeFacts
    <2> QED
      BY <2>2 DEF Sealed
  <1>3. ASSUME spc[s] = "lock", found[s] \in held
        PROVE  RivalClaim(s)
    <2>1. PICK u \in Sealers : found[s] = ClaimOf(u) /\ ClaimOf(u) \in written
      BY <1>3 DEF Ownership, Claims
    <2>2. PICK t \in Sealers : ClaimOf(u) \in LocksOf(t)
      BY <1>3, <2>1 DEF LocksHeld
    <2>3. /\ t # s /\ Running(t) /\ Running(s)
          /\ (ClaimOf(u) = found[t] /\ spc[t] \in Recovery) \/ ClaimOf(u) = ClaimOf(t)
      BY <1>3, <2>2 DEF LocksOf, Running, Recovery
    <2>4. Evidence[t] # Evidence[s]
      BY <2>3 DEF Ownership, NoTwinsRun
    <2>5. Evidence[u] = Evidence[t]
      BY <2>3, InodeFacts DEF Ownership, Claims
    <2> QED
      BY <2>1, <2>4, <2>5 DEF RivalClaim
  <1>4. ASSUME spc[s] = "lock", EvidenceOf(found[s]) # Evidence[s]
        PROVE  RivalClaim(s)
    <2>1. PICK u \in Sealers : found[s] = ClaimOf(u) /\ ClaimOf(u) \in written
      BY <1>4 DEF Ownership, Claims
    <2> QED
      BY <1>4, <2>1, InodeFacts DEF RivalClaim
  <1>5. ASSUME spc[s] = "flock", ClaimOf(s) \in held
        PROVE  FALSE
    <2>1. PICK t \in Sealers : ClaimOf(s) \in LocksOf(t)
      BY <1>5 DEF LocksHeld
    <2>2. \/ spc[t] \in Recovery
          \/ ClaimOf(s) = ClaimOf(t) /\ spc[t] # "flock"
      BY <2>1 DEF LocksOf, Recovery
    <2>3. t # s
      BY <1>5, <2>2 DEF Recovery
    <2>4. spc[t] \in Recovery /\ Owner(t) /\ Owner(s)
      BY <1>5, <2>2, <2>3, InodeFacts DEF Owner, Owning
    <2> QED
      BY <2>3, <2>4, OneOwner
  <1> QED
    BY <1>1, <1>2, <1>3, <1>4, <1>5


\* What has begun has begun, and a claim that is written stays written.
LEMMA RivalsStay ==
    ASSUME SealTypeOK, NEW s \in Sealers, StepOf(s), spc'[s] # "start", NEW t \in Sealers
    PROVE  (Rival(t) => Rival(t)') /\ (RivalClaim(t) => RivalClaim(t)')
  <1>1. \A u \in Sealers : spc[u] # "start" => spc'[u] # "start"
    BY DEF StepOf, SealTypeOK
  <1>2. written \subseteq written'
    BY DEF StepOf
  <1> QED
    BY <1>1, <1>2 DEF Rival, RivalClaim

LEMMA CallGoesOn ==
    ASSUME SealTypeOK, LayoutValid, Ownership, Bundled, Sealed, LocksHeld, Faultless,
           NEW s \in Sealers, SealCall(s)
    PROVE  /\ CallFaultless(s)' /\ spc'[s] # "start" /\ placed \subseteq placed'
           /\ outcome' = [outcome EXCEPT ![s] = outcome'[s]]
  <1>a. /\ ClaimOf(s) # NoInode /\ FinalOf(s) # NoInode /\ ClaimOf(s) # FinalOf(s)
        /\ \A u \in Sealers : ClaimOf(u) # NoInode
    BY InodeFacts
  <1>b. \A step \in SealSteps : [spc EXCEPT ![s] = step][s] = step
    BY DEF SealTypeOK
  <1>c. \A r \in Outcomes : [outcome EXCEPT ![s] = r][s] = r
    BY DEF SealTypeOK
  <1>d. /\ seal \in [SealFiles -> Inodes \cup {NoInode}]
        /\ found \in [Sealers -> Inodes \cup {NoInode}]
        /\ outcome \in [Sealers -> Outcomes] /\ spc \in [Sealers -> SealSteps]
    BY DEF SealTypeOK, FilesTypeOK
  <1>e. "claim" \in SealFiles /\ "final" \in SealFiles /\ "claim" # "final"
    BY DEF SealFiles
  <1>f. StepOf(s)
    BY CallOwned
  <1>g. OwnFacts(s) /\ OwnBundle(s) /\ CallFaultless(s)
    BY DEF Ownership, Claims, Finals, OwnFacts, Bundled, OwnBundle, Faultless, CallFaultless
  <1>h. SealCall(s) => spc[s] # "done"
    BY DEF SealCall, Start, OpenReceipt, LockFound, RecoverBundle, RecoverFinal,
           RecoverClaim, CreateClaim, WriteClaim, LockClaim, UnlinkClaim, CreateBundle,
           WriteBundle, CheckBundle, StatClaim, MakeFinal, RenameFinal, UndoBundle,
           UndoFinal, UndoClaim
  <1>i. /\ spc[s] = "open" /\ seal["claim"] \notin written /\ seal["claim"] # NoInode =>
               Rival(s) \/ Orphan
        /\ spc[s] = "open" /\ seal["claim"] \in written /\ IsFinal(seal["claim"]) =>
               placed # {}
        /\ spc[s] = "lock" /\ found[s] \in held => RivalClaim(s)
        /\ spc[s] = "lock" /\ EvidenceOf(found[s]) # Evidence[s] => RivalClaim(s)
        /\ spc[s] = "flock" => ClaimOf(s) \notin held
    BY Refusals
  <1>j. root /\ {"route_state", "evidence"} \subseteq entries
    BY DEF LayoutValid, Required, Recorded, Directories
  <1>k. spc'[s] # "start"
    BY DEF SealCall, Start, OpenReceipt, LockFound, RecoverBundle, RecoverFinal,
           RecoverClaim, CreateClaim, WriteClaim, LockClaim, UnlinkClaim, CreateBundle,
           WriteBundle, CheckBundle, StatClaim, MakeFinal, RenameFinal, UndoBundle,
           UndoFinal, UndoClaim, SealTest, Continue, Refuse, End, GoSeal, SealTypeOK
  <1>l. (Rival(s) => Rival(s)') /\ (RivalClaim(s) => RivalClaim(s)') /\ (Orphan => Orphan')
    BY <1>f, <1>h, <1>k, RivalsStay, OrphanStays
  <1> USE <1>a, <1>b, <1>c, <1>d, <1>e, <1>g, <1>k, <1>l
          DEF CallFaultless, Running, OwnBundle, OwnFacts, Recovery, Owning, Clear, Bare,
              Bundling, SealSteps, Outcomes, filesVars, otherVars, HasOwnBundle, GoSeal,
              Continue, Refuse, End
  <1>1. CASE Start(s)
    BY <1>1 DEF Start, SealTest
  <1>2. CASE OpenReceipt(s)
    BY <1>2, <1>i DEF OpenReceipt
  <1>3. CASE LockFound(s)
    BY <1>3, <1>i DEF LockFound
  <1>4. CASE RecoverBundle(s)
    BY <1>4 DEF RecoverBundle
  <1>5. CASE RecoverFinal(s)
    BY <1>5 DEF RecoverFinal
  <1>6. CASE RecoverClaim(s)
    BY <1>6 DEF RecoverClaim
  <1>7. CASE CreateClaim(s)
    BY <1>7 DEF CreateClaim
  <1>8. CASE WriteClaim(s)
    BY <1>8 DEF WriteClaim
  <1>9. CASE LockClaim(s)
    BY <1>9, <1>i DEF LockClaim
  <1>10. CASE UnlinkClaim(s)
    BY <1>10 DEF UnlinkClaim
  <1>11. CASE CreateBundle(s)
    <2>1. "bundle" \notin entries
      BY <1>11 DEF CreateBundle
    <2>2. /\ spc[s] = "bundle" /\ GoSeal(s, "write_bundle")
          /\ UNCHANGED << seal, held, found, outcome, placed >>
      BY <1>11, <1>j, <2>1 DEF CreateBundle
    <2> QED
      BY <2>2
  <1>12. CASE WriteBundle(s)
    BY <1>12 DEF WriteBundle
  <1>13. CASE CheckBundle(s)
    <2>1. HasOwnBundle(s)
      BY <1>13 DEF CheckBundle
    <2>2. spc[s] = "check" /\ Continue(s, "stat")
      BY <1>13, <1>j, <2>1 DEF CheckBundle
    <2> QED
      BY <2>2
  <1>14. CASE StatClaim(s)
    BY <1>14 DEF StatClaim
  <1>15. CASE MakeFinal(s)
    BY <1>15 DEF MakeFinal
  <1>16. CASE RenameFinal(s)
    BY <1>16 DEF RenameFinal
  <1>17. CASE UndoBundle(s)
    BY <1>17 DEF UndoBundle
  <1>18. CASE UndoFinal(s)
    BY <1>18 DEF UndoFinal
  <1>19. CASE UndoClaim(s)
    BY <1>19 DEF UndoClaim
  <1> HIDE DEF CallFaultless, Running, OwnBundle, OwnFacts, Recovery, Owning, Clear, Bare,
              Bundling, SealSteps, Outcomes, filesVars, otherVars, HasOwnBundle, GoSeal,
              Continue, Refuse, End
  <1> QED
    BY <1>1, <1>2, <1>3, <1>4, <1>5, <1>6, <1>7, <1>8, <1>9, <1>10, <1>11, <1>12,
       <1>13, <1>14, <1>15, <1>16, <1>17, <1>18, <1>19 DEF SealCall

LEMMA StepFaultless ==
    ASSUME SealTypeOK, LayoutValid, Ownership, Bundled, Sealed, LocksHeld, Faultless,
           NEW s \in Sealers, SealCall(s) \/ SealCrash(s)
    PROVE  Faultless'
  <1>1. StepOf(s) /\ spc[s] # "done"
    <2>1. StepOf(s)
      BY CallOwned, FailureOwned
    <2>2. spc[s] # "done"
      BY DEF SealCall, Start, OpenReceipt, LockFound, RecoverBundle, RecoverFinal,
             RecoverClaim, CreateClaim, WriteClaim, LockClaim, UnlinkClaim, CreateBundle,
             WriteBundle, CheckBundle, StatClaim, MakeFinal, RenameFinal, UndoBundle,
             UndoFinal, UndoClaim, SealCrash, Running
    <2> QED
      BY <2>1, <2>2
  <1>2. /\ CallFaultless(s)' /\ spc'[s] # "start" /\ placed \subseteq placed'
        /\ outcome' = [outcome EXCEPT ![s] = outcome'[s]]
    <2>1. CASE SealCall(s)
      BY <2>1, CallGoesOn
    <2>2. CASE SealCrash(s)
      BY <2>2 DEF SealCrash, CallFaultless, Running, End, GoSeal, SealTypeOK
    <2> QED
      BY <2>1, <2>2
  <1>3. Orphan => Orphan'
    BY <1>1, OrphanStays
  <1>4. ASSUME NEW t \in Sealers \ {s}
        PROVE  CallFaultless(t)'
    <2>1. /\ spc'[t] = spc[t] /\ found'[t] = found[t] /\ outcome'[t] = outcome[t]
          /\ placed \subseteq placed'
      BY <1>1, <1>2 DEF StepOf, SealTypeOK
    <2>2. (Rival(t) => Rival(t)') /\ (RivalClaim(t) => RivalClaim(t)')
      BY <1>1, <1>2, RivalsStay
    <2>3. CallFaultless(t)
      BY DEF Faultless, CallFaultless
    <2>4. CASE seal' = seal
      BY <1>3, <2>1, <2>2, <2>3, <2>4 DEF CallFaultless, Running
    <2>5. CASE seal' # seal
      <3>1. Owner(s) \/ seal["claim"] = NoInode
        BY <1>1, <2>5 DEF StepOf
      <3>2. Running(s)
        <4>1. Owner(s) => Running(s)
          BY DEF Owner, Running, Recovery, Owning
        <4>2. spc[s] = "start" => seal' = seal
          BY DEF SealCall, Start, OpenReceipt, LockFound, RecoverBundle, RecoverFinal,
                 RecoverClaim, CreateClaim, WriteClaim, LockClaim, UnlinkClaim, CreateBundle,
                 WriteBundle, CheckBundle, StatClaim, MakeFinal, RenameFinal, UndoBundle,
                 UndoFinal, UndoClaim, SealCrash, Running, SealTest, Continue, Refuse,
                 filesVars
        <4> QED
          BY <1>1, <2>5, <4>2 DEF Running
      <3>3. spc[t] \in {"lock", "create"} => Evidence[s] # Evidence[t]
        BY <3>2 DEF Running, Ownership, NoTwinsRun
      <3>4. spc[t] \in {"lock", "create"} => Rival(t)'
        BY <1>2, <3>3 DEF Rival
      <3>5. outcome[t] = "error" => Rival(t)' \/ Orphan'
        BY <1>3, <2>2, <2>3 DEF CallFaultless
      <3> QED
        BY <2>1, <2>2, <2>3, <3>4, <3>5 DEF CallFaultless, Running
    <2> QED
      BY <2>4, <2>5
  <1>5. \A t \in Sealers : CallFaultless(t)'
    BY <1>2, <1>4
  <1> QED
    BY <1>5 DEF Faultless, CallFaultless

(***************************************************************************)
(* The invariant.                                                          *)
(***************************************************************************)
LEMMA SealBegins ==
    ASSUME SealInit
    PROVE  SealInvariant
  <1> USE DEF SealInit, InitSealFiles, InitSeal
  <1>1. "claim" \in SealFiles /\ "final" \in SealFiles
    BY DEF SealFiles
  <1>2. SealTypeOK
    BY <1>1 DEF SealTypeOK, FilesTypeOK, Required, Recorded, Directories, SealSteps, Outcomes
  <1>3. LayoutValid
    BY DEF LayoutValid
  <1>4. "bundle" \notin entries
    BY InvocationFilesAssumption DEF Required, Recorded, Directories
  <1>5. Ownership
    BY <1>1, InodeFacts
       DEF Ownership, NoTwinsRun, Running, Claims, Finals, Early, Owning, Recovery, Clear
  <1>6. Bundled /\ Sealed
    BY <1>1, <1>4, InodeFacts DEF Bundled, Sealed, Bare, Bundling
  <1>7. LocksHeld /\ Faultless
    BY DEF LocksHeld, Faultless, Running
  <1> QED
    BY <1>2, <1>3, <1>5, <1>6, <1>7 DEF SealInvariant

LEMMA SealGoesOn ==
    ASSUME SealInvariant, Exclusive, [SealNext]_sealSpecVars
    PROVE  SealInvariant'
  <1> USE DEF SealInvariant
  <1>1. SealTypeOK' /\ Ownership'
    BY SealStepOwned
  <1>2. ASSUME NEW s \in Sealers, SealCall(s) \/ SealCrash(s) \/ SealFault(s)
        PROVE  SealInvariant'
    <2>1. StepOf(s) /\ BundleStep(s) /\ OwnBundle(s)'
      BY <1>2, CallOwned, FailureOwned, CallBundled, FailureBundled
    <2>2. LayoutValid' /\ Bundled' /\ Sealed'
      BY <2>1, StepBundled
    <2>3. LocksHeld'
      BY <1>2, StepLocks
    <2>4. ASSUME sealFaults' = 0
          PROVE  Faultless'
      <3>1. SealFault(s) => sealFaults' # 0
        BY DEF SealFault, SealTypeOK
      <3>2. (SealCall(s) \/ SealCrash(s)) => sealFaults' = sealFaults
        BY DEF SealCall, Start, OpenReceipt, LockFound, RecoverBundle, RecoverFinal,
               RecoverClaim, CreateClaim, WriteClaim, LockClaim, UnlinkClaim, CreateBundle,
               WriteBundle, CheckBundle, StatClaim, MakeFinal, RenameFinal, UndoBundle,
               UndoFinal, UndoClaim, SealCrash, SealTest, Continue, Refuse, otherVars
      <3> QED
        BY <1>2, <2>4, <3>1, <3>2, StepFaultless
    <2> QED
      BY <1>1, <2>2, <2>3, <2>4
  <1>3. CASE ReadBundle \/ ReadReceipt
    <2>1. UNCHANGED << filesVars, written, bundleOf, bundleFull, spc, found, outcome, placed,
                       sealFaults >>
      BY <1>3 DEF ReadBundle, ReadReceipt
    <2>2. ASSUME NEW e \in accepted'
          PROVE  \E s \in placed : e = Evidence[s]
      <3>1. CASE e \in accepted
        BY <3>1 DEF Sealed
      <3>2. CASE e \notin accepted
        <4>1. /\ seal["claim"] \in written /\ IsFinal(seal["claim"])
              /\ e = EvidenceOf(seal["claim"])
          BY <1>3, <2>2, <3>2 DEF ReadBundle, ReadReceipt
        <4>2. PICK u \in Sealers : seal["claim"] = ClaimOf(u) \/ seal["claim"] = FinalOf(u)
          BY <4>1, InodeFacts DEF SealTypeOK
        <4>3. seal["claim"] = FinalOf(u)
          BY <4>1, <4>2, InodeFacts
        <4>4. u \in placed /\ e = Evidence[u]
          BY <4>1, <4>3, InodeFacts DEF Sealed
        <4> QED
          BY <4>4
      <3> QED
        BY <3>1, <3>2
    <2>3. Sealed'
      BY <2>1, <2>2 DEF Sealed, filesVars, HasOwnBundle
    <2>4. LayoutValid' /\ Bundled' /\ LocksHeld'
      BY <2>1 DEF LayoutValid, Bundled, LocksHeld, LocksOf, filesVars, HasOwnBundle
    <2>5. sealFaults' = 0 => Faultless'
      BY <2>1 DEF Faultless, Running, Rival, RivalClaim, Orphan, filesVars
    <2> QED
      BY <1>1, <2>3, <2>4, <2>5
  <1>4. CASE UNCHANGED sealSpecVars
    <2>1. LayoutValid' /\ Bundled' /\ LocksHeld' /\ Sealed'
      BY <1>4 DEF LayoutValid, Bundled, LocksHeld, LocksOf, Sealed, HasOwnBundle,
                  sealSpecVars, filesVars, sealVars
    <2>2. sealFaults' = 0 => Faultless'
      BY <1>4 DEF Faultless, Running, Rival, RivalClaim, Orphan, sealSpecVars, filesVars,
                  sealVars
    <2> QED
      BY <1>1, <2>1, <2>2
  <1> QED
    BY <1>2, <1>3, <1>4 DEF SealNext

LEMMA SealInvariance == ASSUME Exclusive PROVE SealSpec => []SealInvariant
  <1>1. SealInvariant /\ [SealNext]_sealSpecVars => SealInvariant'
    BY SealGoesOn
  <1>2. SealInit => SealInvariant
    BY SealBegins
  <1> QED
    BY <1>1, <1>2, PTL DEF SealSpec

(***************************************************************************)
(* What holds of any sealers, of the same result or not.                   *)
(***************************************************************************)
\* A reader only accepts what a final receipt was written for.
LEMMA ReadingSealed ==
    ASSUME SealTypeOK, ReadersOnlySealed, ReadBundle \/ ReadReceipt
    PROVE  ReadersOnlySealed'
  <1>1. written' = written
    BY DEF ReadBundle, ReadReceipt
  <1>2. ASSUME NEW e \in accepted', e \notin accepted
        PROVE  \E u \in Sealers : e = Evidence[u] /\ FinalOf(u) \in written
    <2>1. /\ seal["claim"] \in written /\ IsFinal(seal["claim"])
          /\ e = EvidenceOf(seal["claim"])
      BY <1>2 DEF ReadBundle, ReadReceipt
    <2>2. PICK u \in Sealers : seal["claim"] = ClaimOf(u) \/ seal["claim"] = FinalOf(u)
      BY <2>1, InodeFacts DEF SealTypeOK
    <2> QED
      BY <2>1, <2>2, InodeFacts
  <1> QED
    BY <1>1, <1>2 DEF ReadersOnlySealed

SealTypes ==
    /\ SealTypeOK /\ ReadersOnlySealed
    /\ \A s \in Sealers : spc[s] = "lock" => found[s] \in Inodes

LEMMA SealerFinds ==
    ASSUME SealTypeOK, NEW s \in Sealers, SealCall(s) \/ SealCrash(s) \/ SealFault(s)
    PROVE  /\ \A t \in Sealers \ {s} : spc'[t] = spc[t] /\ found'[t] = found[t]
           /\ spc'[s] = "lock" => found'[s] \in Inodes
           /\ written \subseteq written' /\ accepted' = accepted
  <1>a. /\ spc \in [Sealers -> SealSteps] /\ found \in [Sealers -> Inodes \cup {NoInode}]
        /\ seal \in [SealFiles -> Inodes \cup {NoInode}] /\ "claim" \in SealFiles
        /\ written \subseteq Inodes
    BY SealAssumption DEF SealTypeOK, FilesTypeOK, SealFiles
  <1> USE <1>a DEF otherVars, GoSeal, Continue, Refuse, End, Closes
  <1>1. CASE Start(s)
    BY <1>1 DEF Start, SealTest
  <1>2. CASE OpenReceipt(s)
    BY <1>2 DEF OpenReceipt
  <1>3. CASE LockFound(s)
    BY <1>3 DEF LockFound
  <1>4. CASE RecoverBundle(s)
    BY <1>4 DEF RecoverBundle
  <1>5. CASE RecoverFinal(s)
    BY <1>5 DEF RecoverFinal
  <1>6. CASE RecoverClaim(s)
    BY <1>6 DEF RecoverClaim
  <1>7. CASE CreateClaim(s)
    BY <1>7 DEF CreateClaim
  <1>8. CASE WriteClaim(s)
    BY <1>8 DEF WriteClaim
  <1>9. CASE LockClaim(s)
    BY <1>9 DEF LockClaim
  <1>10. CASE UnlinkClaim(s)
    BY <1>10 DEF UnlinkClaim
  <1>11. CASE CreateBundle(s)
    BY <1>11 DEF CreateBundle
  <1>12. CASE WriteBundle(s)
    BY <1>12 DEF WriteBundle
  <1>13. CASE CheckBundle(s)
    BY <1>13 DEF CheckBundle
  <1>14. CASE StatClaim(s)
    BY <1>14 DEF StatClaim
  <1>15. CASE MakeFinal(s)
    BY <1>15 DEF MakeFinal
  <1>16. CASE RenameFinal(s)
    BY <1>16 DEF RenameFinal
  <1>17. CASE UndoBundle(s)
    BY <1>17 DEF UndoBundle
  <1>18. CASE UndoFinal(s)
    BY <1>18 DEF UndoFinal
  <1>19. CASE UndoClaim(s)
    BY <1>19 DEF UndoClaim
  <1>20. CASE SealCrash(s) \/ SealFault(s)
    BY <1>20, Failing
  <1> QED
    BY <1>1, <1>2, <1>3, <1>4, <1>5, <1>6, <1>7, <1>8, <1>9, <1>10, <1>11, <1>12, <1>13,
       <1>14, <1>15, <1>16, <1>17, <1>18, <1>19, <1>20 DEF SealCall

LEMMA SealTypesGoOn ==
    ASSUME SealTypes, [SealNext]_sealSpecVars
    PROVE  SealTypes'
  <1> USE DEF SealTypes
  <1>1. ASSUME NEW s \in Sealers, SealCall(s) \/ SealCrash(s) \/ SealFault(s)
        PROVE  SealTypes'
    <2>1. SealTypeOK'
      BY <1>1, CallTyped, FailureTyped
    <2> QED
      BY <1>1, <2>1, SealerFinds DEF ReadersOnlySealed
  <1>2. CASE ReadBundle \/ ReadReceipt
    <2>1. UNCHANGED << spc, found >>
      BY <1>2 DEF ReadBundle, ReadReceipt
    <2> QED
      BY <1>2, <2>1, ReadTyped, ReadingSealed
  <1>3. CASE UNCHANGED sealSpecVars
    BY <1>3 DEF sealSpecVars, filesVars, sealVars, SealTypeOK, FilesTypeOK,
                ReadersOnlySealed
  <1> QED
    BY <1>1, <1>2, <1>3 DEF SealNext

LEMMA SealTypesBegin == SealInit => SealTypes
  BY SealBegins DEF SealInvariant, SealTypes, ReadersOnlySealed, SealInit, InitSeal

LEMMA SealTypesInvariance == SealSpec => []SealTypes
  BY SealTypesBegin, SealTypesGoOn, PTL DEF SealSpec

(***************************************************************************)
(* What sealing promises.                                                  *)
(***************************************************************************)
\* Type correctness: no step of seal_delta_bundle, no fault and no reader brings
\* the receipts, the bundle or a call outside of their sets of values, whoever
\* overlaps.
THEOREM SealTyped == SealSpec => []SealTypeOK
  <1>1. SealTypes => SealTypeOK
    BY DEF SealTypes
  <1> QED
    BY <1>1, SealTypesInvariance, PTL

\* What seal_delta_bundle reported as sealed is not undone by the rollback, the
\* recovery or the crash of any other call: the receipt's name stands for the
\* sealer's own receipt, and the bundle's for its own complete bundle.
THEOREM SealStands == ASSUME Exclusive PROVE SealSpec => []SealIsPermanent
  <1>1. SealInvariant => SealIsPermanent
    BY DEF SealInvariant, Sealed, SealIsPermanent
  <1> QED
    BY <1>1, SealInvariance, PTL

\* All sealers that ever renamed a final receipt in place are one.
LEMMA OnePlaced ==
    ASSUME SealInvariant
    PROVE  placed = {} \/ \E u \in Sealers : placed = {u}
  <1>1. ASSUME NEW s \in placed, NEW t \in placed
        PROVE  s = t
    <2>1. s \in Sealers /\ t \in Sealers
      BY DEF SealInvariant, SealTypeOK
    <2>2. seal["claim"] = FinalOf(s) /\ seal["claim"] = FinalOf(t)
      BY DEF SealInvariant, Sealed
    <2> QED
      BY <2>1, <2>2, InodeFacts
  <1> QED
    BY <1>1 DEF SealInvariant, SealTypeOK

\* The O_EXCL claim and the locks let one call at most reach its rename, counting
\* calls that died right after it.
THEOREM SealsOnce == ASSUME Exclusive PROVE SealSpec => []SealedOnce
  <1>1. ASSUME SealInvariant
        PROVE  SealedOnce
    <2>1. placed = {} => Cardinality(placed) <= 1
      BY FS_EmptySet
    <2>2. ASSUME NEW u \in Sealers, placed = {u}
          PROVE  Cardinality(placed) <= 1
      <3>1. Cardinality({u}) = 1
        BY FS_Singleton
      <3> QED
        BY <2>2, <3>1
    <2> QED
      BY <1>1, <2>1, <2>2, OnePlaced DEF SealedOnce
  <1> QED
    BY <1>1, SealInvariance, PTL

\* read_sealed_delta_bundle, which reads the bundle before the receipt that binds
\* it, returns the same evidence to whoever reads and whenever.
THEOREM ReadsAgree == ASSUME Exclusive PROVE SealSpec => []ReadersAgree
  <1>1. ASSUME SealInvariant
        PROVE  ReadersAgree
    <2>1. \A e \in accepted : \E s \in placed : e = Evidence[s]
      BY <1>1 DEF SealInvariant, Sealed
    <2>2. accepted = {} \/ \E e \in accepted : accepted = {e}
      <3>1. CASE placed = {}
        BY <2>1, <3>1
      <3>2. ASSUME NEW u \in Sealers, placed = {u}
            PROVE  accepted = {} \/ \E e \in accepted : accepted = {e}
        <4>1. \A e \in accepted : e = Evidence[u]
          BY <2>1, <3>2
        <4> QED
          BY <4>1
      <3> QED
        BY <1>1, <3>1, <3>2, OnePlaced
    <2>3. accepted = {} => Cardinality(accepted) <= 1
      BY FS_EmptySet
    <2>4. ASSUME NEW e \in accepted, accepted = {e}
          PROVE  Cardinality(accepted) <= 1
      <3>1. Cardinality({e}) = 1
        BY FS_Singleton
      <3> QED
        BY <2>4, <3>1
    <2> QED
      BY <2>2, <2>3, <2>4 DEF ReadersAgree
  <1> QED
    BY <1>1, SealInvariance, PTL

\* A bundle that is being written, rolled back or recovered is never read as the
\* result: a final receipt was written for all evidence that a reader accepted,
\* whoever overlaps.
THEOREM ReadsSealed == SealSpec => []ReadersOnlySealed
  <1>1. SealTypes => ReadersOnlySealed
    BY DEF SealTypes
  <1> QED
    BY <1>1, SealTypesInvariance, PTL

\* A bundle without a claim or a receipt beside it would be taken for nothing's:
\* no step of a sealer, its crashes included, leaves one.
THEOREM BundleHasClaim == ASSUME Exclusive PROVE SealSpec => []BundleIsClaimed
  <1>1. ASSUME SealInvariant
        PROVE  BundleIsClaimed
    BY <1>1, InodeFacts DEF SealInvariant, Bundled, BundleIsClaimed
  <1> QED
    BY <1>1, SealInvariance, PTL

\* Where no system call fails, seal_delta_bundle refuses and fails only for the
\* reasons it states: another result is sealed or about to be, or a claim was
\* left before its contents were written.
THEOREM SealsWhenItCan == ASSUME Exclusive PROVE SealSpec => []RefusalJustified
  <1>1. ASSUME SealInvariant
        PROVE  RefusalJustified
    <2>1. ASSUME sealFaults = 0, NEW s \in Sealers, outcome[s] = "already_sealed"
          PROVE  placed # {} \/ RivalClaim(s)
      BY <1>1, <2>1 DEF SealInvariant, Faultless
    <2>2. ASSUME sealFaults = 0, NEW s \in Sealers, outcome[s] = "error"
          PROVE  seal["claim"] \notin written \cup {NoInode} \/ Rival(s)
      <3>1. Rival(s) \/ Orphan
        BY <1>1, <2>2 DEF SealInvariant, Faultless
      <3>2. Orphan => seal["claim"] \notin written \cup {NoInode}
        BY InodeFacts DEF Orphan
      <3> QED
        BY <3>1, <3>2
    <2> QED
      BY <2>1, <2>2 DEF RefusalJustified, Rival, RivalClaim
  <1> QED
    BY <1>1, SealInvariance, PTL

================================================================================
