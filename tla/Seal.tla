--------------------------------- MODULE Seal ----------------------------------
(***************************************************************************)
(* seal_delta_bundle and read_sealed_delta_bundle: a worker's result is    *)
(* written once, as a bundle under the root and a receipt beside it.  A    *)
(* sealer claims the receipt name with an O_EXCL file, locks that file,    *)
(* writes the bundle, and renames a final receipt over its claim.  The     *)
(* lock of a crashed sealer is gone with its process, and its claim can be *)
(* recovered by a sealer of the same evidence.                             *)
(***************************************************************************)
EXTENDS InvocationFiles

CONSTANTS
    Sealers,         \* calls of seal_delta_bundle, each made once
    Evidence,        \* what each of them seals (the envelope's hash)
    Twins,           \* may two sealers of one result run at the same time?
    MaxSealCrashes,  \* bound: sealers killed in the middle
    MaxSealFaults    \* bound: operating-system errors

\* The inode that s creates for its claim (mode 0600), and for its final
\* receipt (mode 0400).
ClaimOf(s) == << s, "claim" >>
FinalOf(s) == << s, "final" >>
IsFinal(i) == i[2] = "final"
EvidenceOf(i) == Evidence[i[1]]

ASSUME SealAssumption ==
    /\ Sealers \X SealFiles \subseteq Inodes
    /\ Nobody \notin Sealers
    /\ DOMAIN Evidence = Sealers
    /\ Twins \in BOOLEAN
    /\ MaxSealCrashes \in Nat /\ MaxSealFaults \in Nat

VARIABLES
    written,     \* receipt inodes whose contents are complete
    bundleOf,    \* whose inode the bundle's name stands for
    bundleFull,  \* the sealers whose bundle is complete (mode 0400)
    spc, found,  \* locals of each sealer: its step, the claim it opened
    outcome,     \* what its call returned
    placed,      \* history: the sealers that renamed a final receipt in place
    readPc, readEvidence,   \* a reader and the bundle it has just read
    accepted,    \* history: the evidence that readers accepted
    sealCrashes, sealFaults

sealVars == << written, bundleOf, bundleFull, spc, found, outcome, placed,
               readPc, readEvidence, accepted, sealCrashes, sealFaults >>

SealSteps == {"start", "open", "lock", "drop_bundle", "drop_final", "drop_claim",
              "create", "write", "flock", "unlink_claim", "bundle", "write_bundle",
              "check", "stat", "make_final", "rename", "undo_bundle", "undo_final",
              "undo_claim", "done"}
Outcomes == {"none", "sealed", "already_sealed", "error", "crashed"}
Evidences == { Evidence[s] : s \in Sealers }

SealTypeOK ==
    /\ FilesTypeOK
    /\ written \subseteq Sealers \X SealFiles
    /\ bundleOf \in Sealers \cup {Nobody}
    /\ bundleFull \subseteq Sealers
    /\ spc \in [Sealers -> SealSteps]
    /\ found \in [Sealers -> Inodes \cup {NoInode}]
    /\ outcome \in [Sealers -> Outcomes]
    /\ placed \subseteq Sealers
    /\ readPc \in {"idle", "receipt"}
    /\ readEvidence \in Evidences \cup {Nobody}
    /\ accepted \subseteq Evidences
    /\ sealCrashes \in Nat /\ sealFaults \in Nat

InitSeal ==
    /\ written = {} /\ bundleOf = Nobody /\ bundleFull = {}
    /\ spc = [s \in Sealers |-> "start"]
    /\ found = [s \in Sealers |-> NoInode]
    /\ outcome = [s \in Sealers |-> "none"]
    /\ placed = {} /\ accepted = {}
    /\ readPc = "idle" /\ readEvidence = Nobody
    /\ sealCrashes = 0 /\ sealFaults = 0

\* An invocation whose worker has just finished.
InitSealFiles ==
    /\ root = TRUE
    /\ entries = Required \cup {"worktree"}
    /\ registered = TRUE
    /\ seal = [f \in SealFiles |-> NoInode]
    /\ held = {}

(***************************************************************************)
(* Control flow.                                                           *)
(***************************************************************************)
otherVars == << readPc, readEvidence, accepted, sealCrashes, sealFaults >>

Running(s) == spc[s] \notin {"start", "done"}
GoSeal(s, step) == spc' = [spc EXCEPT ![s] = step]

\* A sealer holds the lock of the claim it recovers, then that of its own.
LocksOf(s) ==
    { i \in {found[s]} : spc[s] \in {"drop_bundle", "drop_final", "drop_claim"} }
    \cup { i \in {ClaimOf(s)} : spc[s] \in {"bundle", "write_bundle", "check", "stat",
                                            "make_final", "rename", "undo_bundle",
                                            "undo_final", "undo_claim"} }

\* The call ends with res and closes the descriptors that carry its locks.
Closes(s) == held' = held \ LocksOf(s)
End(s, res) ==
    /\ GoSeal(s, "done")
    /\ outcome' = [outcome EXCEPT ![s] = res]
    /\ Closes(s)

\* The call ends without having changed a file.
Refuse(s, res) ==
    /\ End(s, res)
    /\ UNCHANGED << root, entries, registered, seal, written, bundleOf, bundleFull,
                    found, placed, otherVars >>

\* A step that only moves on.
Continue(s, step) ==
    /\ GoSeal(s, step)
    /\ UNCHANGED << filesVars, written, bundleOf, bundleFull, found, outcome, placed,
                    otherVars >>

SealTest(s, ok, step) == \/ ok /\ Continue(s, step)
                         \/ ~ok /\ Refuse(s, "error")

(***************************************************************************)
(* The call, in the order of the code.                                     *)
(***************************************************************************)
Start(s) ==
    /\ spc[s] = "start"
    /\ Twins \/ \A t \in Sealers : Evidence[t] = Evidence[s] => ~Running(t)
    /\ SealTest(s, LayoutValid, "open")

\* Mutant: a sealed receipt is taken for a claim that can be recovered.
ReopeningOpenReceipt(s) ==
    /\ spc[s] = "open"
    /\ LET i == seal["claim"]
       IN \/ i = NoInode /\ Continue(s, "create")
          \/ i # NoInode /\ i \notin written /\ Refuse(s, "error")
          \/ /\ i \in written
             /\ found' = [found EXCEPT ![s] = i]
             /\ GoSeal(s, "lock")
             /\ UNCHANGED << filesVars, written, bundleOf, bundleFull, outcome, placed,
                             otherVars >>

\* A sealed receipt ends the call; a claim that is not fully written cannot be
\* parsed; a complete claim is tried for its lock.
OpenReceipt(s) ==
    /\ spc[s] = "open"
    /\ LET i == seal["claim"]
       IN \/ i = NoInode /\ Continue(s, "create")
          \/ i # NoInode /\ i \notin written /\ Refuse(s, "error")
          \/ i \in written /\ IsFinal(i) /\ Refuse(s, "already_sealed")
          \/ /\ i \in written /\ ~IsFinal(i)
             /\ found' = [found EXCEPT ![s] = i]
             /\ GoSeal(s, "lock")
             /\ UNCHANGED << filesVars, written, bundleOf, bundleFull, outcome, placed,
                             otherVars >>

\* flock without waiting, then: is it still the claim, and of this evidence?
LockFound(s) ==
    /\ spc[s] = "lock"
    /\ \/ found[s] \in held
          /\ GoSeal(s, "done")
          /\ outcome' = [outcome EXCEPT ![s] = "already_sealed"]
          /\ UNCHANGED << filesVars, written, bundleOf, bundleFull, found, placed,
                          otherVars >>
       \/ found[s] \notin held /\ seal["claim"] # found[s] /\ Refuse(s, "error")
       \/ /\ found[s] \notin held /\ seal["claim"] = found[s]
          /\ EvidenceOf(found[s]) # Evidence[s]
          /\ Refuse(s, "already_sealed")
       \/ /\ found[s] \notin held /\ seal["claim"] = found[s]
          /\ EvidenceOf(found[s]) = Evidence[s]
          /\ held' = held \cup {found[s]}
          /\ GoSeal(s, "drop_bundle")
          /\ UNCHANGED << root, entries, registered, seal, written, bundleOf,
                          bundleFull, found, outcome, placed, otherVars >>

\* Mutant: recovery forgets the partial bundle.
LeavingRecoverBundle(s) ==
    /\ spc[s] = "drop_bundle"
    /\ Continue(s, "drop_final")

\* Recovery removes what an abandoned sealing left, by name.
RecoverBundle(s) ==
    /\ spc[s] = "drop_bundle"
    /\ entries' = entries \ {"bundle"}
    /\ GoSeal(s, "drop_final")
    /\ UNCHANGED << root, registered, seal, held, written, bundleOf, bundleFull,
                    found, outcome, placed, otherVars >>

RecoverFinal(s) ==
    /\ spc[s] = "drop_final"
    /\ seal' = [seal EXCEPT !["final"] = NoInode]
    /\ GoSeal(s, "drop_claim")
    /\ UNCHANGED << root, entries, registered, held, written, bundleOf, bundleFull,
                    found, outcome, placed, otherVars >>

RecoverClaim(s) ==
    /\ spc[s] = "drop_claim"
    /\ \/ seal["claim"] = NoInode /\ Refuse(s, "error")
       \/ /\ seal["claim"] # NoInode
          /\ seal' = [seal EXCEPT !["claim"] = NoInode]
          /\ held' = held \ {found[s]}
          /\ GoSeal(s, "create")
          /\ UNCHANGED << root, entries, registered, written, bundleOf, bundleFull,
                          found, outcome, placed, otherVars >>

\* Mutant: the claim is created without O_EXCL, over whatever is there.
ClobberingCreateClaim(s) ==
    /\ spc[s] = "create"
    /\ seal' = [seal EXCEPT !["claim"] = ClaimOf(s)]
    /\ GoSeal(s, "write")
    /\ UNCHANGED << root, entries, registered, held, written, bundleOf, bundleFull,
                    found, outcome, placed, otherVars >>

\* The claim is created with O_EXCL, written, and only then locked.
CreateClaim(s) ==
    /\ spc[s] = "create"
    /\ \/ seal["claim"] # NoInode /\ Refuse(s, "error")
       \/ /\ seal["claim"] = NoInode
          /\ seal' = [seal EXCEPT !["claim"] = ClaimOf(s)]
          /\ GoSeal(s, "write")
          /\ UNCHANGED << root, entries, registered, held, written, bundleOf,
                          bundleFull, found, outcome, placed, otherVars >>

WriteClaim(s) ==
    /\ spc[s] = "write"
    /\ written' = written \cup {ClaimOf(s)}
    /\ GoSeal(s, "flock")
    /\ UNCHANGED << filesVars, bundleOf, bundleFull, found, outcome, placed,
                    otherVars >>

\* Somebody else has locked the new claim first: it is unlinked, after a look
\* at whether the name still stands for it.
LockClaim(s) ==
    /\ spc[s] = "flock"
    /\ \/ /\ ClaimOf(s) \notin held
          /\ held' = held \cup {ClaimOf(s)}
          /\ GoSeal(s, "bundle")
          /\ UNCHANGED << root, entries, registered, seal, written, bundleOf,
                          bundleFull, found, outcome, placed, otherVars >>
       \/ /\ ClaimOf(s) \in held
          /\ seal["claim"] = ClaimOf(s)
          /\ Continue(s, "unlink_claim")
       \/ /\ ClaimOf(s) \in held
          /\ seal["claim"] # ClaimOf(s)
          /\ GoSeal(s, "done")
          /\ outcome' = [outcome EXCEPT ![s] = "error"]
          /\ UNCHANGED << filesVars, written, bundleOf, bundleFull, found, placed,
                          otherVars >>

UnlinkClaim(s) ==
    /\ spc[s] = "unlink_claim"
    /\ seal' = [seal EXCEPT !["claim"] = NoInode]
    /\ GoSeal(s, "done")
    /\ outcome' = [outcome EXCEPT ![s] = "error"]
    /\ UNCHANGED << root, entries, registered, held, written, bundleOf, bundleFull,
                    found, placed, otherVars >>

CreateBundle(s) ==
    /\ spc[s] = "bundle"
    /\ \/ /\ "bundle" \in entries
          /\ GoSeal(s, "undo_bundle")
          /\ outcome' = [outcome EXCEPT ![s] = "already_sealed"]
          /\ UNCHANGED << filesVars, written, bundleOf, bundleFull, found, placed,
                          otherVars >>
       \/ ~root /\ Continue(s, "undo_bundle")
       \/ /\ "bundle" \notin entries /\ root
          /\ entries' = entries \cup {"bundle"}
          /\ bundleOf' = s
          /\ GoSeal(s, "write_bundle")
          /\ UNCHANGED << root, registered, seal, held, written, bundleFull, found,
                          outcome, placed, otherVars >>

WriteBundle(s) ==
    /\ spc[s] = "write_bundle"
    /\ bundleFull' = bundleFull \cup {s}
    /\ GoSeal(s, "check")
    /\ UNCHANGED << filesVars, written, bundleOf, found, outcome, placed, otherVars >>

HasOwnBundle(s) == "bundle" \in entries /\ bundleOf = s

\* Mutant: the layout is not validated again after the bundle was written.
BlindCheckBundle(s) ==
    /\ spc[s] = "check"
    /\ Continue(s, IF HasOwnBundle(s) THEN "stat" ELSE "undo_bundle")

\* The last validation: the bundle is the one written, the layout is complete.
\* A missing file is an OSError and is rolled back; a missing root or directory
\* is a ValueError, which no handler of seal_delta_bundle rolls back.
CheckBundle(s) ==
    /\ spc[s] = "check"
    /\ LET directories == root /\ {"route_state", "evidence"} \subseteq entries
       IN \/ ~HasOwnBundle(s) /\ Continue(s, "undo_bundle")
          \/ HasOwnBundle(s) /\ ~directories /\ Refuse(s, "error")
          \/ HasOwnBundle(s) /\ directories /\ ~LayoutValid /\ Continue(s, "undo_bundle")
          \/ HasOwnBundle(s) /\ LayoutValid /\ Continue(s, "stat")

StatClaim(s) ==
    /\ spc[s] = "stat"
    /\ Continue(s, IF seal["claim"] = ClaimOf(s) THEN "make_final" ELSE "undo_bundle")

MakeFinal(s) ==
    /\ spc[s] = "make_final"
    /\ \/ seal["final"] # NoInode /\ Continue(s, "undo_bundle")
       \/ /\ seal["final"] = NoInode
          /\ seal' = [seal EXCEPT !["final"] = FinalOf(s)]
          /\ written' = written \cup {FinalOf(s)}
          /\ GoSeal(s, "rename")
          /\ UNCHANGED << root, entries, registered, held, bundleOf, bundleFull, found,
                          outcome, placed, otherVars >>

\* The rename is the point of no return: whatever the claim's name stands for is
\* replaced.
RenameFinal(s) ==
    /\ spc[s] = "rename"
    /\ \/ seal["final"] = NoInode /\ Continue(s, "undo_bundle")
       \/ /\ seal["final"] # NoInode
          /\ seal' = [seal EXCEPT !["claim"] = seal["final"], !["final"] = NoInode]
          /\ placed' = placed \cup {s}
          /\ End(s, "sealed")
          /\ UNCHANGED << root, entries, registered, written, bundleOf, bundleFull,
                          found, otherVars >>

\* Mutant: the rollback forgets the bundle.
ForgetfulUndoBundle(s) ==
    /\ spc[s] = "undo_bundle"
    /\ Continue(s, "undo_final")

\* Rollback: the own bundle, the final receipt by name, the own claim.
UndoBundle(s) ==
    /\ spc[s] = "undo_bundle"
    /\ entries' = IF bundleOf = s THEN entries \ {"bundle"} ELSE entries
    /\ GoSeal(s, "undo_final")
    /\ UNCHANGED << root, registered, seal, held, written, bundleOf, bundleFull,
                    found, outcome, placed, otherVars >>

UndoFinal(s) ==
    /\ spc[s] = "undo_final"
    /\ seal' = [seal EXCEPT !["final"] = NoInode]
    /\ GoSeal(s, "undo_claim")
    /\ UNCHANGED << root, entries, registered, held, written, bundleOf, bundleFull,
                    found, outcome, placed, otherVars >>

UndoClaim(s) ==
    /\ spc[s] = "undo_claim"
    /\ seal' = IF seal["claim"] = ClaimOf(s) THEN [seal EXCEPT !["claim"] = NoInode]
                                             ELSE seal
    /\ End(s, IF outcome[s] = "none" THEN "error" ELSE outcome[s])
    /\ UNCHANGED << root, entries, registered, written, bundleOf, bundleFull, found,
                    placed, otherVars >>

(***************************************************************************)
(* Failures.                                                               *)
(***************************************************************************)
Claimed(s) == spc[s] \in {"bundle", "write_bundle", "check", "stat", "make_final",
                          "rename"}

SealCrash(s) ==
    /\ Running(s)
    /\ sealCrashes < MaxSealCrashes
    /\ sealCrashes' = sealCrashes + 1
    /\ End(s, "crashed")
    /\ UNCHANGED << root, entries, registered, seal, written, bundleOf, bundleFull,
                    found, placed, readPc, readEvidence, accepted, sealFaults >>

\* A failed system call rolls back once there is a locked claim of one's own; a
\* claim that could not be written or locked is unlinked; before that, and in
\* the rollback itself, the files stay as they are.
SealFault(s) ==
    /\ Running(s)
    /\ sealFaults < MaxSealFaults
    /\ sealFaults' = sealFaults + 1
    /\ \/ Claimed(s) /\ GoSeal(s, "undo_bundle") /\ UNCHANGED << held, outcome >>
       \/ /\ spc[s] \in {"write", "flock"} /\ seal["claim"] = ClaimOf(s)
          /\ GoSeal(s, "unlink_claim") /\ UNCHANGED << held, outcome >>
       \/ /\ ~Claimed(s)
          /\ spc[s] \in {"write", "flock"} => seal["claim"] # ClaimOf(s)
          /\ End(s, "error")
    /\ UNCHANGED << root, entries, registered, seal, written, bundleOf, bundleFull,
                    found, placed, readPc, readEvidence, accepted, sealCrashes >>

(***************************************************************************)
(* read_sealed_delta_bundle: the bundle first, the receipt that binds it   *)
(* and the layout after.                                                   *)
(***************************************************************************)
\* Mutant: the reader keeps the bundle's identity instead of its contents.
ConfusedReadBundle ==
    /\ readPc = "idle"
    /\ LayoutValid /\ "bundle" \in entries /\ bundleOf \in bundleFull
    /\ readPc' = "receipt"
    /\ readEvidence' = bundleOf
    /\ UNCHANGED << filesVars, written, bundleOf, bundleFull, spc, found, outcome,
                    placed, accepted, sealCrashes, sealFaults >>

ReadBundle ==
    /\ readPc = "idle"
    /\ LayoutValid /\ "bundle" \in entries /\ bundleOf \in bundleFull
    /\ readPc' = "receipt"
    /\ readEvidence' = Evidence[bundleOf]
    /\ UNCHANGED << filesVars, written, bundleOf, bundleFull, spc, found, outcome,
                    placed, accepted, sealCrashes, sealFaults >>

\* Mutants: any sealed receipt will do, or any readable receipt of this evidence.
ReceiptWith(test) ==
    /\ readPc = "receipt"
    /\ readPc' = "idle" /\ readEvidence' = Nobody
    /\ accepted' = IF test /\ LayoutValid THEN accepted \cup {readEvidence}
                                           ELSE accepted
    /\ UNCHANGED << filesVars, written, bundleOf, bundleFull, spc, found, outcome,
                    placed, sealCrashes, sealFaults >>
UnboundReadReceipt ==
    ReceiptWith(seal["claim"] \in written /\ IsFinal(seal["claim"]))
ClaimTrustingReadReceipt ==
    ReceiptWith(seal["claim"] \in written /\ EvidenceOf(seal["claim"]) = readEvidence)

ReadReceipt ==
    /\ readPc = "receipt"
    /\ readPc' = "idle" /\ readEvidence' = Nobody
    /\ LET i == seal["claim"]
           bound == /\ i \in written /\ IsFinal(i)
                    /\ EvidenceOf(i) = readEvidence
                    /\ LayoutValid
       IN accepted' = IF bound THEN accepted \cup {readEvidence} ELSE accepted
    /\ UNCHANGED << filesVars, written, bundleOf, bundleFull, spc, found, outcome,
                    placed, sealCrashes, sealFaults >>

SealCall(s) ==
    \/ Start(s) \/ OpenReceipt(s) \/ LockFound(s)
    \/ RecoverBundle(s) \/ RecoverFinal(s) \/ RecoverClaim(s)
    \/ CreateClaim(s) \/ WriteClaim(s) \/ LockClaim(s) \/ UnlinkClaim(s)
    \/ CreateBundle(s) \/ WriteBundle(s) \/ CheckBundle(s)
    \/ StatClaim(s) \/ MakeFinal(s) \/ RenameFinal(s)
    \/ UndoBundle(s) \/ UndoFinal(s) \/ UndoClaim(s)

SealNext == \/ \E s \in Sealers : SealCall(s) \/ SealCrash(s) \/ SealFault(s)
            \/ ReadBundle \/ ReadReceipt

sealSpecVars == << filesVars, sealVars >>

SealInit == InitSealFiles /\ InitSeal

SealSpec == SealInit /\ [][SealNext]_sealSpecVars

(***************************************************************************)
(* What sealing promises.                                                  *)
(***************************************************************************)
\* A result is persisted exactly once: at most one sealer ever puts its final
\* receipt in place, counting one that died before it could say so.
SealedOnce == Cardinality(placed) <= 1

\* What a sealer was told is sealed stays sealed, as it was: the receipt and the
\* complete bundle are its own, whoever tries to seal, crashes or rolls back
\* afterwards.
SealIsPermanent ==
    \A s \in placed : /\ seal["claim"] = FinalOf(s)
                      /\ HasOwnBundle(s) /\ s \in bundleFull

\* Whoever reads the sealed bundle, and whenever: all readers ever accept the same
\* evidence, whatever other bundles came and went under that name.
ReadersAgree == Cardinality(accepted) <= 1

\* A reader accepts only evidence for which a final receipt was issued: a bundle
\* being written, rolled back or recovered is never taken for the sealed one,
\* even where sealers of the same evidence run into each other.
ReadersOnlySealed == accepted \subseteq { Evidence[s] : s \in
                                            { t \in Sealers : FinalOf(t) \in written } }

\* A bundle in the root is never without a claim or a receipt beside it, so that
\* one left by a crash can be told from a sealed one, and recovered.
BundleIsClaimed == "bundle" \in entries => seal["claim"] # NoInode

\* Without faults, a sealer is refused only for a receipt in place or a claim of
\* other evidence, and fails only beside a sealer of other evidence or on a claim
\* whose writer died before it was readable: where the calls have the same result
\* to seal, a complete claim that a dead one left is always recovered.
RefusalJustified ==
    sealFaults = 0 => \A s \in Sealers :
        /\ outcome[s] = "already_sealed" =>
               \/ placed # {}
               \/ \E t \in Sealers : /\ ClaimOf(t) \in written
                                    /\ Evidence[t] # Evidence[s]
        /\ outcome[s] = "error" =>
               \/ seal["claim"] \notin written \cup {NoInode}
               \/ \E t \in Sealers : Evidence[t] # Evidence[s] /\ spc[t] # "start"
================================================================================
