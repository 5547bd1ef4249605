------------------------------- MODULE Cleanup ---------------------------------
(***************************************************************************)
(* cleanup_invocation: any number of processes consume one invocation.  A  *)
(* consumption ledger beside the root records how far the removal has      *)
(* come: absent, claimed, contents_removed, complete.  A rejected or       *)
(* crashed cleanup is resumed by the next one from the ledger's phase.     *)
(* The two later phases are written to a temporary name that is then       *)
(* renamed over the ledger.                                                *)
(***************************************************************************)
EXTENDS InvocationFiles

CONSTANTS
    Cleaners,      \* processes that call cleanup_invocation
    Holders,       \* those that keep the loaded resources between calls
    Dead,          \* writer of a file that no live process will finish
    Concurrent,    \* may two cleanups of the invocation overlap?
    MaxFaults,     \* bound: operating-system errors
    MaxCrashes     \* bound: processes killed in the middle of a call

ASSUME CleanupAssumption ==
    /\ Holders \subseteq Cleaners
    /\ Nobody \notin Cleaners /\ Dead \notin Cleaners /\ Nobody # Dead
    /\ Concurrent \in BOOLEAN
    /\ MaxFaults \in Nat /\ MaxCrashes \in Nat

VARIABLES
    file,      \* the ledger and the two temporary receipts
    loaded,    \* the processes that have the resources in memory
    pc, phase, seen, anchored, at,   \* the locals of each call
    holds,     \* the seal receipt inode that each call has flocked
    result,    \* what each process's last call returned
    cleaned,   \* history: how many calls returned "cleaned"
    faults, crashes

localVars == << loaded, pc, phase, seen, anchored, at, holds, result >>
cleanupVars == << file, localVars, cleaned, faults, crashes >>
vars == << filesVars, cleanupVars >>

(***************************************************************************)
(* Receipts.  A file created with O_EXCL is torn until its writer has      *)
(* written it, then its writer is Nobody; a reader of a torn receipt gets  *)
(* a JSON error.                                                           *)
(***************************************************************************)
Phases == {"absent", "claimed", "contents_removed", "complete"}
Names == {"ledger", "contents_tmp", "complete_tmp"}
Writers == Cleaners \cup {Nobody, Dead}

Absent == [phase |-> "absent", writer |-> Nobody]
Full(p) == [phase |-> p, writer |-> Nobody]
Torn(p, c) == [phase |-> p, writer |-> c]

Successor == [p \in Phases |-> CASE p = "absent" -> "claimed"
                                 [] p = "claimed" -> "contents_removed"
                                 [] OTHER -> "complete"]
Target(p) == CASE p = "absent" -> "ledger"
               [] p = "claimed" -> "contents_tmp"
               [] OTHER -> "complete_tmp"

\* The file that c was writing is finished, or is left torn for good, wherever
\* a rename has moved it meanwhile.
Settle(f, c, w) ==
    [n \in Names |-> IF f[n].writer = c THEN [f[n] EXCEPT !.writer = w] ELSE f[n]]

Steps == {"idle", "ledger", "root", "probe", "recheck", "create", "write",
          "replace", "drop", "remove", "mark", "claim", "unlink_claim", "final",
          "unlink_final", "check", "rmdir"}
Results == {"none", "cleaned", "already_consumed", "rejected"}

TypeOK ==
    /\ FilesTypeOK
    /\ file \in [Names -> [phase : Phases, writer : Writers]]
    /\ loaded \subseteq Cleaners
    /\ pc \in [Cleaners -> Steps]
    /\ phase \in [Cleaners -> Phases]
    /\ seen \in [Cleaners -> BOOLEAN]
    /\ anchored \in [Cleaners -> BOOLEAN]
    /\ at \in [Cleaners -> 1..Len(RemovalOrder)]
    /\ holds \in [Cleaners -> Inodes \cup {NoInode}]
    /\ result \in [Cleaners -> Results]
    /\ cleaned \in Nat /\ faults \in Nat /\ crashes \in Nat

InitCleanup ==
    /\ file = [n \in Names |-> Absent]
    /\ loaded = Holders
    /\ pc = [c \in Cleaners |-> "idle"]
    /\ phase = [c \in Cleaners |-> "absent"]
    /\ seen = [c \in Cleaners |-> FALSE]
    /\ anchored = [c \in Cleaners |-> FALSE]
    /\ at = [c \in Cleaners |-> 1]
    /\ holds = [c \in Cleaners |-> NoInode]
    /\ result = [c \in Cleaners |-> "none"]
    /\ cleaned = 0 /\ faults = 0 /\ crashes = 0

\* Every point of an invocation's life at which cleanup can be called: with or
\* without a worktree, a bundle, a live or an abandoned seal claim.
InitFiles ==
    /\ root = TRUE
    /\ entries \in { Required \cup e :
                        e \in SUBSET {"worktree", "bundle", Stray} }
    /\ registered \in BOOLEAN
    /\ seal \in [SealFiles -> Inodes \cup {NoInode}]
    /\ held \in SUBSET ({seal["claim"]} \cap Inodes)

Init == InitFiles /\ InitCleanup

(***************************************************************************)
(* Control flow.                                                           *)
(***************************************************************************)
Goto(c, step) == pc' = [pc EXCEPT ![c] = step]

\* The call is over: its locals and the lock of its open descriptor are gone.
Leave(c) ==
    /\ Goto(c, "idle")
    /\ phase' = [phase EXCEPT ![c] = "absent"]
    /\ seen' = [seen EXCEPT ![c] = FALSE]
    /\ anchored' = [anchored EXCEPT ![c] = FALSE]
    /\ at' = [at EXCEPT ![c] = 1]
    /\ holds' = [holds EXCEPT ![c] = NoInode]
    /\ held' = held \ {holds[c]}
    /\ UNCHANGED << root, entries, registered, seal >>

\* A command's process exits with the call.
Return(c, res) ==
    /\ Leave(c)
    /\ result' = [result EXCEPT ![c] = res]
    /\ loaded' = IF c \in Holders THEN loaded ELSE loaded \ {c}

Reject(c) ==
    /\ Return(c, "rejected")
    /\ UNCHANGED << file, cleaned, faults, crashes >>

\* A step that is a test: go on to step if ok, else the call is rejected.
Test(c, ok, step) ==
    \/ /\ ok
       /\ Goto(c, step)
       /\ UNCHANGED << filesVars, file, loaded, phase, seen, anchored, at,
                       holds, result, cleaned, faults, crashes >>
    \/ ~ok /\ Reject(c)

(***************************************************************************)
(* The call, in the order of the code.                                     *)
(***************************************************************************)
\* A command loads the manifest first, which validates the complete layout.
Begin(c) ==
    /\ pc[c] = "idle"
    /\ Concurrent \/ \A d \in Cleaners : pc[d] = "idle"
    /\ c \in loaded \/ LayoutValid
    /\ loaded' = loaded \cup {c}
    /\ Goto(c, "ledger")
    /\ UNCHANGED << filesVars, file, phase, seen, anchored, at, holds, result,
                    cleaned, faults, crashes >>

ReadLedger(c) ==
    /\ pc[c] = "ledger"
    /\ \/ file["ledger"].writer # Nobody /\ Reject(c)
       \/ /\ file["ledger"] = Full("complete")
          /\ Return(c, "already_consumed")
          /\ UNCHANGED << file, cleaned, faults, crashes >>
       \/ /\ file["ledger"].writer = Nobody
          /\ file["ledger"] # Full("complete")
          /\ phase' = [phase EXCEPT ![c] = file["ledger"].phase]
          /\ Goto(c, "root")
          /\ UNCHANGED << filesVars, file, loaded, seen, anchored, at, holds, result,
                          cleaned, faults, crashes >>

\* The root may be missing only once the contents have been removed; then
\* there is no anchor and nothing under it to look at.
OpenRoot(c) ==
    /\ pc[c] = "root"
    /\ LET ok == /\ phase[c] = "absent" => LayoutValid
                 /\ phase[c] = "claimed" => root
       IN \/ /\ ok
             /\ anchored' = [anchored EXCEPT ![c] = root]
             /\ Goto(c, "probe")
             /\ UNCHANGED << filesVars, file, loaded, phase, seen, at, holds, result,
                             cleaned, faults, crashes >>
          \/ ~ok /\ Reject(c)

\* git worktree list: what it answers is used after the recheck, possibly late.
GitProbe(c) ==
    /\ pc[c] = "probe"
    /\ seen' = [seen EXCEPT ![c] = registered]
    /\ Goto(c, "recheck")
    /\ UNCHANGED << filesVars, file, loaded, phase, anchored, at, holds, result,
                    cleaned, faults, crashes >>

\* Mutant: a first cleanup goes straight to the removal, as a resumed one does.
UnclaimedRecheck(c) ==
    /\ pc[c] = "recheck"
    /\ phase' = [phase EXCEPT ![c] = IF @ = "absent" THEN "claimed" ELSE @]
    /\ Goto(c, "drop")
    /\ UNCHANGED << filesVars, file, loaded, seen, anchored, at, holds, result,
                    cleaned, faults, crashes >>

Recheck(c) ==
    /\ pc[c] = "recheck"
    /\ IF phase[c] = "absent" THEN Test(c, LayoutValid, "create")
                              ELSE Test(c, anchored[c] => root, "drop")

\* Mutant: a temporary receipt that an interrupted call left is never reused.
StrictCreateFile(c) ==
    /\ pc[c] = "create"
    /\ LET name == Target(phase[c])
       IN \/ /\ file[name] = Absent
             /\ file' = [file EXCEPT ![name] = Torn(Successor[phase[c]], c)]
             /\ Goto(c, "write")
             /\ UNCHANGED << filesVars, loaded, phase, seen, anchored, at, holds,
                             result, cleaned, faults, crashes >>
          \/ file[name] # Absent /\ Reject(c)

\* The O_EXCL creation of the claim, or of the temporary receipt of the next
\* phase.  An existing claim is an error; an existing temporary receipt is
\* used if it says exactly what this call would write.
CreateFile(c) ==
    /\ pc[c] = "create"
    /\ LET name == Target(phase[c])
           next == Successor[phase[c]]
       IN \/ /\ file[name] = Absent
             /\ file' = [file EXCEPT ![name] = Torn(next, c)]
             /\ Goto(c, "write")
             /\ UNCHANGED << filesVars, loaded, phase, seen, anchored, at, holds,
                             result, cleaned, faults, crashes >>
          \/ /\ file[name] # Absent
             /\ Test(c, name # "ledger" /\ file[name] = Full(next), "replace")

WriteFile(c) ==
    /\ pc[c] = "write"
    /\ file' = Settle(file, c, Nobody)
    /\ IF phase[c] = "absent"
          THEN Goto(c, "drop") /\ phase' = [phase EXCEPT ![c] = "claimed"]
          ELSE Goto(c, "replace") /\ UNCHANGED phase
    /\ UNCHANGED << filesVars, loaded, seen, anchored, at, holds, result, cleaned,
                    faults, crashes >>

\* The temporary receipt is renamed over the ledger; the first time the call goes
\* on with the seal receipts, the second time it has cleaned the invocation.
AfterReplace(c) ==
    \/ /\ phase[c] = "claimed"
       /\ phase' = [phase EXCEPT ![c] = "contents_removed"]
       /\ Goto(c, "claim")
       /\ UNCHANGED << filesVars, loaded, seen, anchored, at, holds, result, cleaned >>
    \/ /\ phase[c] = "contents_removed"
       /\ Return(c, "cleaned")
       /\ cleaned' = cleaned + 1

\* Mutant: the call reports "cleaned" without the rename of the last receipt.
UnrenamedReplaceLedger(c) ==
    /\ pc[c] = "replace"
    /\ AfterReplace(c)
    /\ file' = IF phase[c] = "claimed"
                 THEN [file EXCEPT !["ledger"] = file["contents_tmp"],
                                   !["contents_tmp"] = Absent]
                 ELSE file
    /\ UNCHANGED << faults, crashes >>

ReplaceLedger(c) ==
    /\ pc[c] = "replace"
    /\ LET name == Target(phase[c])
       IN \/ file[name] = Absent /\ Reject(c)
          \/ /\ file[name] # Absent
             /\ file' = [file EXCEPT !["ledger"] = file[name], ![name] = Absent]
             /\ AfterReplace(c)
             /\ UNCHANGED << faults, crashes >>

\* The registration is removed if the probe saw it.  git fails when another
\* process has removed it since.
DropWorktree(c) ==
    /\ pc[c] = "drop"
    /\ LET ok == seen[c] => /\ phase[c] = "claimed"
                            /\ root /\ registered
           step == IF phase[c] = "claimed" THEN "remove"
                     ELSE IF anchored[c] THEN "claim" ELSE "mark"
       IN \/ /\ ok
             /\ Goto(c, step)
             /\ registered' = (registered /\ ~seen[c])
             /\ entries' = IF seen[c] THEN entries \ {"worktree"} ELSE entries
             /\ UNCHANGED << root, seal, held, file, loaded, phase, seen, anchored,
                             at, holds, result, cleaned, faults, crashes >>
          \/ ~ok /\ Reject(c)

\* Mutants: the removal loop stops one entry early, or runs one too far.
RemoveOwnedUpTo(c, last) ==
    /\ pc[c] = "remove"
    /\ root
    /\ entries' = entries \ RemovalOrder[at[c]]
    /\ IF at[c] = last THEN Goto(c, "mark") /\ UNCHANGED at
                       ELSE at' = [at EXCEPT ![c] = @ + 1] /\ UNCHANGED pc
    /\ UNCHANGED << root, registered, seal, held, file, loaded, phase, seen,
                    anchored, holds, result, cleaned, faults, crashes >>
ShortRemoveOwned(c) == RemoveOwnedUpTo(c, Len(RemovalOrder) - 1)
LongRemoveOwned(c) == RemoveOwnedUpTo(c, Len(RemovalOrder) + 1)

\* One owned entry after the other; a missing one is skipped.
RemoveOwned(c) ==
    /\ pc[c] = "remove"
    /\ \/ ~root /\ Reject(c)
       \/ /\ root
          /\ entries' = entries \ RemovalOrder[at[c]]
          /\ IF at[c] = Len(RemovalOrder)
                THEN Goto(c, "mark") /\ UNCHANGED at
                ELSE at' = [at EXCEPT ![c] = @ + 1] /\ UNCHANGED pc
          /\ UNCHANGED << root, registered, seal, held, file, loaded, phase, seen,
                          anchored, holds, result, cleaned, faults, crashes >>

\* The ledger must still say what this call believes before it is advanced.
MarkProgress(c) ==
    /\ pc[c] = "mark"
    /\ Test(c, file["ledger"] = Full(phase[c]), "create")

NextSealStep == [claim |-> "final", final |-> "check"]
UnlinkStep == [claim |-> "unlink_claim", final |-> "unlink_final"]

\* Mutant: a locked receipt is removed all the same.
RudeLockSealFile(c, f) ==
    /\ pc[c] = f
    /\ \/ seal[f] = NoInode /\ Test(c, TRUE, NextSealStep[f])
       \/ seal[f] # NoInode /\ Test(c, TRUE, UnlinkStep[f])

\* A seal receipt is removed under its own lock.  A locked one is still active.
LockSealFile(c, f) ==
    /\ pc[c] = f
    /\ \/ seal[f] = NoInode /\ Test(c, TRUE, NextSealStep[f])
       \/ seal[f] \in held /\ Reject(c)
       \/ /\ seal[f] \notin held \cup {NoInode}
          /\ held' = held \cup {seal[f]}
          /\ holds' = [holds EXCEPT ![c] = seal[f]]
          /\ Goto(c, UnlinkStep[f])
          /\ UNCHANGED << root, entries, registered, seal, file, loaded, phase, seen,
                          anchored, at, result, cleaned, faults, crashes >>

\* Mutant: the last receipt to be removed is the claim.
ClaimOnlyUnlinkSealFile(c, f) ==
    /\ pc[c] = UnlinkStep[f]
    /\ seal' = [seal EXCEPT ![f] = NoInode]
    /\ held' = held \ {holds[c]}
    /\ holds' = [holds EXCEPT ![c] = NoInode]
    /\ Goto(c, "check")
    /\ UNCHANGED << root, entries, registered, file, loaded, phase, seen, anchored,
                    at, result, cleaned, faults, crashes >>

\* The unlink is by name, whatever the name stands for by then.
UnlinkSealFile(c, f) ==
    /\ pc[c] = UnlinkStep[f]
    /\ \/ seal[f] = NoInode /\ Reject(c)
       \/ /\ seal[f] # NoInode
          /\ seal' = [seal EXCEPT ![f] = NoInode]
          /\ held' = held \ {holds[c]}
          /\ holds' = [holds EXCEPT ![c] = NoInode]
          /\ Goto(c, NextSealStep[f])
          /\ UNCHANGED << root, entries, registered, file, loaded, phase, seen,
                          anchored, at, result, cleaned, faults, crashes >>

CheckAbsent(c) ==
    /\ pc[c] = "check"
    /\ Test(c, root /\ entries \cap Recorded = {}, "rmdir")

\* A root that is not empty is left behind without complaint.
RemoveRoot(c) ==
    /\ pc[c] = "rmdir"
    /\ \/ ~root /\ Reject(c)
       \/ /\ root
          /\ root' = (entries # {})
          /\ Goto(c, "mark")
          /\ UNCHANGED << entries, registered, seal, held, file, loaded, phase, seen,
                          anchored, at, holds, result, cleaned, faults, crashes >>

(***************************************************************************)
(* What can go wrong, and the sealer that the claim's lock belongs to.     *)
(***************************************************************************)
\* Any system call fails: the call is rejected.  A failed write unlinks the
\* name it was writing to, whatever file that name stands for by now.
Fault(c) ==
    /\ pc[c] # "idle"
    /\ faults < MaxFaults
    /\ faults' = faults + 1
    /\ Return(c, "rejected")
    /\ file' = IF pc[c] = "write"
                 THEN [Settle(file, c, Dead) EXCEPT ![Target(phase[c])] = Absent]
                 ELSE file
    /\ UNCHANGED << cleaned, crashes >>

Crash(c) ==
    /\ pc[c] # "idle"
    /\ crashes < MaxCrashes
    /\ crashes' = crashes + 1
    /\ Leave(c)
    /\ file' = Settle(file, c, Dead)
    /\ loaded' = loaded \ {c}
    /\ UNCHANGED << result, cleaned, faults >>

\* The process that holds a claim ends; its file stays.
SealerStops ==
    LET cleanersHold == { holds[c] : c \in Cleaners } IN
    /\ ~(held \subseteq cleanersHold)
    /\ held' = held \cap cleanersHold
    /\ UNCHANGED << root, entries, registered, seal, cleanupVars >>

Call(c) ==
    \/ ReadLedger(c) \/ OpenRoot(c) \/ GitProbe(c) \/ Recheck(c)
    \/ CreateFile(c) \/ WriteFile(c) \/ ReplaceLedger(c) \/ DropWorktree(c)
    \/ RemoveOwned(c) \/ MarkProgress(c)
    \/ \E f \in SealFiles : LockSealFile(c, f) \/ UnlinkSealFile(c, f)
    \/ CheckAbsent(c) \/ RemoveRoot(c)

CleanupNext == \E c \in Cleaners : Begin(c) \/ Call(c) \/ Fault(c) \/ Crash(c)

Next == CleanupNext \/ SealerStops

Spec == Init /\ [][Next]_vars

\* A call that has begun goes on, a holder whose cleanup was rejected calls it
\* again, and no sealer keeps its lock for ever.
FairSpec == /\ Spec
            /\ \A c \in Cleaners : WF_vars(Call(c))
            /\ \A c \in Holders : WF_vars(Begin(c))
            /\ WF_vars(SealerStops)

(***************************************************************************)
(* What a cleanup promises.                                                *)
(***************************************************************************)
Rank == [p \in Phases |-> CASE p = "absent" -> 0 [] p = "claimed" -> 1
                            [] p = "contents_removed" -> 2 [] OTHER -> 3]

\* No recorded entry that every user of the invocation relies on is missing
\* before the consumption claim is on disk: whoever finds a partial layout also
\* finds the ledger to resume from (cleanup_invocation claims, then deletes).
ClaimBeforeDelete == ~(Required \subseteq entries) => file["ledger"] # Absent

\* A ledger that says contents_removed or complete tells the truth, whoever
\* wrote it and however many calls it took: every recorded entry is gone and
\* git no longer lists the worktree.
RemovedMeansGone == Rank[file["ledger"].phase] >= 2 => ContentsGone

\* Once the ledger says complete, or some call has returned "cleaned", neither a
\* recorded entry nor a registration nor a seal receipt is left, and the root
\* is only kept for entries that are not the invocation's.
CompleteMeansClean ==
    (file["ledger"].phase = "complete" \/ cleaned > 0) =>
        ContentsGone /\ NoSealFiles /\ (root => entries = {Stray})

\* An invocation is consumed once: at most one call ever returns "cleaned".
ConsumedOnce == cleaned <= 1

\* Cleanups that do not overlap implement the abstract consumption, faults and
\* crashes included: a torn claim is not yet a claim, and neither a resumed nor a
\* repeated call takes a phase back or removes anything outside "claimed".  The
\* contents are what the invocation was created with; a bundle may come and go.
Created == Recorded \ {"bundle"}
Consumed == INSTANCE Consumption WITH
    Contents <- Created \cup {"registration"},
    stage <- IF file["ledger"].writer # Nobody \/ file["ledger"] = Absent
               THEN "active" ELSE file["ledger"].phase,
    contents <- (entries \cap Created)
                  \cup (IF registered THEN {"registration"} ELSE {})

ImplementsConsumption == Consumed!ConsumptionSpec

\* What the worker command prints when its cleanup is rejected: the retained
\* manifest can be used for explicit recovery, i.e. a new process can load it
\* unless the invocation has meanwhile been consumed.
RetainedManifestRecovers ==
    \A c \in Cleaners : result[c] = "rejected" /\ pc[c] = "idle"
                          /\ file["ledger"].phase # "complete" => LayoutValid

\* Processes that keep their resources and call again after each rejection get
\* the invocation consumed for good, even when they run into each other and
\* wherever the earlier calls failed, unless one of them is killed.
HolderCompletes ==
    <>[](file["ledger"] = Full("complete")) \/ <>(crashes > 0)
================================================================================
