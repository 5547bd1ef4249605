---------------------------- MODULE CleanupProofs ------------------------------
(***************************************************************************)
(* What cleanup promises for every set of markers, processes and inodes,   *)
(* with overlapping calls, any number of faults and any number of crashes. *)
(***************************************************************************)
EXTENDS Cleanup, TLAPS

(***************************************************************************)
(* The inductive invariant.                                                *)
(***************************************************************************)
\* A receipt that is not there has no writer, and a temporary receipt can only
\* be about the phase in its name.
Receipts ==
    /\ \A n \in Names : file[n].phase = "absent" => file[n] = Absent
    /\ file["contents_tmp"].phase \in {"absent", "contents_removed"}
    /\ file["complete_tmp"].phase \in {"absent", "complete"}

\* Which steps a call can be at in which phase.
StepOfPhase == \A c \in Cleaners :
    /\ phase[c] # "complete"
    /\ phase[c] = "absent" => pc[c] \in {"idle", "ledger", "root", "probe", "recheck",
                                         "create", "write"}
    /\ phase[c] = "claimed" => pc[c] \in {"root", "probe", "recheck", "drop", "remove",
                                          "mark", "create", "write", "replace"}
    /\ phase[c] = "contents_removed" => pc[c] \notin {"idle", "ledger", "remove"}

Claiming(c) == pc[c] = "write" /\ phase[c] = "absent"

\* Until the claim is written nobody has read a phase, and nothing that every
\* user relies on is missing; the torn claim belongs to the call that writes it.
Unclaimed ==
    /\ (file["ledger"].phase = "absent" \/ \E c \in Cleaners : Claiming(c)) =>
           /\ \A c \in Cleaners : phase[c] = "absent"
           /\ Required \subseteq entries
    /\ \A c \in Cleaners : Claiming(c) => file["ledger"] = Torn("claimed", c)

\* What a call has observed of the registration and of the root is only ever
\* outdated in one direction: both disappear and never come back.
Observed == \A c \in Cleaners :
    /\ pc[c] \notin {"idle", "ledger", "root"} => (root => anchored[c])
    /\ pc[c] \notin {"idle", "ledger", "root", "probe"} => (registered => seen[c])
    /\ pc[c] = "remove" => ~registered

\* The entries that a call has passed are gone, and everything that was written or is
\* believed after the removal is true, of all that the invocation was created with.
CreatedGone == entries \cap Created = {} /\ ~registered

Emptying(c) == \/ phase[c] = "claimed" /\ pc[c] \in {"mark", "create", "write", "replace"}
               \/ phase[c] = "contents_removed"

SaysGone == \/ file["contents_tmp"].phase # "absent"
            \/ file["complete_tmp"].phase # "absent"
            \/ file["ledger"].phase \in {"contents_removed", "complete"}

Passed == \A c \in Cleaners : \A i \in 1..Len(RemovalOrder) :
              i < at[c] => entries \cap Created \cap RemovalOrder[i] = {}

Emptied == /\ \A c \in Cleaners : Emptying(c) => CreatedGone
           /\ SaysGone => CreatedGone

Removing == Receipts /\ StepOfPhase /\ Unclaimed /\ Observed /\ Passed /\ Emptied

\* The same of the bundle, which only a sealer can bring back.
Unbundled == /\ \A c \in Cleaners : at[c] > 4 \/ Emptying(c) => "bundle" \notin entries
             /\ SaysGone => "bundle" \notin entries

Clean == ContentsGone /\ NoSealFiles /\ (root => entries = {Stray})

\* The same of the seal receipts and the root.
Finished ==
    /\ \A c \in Cleaners :
           /\ pc[c] \in {"final", "unlink_final", "check", "rmdir"} => seal["claim"] = NoInode
           /\ pc[c] \in {"check", "rmdir"} => seal["final"] = NoInode
           /\ phase[c] = "contents_removed"
              /\ pc[c] \in {"mark", "create", "write", "replace"} => Clean
    /\ ~root => Clean
    /\ file["complete_tmp"].phase # "absent" => Clean
    /\ file["ledger"].phase = "complete" => Clean
    /\ cleaned > 0 => Clean

\* What holds as long as no sealer is at work; the rest holds beside sealers too.
Tidy == Unbundled /\ Finished

IInv == TypeOK /\ Removing /\ Tidy

(***************************************************************************)
(* The operators.                                                          *)
(***************************************************************************)
\* A receipt is written to a name, and announces a phase, that exist.
LEMMA ReceiptNames ==
    ASSUME NEW p \in Phases
    PROVE  Target(p) \in Names /\ Successor[p] \in Phases
  BY DEF Phases, Target, Successor, Names

LEMMA ReceiptOf ==
    /\ Target("absent") = "ledger" /\ Successor["absent"] = "claimed"
    /\ Target("claimed") = "contents_tmp" /\ Successor["claimed"] = "contents_removed"
    /\ Target("contents_removed") = "complete_tmp"
    /\ Successor["contents_removed"] = "complete"
  BY DEF Phases, Target, Successor

\* Settling a call's files keeps every phase, and touches no other call's file.
LEMMA SettleKeeps ==
    ASSUME TypeOK, NEW c \in Cleaners, NEW w \in Writers
    PROVE  /\ Settle(file, c, w) \in [Names -> [phase : Phases, writer : Writers]]
           /\ \A n \in Names : Settle(file, c, w)[n].phase = file[n].phase
           /\ \A n \in Names : file[n].writer # c => Settle(file, c, w)[n] = file[n]
  BY DEF TypeOK, Settle

\* The removal order covers everything recorded, and nothing else.
LEMMA OrderCovers ==
    /\ Len(RemovalOrder) = 6
    /\ \A e \in Recorded : \E i \in 1..6 : e \in RemovalOrder[i]
    /\ \A i \in 1..6 : Stray \notin RemovalOrder[i]
    /\ "bundle" \in RemovalOrder[4]
  BY InvocationFilesAssumption DEF RemovalOrder, Recorded, Directories, Stray

\* The bundle is the one recorded entry that the invocation is not created with.
LEMMA CreatedOrBundle ==
    /\ ContentsGone <=> CreatedGone /\ "bundle" \notin entries
    /\ Clean => CreatedGone /\ "bundle" \notin entries
  BY DEF Clean, ContentsGone, CreatedGone, Created, Recorded

\* A user relies on no entry but those the invocation was created with.
LEMMA RequiredIsCreated ==
    /\ Required \subseteq Created /\ Required # {}
    /\ "worktree" \notin Required /\ "bundle" \notin Created
  BY InvocationFilesAssumption DEF Required, Created, Recorded, Directories

(***************************************************************************)
(* Type correctness.                                                       *)
(***************************************************************************)
\* A call that ends leaves well-typed locals behind.
LEMMA LeaveTypes ==
    ASSUME TypeOK, NEW c \in Cleaners, Leave(c)
    PROVE  /\ FilesTypeOK'
           /\ pc' \in [Cleaners -> Steps]
           /\ phase' \in [Cleaners -> Phases]
           /\ seen' \in [Cleaners -> BOOLEAN]
           /\ anchored' \in [Cleaners -> BOOLEAN]
           /\ at' \in [Cleaners -> 1..Len(RemovalOrder)]
           /\ holds' \in [Cleaners -> Inodes \cup {NoInode}]
  BY OrderCovers DEF TypeOK, FilesTypeOK, Leave, Goto, Steps, Phases

LEMMA RejectTypes ==
    ASSUME TypeOK, NEW c \in Cleaners, Reject(c)
    PROVE  TypeOK'
  BY LeaveTypes DEF TypeOK, Reject, Return, Results

LEMMA TestTypes ==
    ASSUME TypeOK, NEW c \in Cleaners, NEW ok, NEW step \in Steps, Test(c, ok, step)
    PROVE  TypeOK'
  <1>1. CASE Reject(c)
    BY <1>1, RejectTypes
  <1>2. CASE ~Reject(c)
    BY <1>2 DEF Test, TypeOK, FilesTypeOK, filesVars, Goto
  <1> QED BY <1>1, <1>2

LEMMA TypeStep == TypeOK /\ [Next]_vars => TypeOK'
  <1> SUFFICES ASSUME TypeOK, [Next]_vars
               PROVE  TypeOK'
    OBVIOUS
  <1>1. CASE UNCHANGED vars
    BY <1>1 DEF vars, filesVars, cleanupVars, localVars, TypeOK, FilesTypeOK
  <1>2. CASE SealerStops
    BY <1>2 DEF SealerStops, cleanupVars, localVars, TypeOK, FilesTypeOK
  <1>3. ASSUME NEW c \in Cleaners, Begin(c) PROVE TypeOK'
    BY <1>3 DEF Begin, Goto, filesVars, TypeOK, FilesTypeOK, Steps
  <1>4. ASSUME NEW c \in Cleaners, ReadLedger(c) PROVE TypeOK'
    <2>1. CASE Reject(c)
      BY <2>1, RejectTypes
    <2>2. CASE Return(c, "already_consumed") /\ UNCHANGED << file, cleaned, faults, crashes >>
      BY <2>2, LeaveTypes DEF Return, TypeOK, Results
    <2>3. CASE ~Reject(c) /\ ~Return(c, "already_consumed")
      BY <2>3, <1>4 DEF ReadLedger, Goto, filesVars, TypeOK, FilesTypeOK, Steps, Names
    <2> QED BY <2>1, <2>2, <2>3, <1>4 DEF ReadLedger
  <1>5. ASSUME NEW c \in Cleaners, OpenRoot(c) PROVE TypeOK'
    <2>1. CASE Reject(c)
      BY <2>1, RejectTypes
    <2>2. CASE ~Reject(c)
      BY <2>2, <1>5 DEF OpenRoot, Goto, filesVars, TypeOK, FilesTypeOK, Steps
    <2> QED BY <2>1, <2>2
  <1>6. ASSUME NEW c \in Cleaners, GitProbe(c) PROVE TypeOK'
    BY <1>6 DEF GitProbe, Goto, filesVars, TypeOK, FilesTypeOK, Steps
  <1>7. ASSUME NEW c \in Cleaners, Recheck(c) PROVE TypeOK'
    BY <1>7, TestTypes DEF Recheck, Steps
  <1>8. ASSUME NEW c \in Cleaners, CreateFile(c) PROVE TypeOK'
    <2>1. CASE \E ok : Test(c, ok, "replace")
      BY <2>1, TestTypes DEF Steps
    <2>2. CASE ~\E ok : Test(c, ok, "replace")
      <3>1. /\ Target(phase[c]) \in Names
            /\ Torn(Successor[phase[c]], c) \in [phase : Phases, writer : Writers]
        BY ReceiptNames DEF TypeOK, Torn, Writers
      <3>2. /\ file' = [file EXCEPT ![Target(phase[c])] = Torn(Successor[phase[c]], c)]
            /\ Goto(c, "write")
            /\ UNCHANGED << filesVars, loaded, phase, seen, anchored, at, holds,
                             result, cleaned, faults, crashes >>
        BY <2>2, <1>8 DEF CreateFile
      <3> QED BY <3>1, <3>2 DEF Goto, filesVars, TypeOK, FilesTypeOK, Steps
    <2> QED BY <2>1, <2>2
  <1>9. ASSUME NEW c \in Cleaners, WriteFile(c) PROVE TypeOK'
    <2>1. file' \in [Names -> [phase : Phases, writer : Writers]]
      BY <1>9, SettleKeeps DEF WriteFile, Writers
    <2> QED BY <2>1, <1>9 DEF WriteFile, Goto, filesVars, TypeOK, FilesTypeOK, Steps, Phases
  <1>10. ASSUME NEW c \in Cleaners, ReplaceLedger(c) PROVE TypeOK'
    <2>1. CASE Reject(c)
      BY <2>1, RejectTypes
    <2>2. CASE ~Reject(c)
      <3>1. Target(phase[c]) \in Names
        BY ReceiptNames DEF TypeOK
      <3>2. file' \in [Names -> [phase : Phases, writer : Writers]]
        <4>1. PICK n \in Names :
                  file' = [file EXCEPT !["ledger"] = file[n], ![n] = Absent]
          BY <2>2, <3>1, <1>10 DEF ReplaceLedger
        <4>2. Absent \in [phase : Phases, writer : Writers] /\ "ledger" \in Names
          BY DEF Absent, Phases, Writers, Names
        <4> QED BY <4>1, <4>2 DEF TypeOK
      <3>3. CASE phase[c] = "claimed"
        BY <2>2, <3>2, <3>3, <1>10
            DEF ReplaceLedger, AfterReplace, Goto, filesVars, TypeOK, FilesTypeOK, Steps,
                Phases
      <3>4. CASE phase[c] # "claimed"
        <4>1. Return(c, "cleaned") /\ cleaned' = cleaned + 1 /\ UNCHANGED << faults, crashes >>
          BY <2>2, <3>4, <1>10 DEF ReplaceLedger, AfterReplace
        <4> QED BY <4>1, <3>2, LeaveTypes DEF Return, TypeOK, Results
      <3> QED BY <3>3, <3>4
    <2> QED BY <2>1, <2>2
  <1>11. ASSUME NEW c \in Cleaners, DropWorktree(c) PROVE TypeOK'
    <2>1. CASE Reject(c)
      BY <2>1, RejectTypes
    <2>2. CASE ~Reject(c)
      BY <2>2, <1>11 DEF DropWorktree, Goto, TypeOK, FilesTypeOK, Steps
    <2> QED BY <2>1, <2>2
  <1>12. ASSUME NEW c \in Cleaners, RemoveOwned(c) PROVE TypeOK'
    <2>1. CASE Reject(c)
      BY <2>1, RejectTypes
    <2>2. CASE ~Reject(c)
      BY <2>2, <1>12, OrderCovers DEF RemoveOwned, Goto, TypeOK, FilesTypeOK, Steps
    <2> QED BY <2>1, <2>2
  <1>13. ASSUME NEW c \in Cleaners, MarkProgress(c) PROVE TypeOK'
    BY <1>13, TestTypes DEF MarkProgress, Steps
  <1>14. ASSUME NEW c \in Cleaners, NEW f \in SealFiles, LockSealFile(c, f) PROVE TypeOK'
    <2>0. NextSealStep[f] \in Steps /\ UnlinkStep[f] \in Steps
      BY DEF NextSealStep, UnlinkStep, SealFiles, Steps
    <2>1. CASE Reject(c)
      BY <2>1, RejectTypes
    <2>2. CASE Test(c, TRUE, NextSealStep[f])
      BY <2>0, <2>2, TestTypes
    <2>3. CASE ~Reject(c) /\ ~Test(c, TRUE, NextSealStep[f])
      <3>1. /\ seal[f] \in Inodes
            /\ held' = held \cup {seal[f]}
            /\ holds' = [holds EXCEPT ![c] = seal[f]]
            /\ pc' = [pc EXCEPT ![c] = UnlinkStep[f]]
            /\ UNCHANGED << root, entries, registered, seal, file, loaded, phase, seen,
                            anchored, at, result, cleaned, faults, crashes >>
        BY <2>3, <1>14 DEF LockSealFile, Goto, TypeOK, FilesTypeOK
      <3> QED BY <2>0, <3>1 DEF TypeOK, FilesTypeOK
    <2> QED BY <2>1, <2>2, <2>3
  <1>15. ASSUME NEW c \in Cleaners, NEW f \in SealFiles, UnlinkSealFile(c, f) PROVE TypeOK'
    <2>0. NextSealStep[f] \in Steps
      BY DEF NextSealStep, SealFiles, Steps
    <2>1. CASE Reject(c)
      BY <2>1, RejectTypes
    <2>2. CASE ~Reject(c)
      BY <2>0, <2>2, <1>15 DEF UnlinkSealFile, Goto, TypeOK, FilesTypeOK
    <2> QED BY <2>1, <2>2
  <1>16. ASSUME NEW c \in Cleaners, CheckAbsent(c) PROVE TypeOK'
    BY <1>16, TestTypes DEF CheckAbsent, Steps
  <1>17. ASSUME NEW c \in Cleaners, RemoveRoot(c) PROVE TypeOK'
    <2>1. CASE Reject(c)
      BY <2>1, RejectTypes
    <2>2. CASE ~Reject(c)
      BY <2>2, <1>17 DEF RemoveRoot, Goto, TypeOK, FilesTypeOK, Steps
    <2> QED BY <2>1, <2>2
  <1>18. ASSUME NEW c \in Cleaners, Fault(c) PROVE TypeOK'
    <2>1. file' \in [Names -> [phase : Phases, writer : Writers]]
      <3>1. /\ Target(phase[c]) \in Names
            /\ Absent \in [phase : Phases, writer : Writers]
        BY ReceiptNames DEF TypeOK, Absent, Phases, Writers
      <3>2. Settle(file, c, Dead) \in [Names -> [phase : Phases, writer : Writers]]
        BY SettleKeeps DEF Writers
      <3> QED BY <3>1, <3>2, <1>18 DEF Fault, TypeOK
    <2> QED BY <2>1, <1>18, LeaveTypes DEF Fault, Return, TypeOK, Results
  <1>19. ASSUME NEW c \in Cleaners, Crash(c) PROVE TypeOK'
    <2>1. file' \in [Names -> [phase : Phases, writer : Writers]]
      BY <1>19, SettleKeeps DEF Crash, Writers
    <2> QED BY <2>1, <1>19, LeaveTypes DEF Crash, TypeOK
  <1> QED BY <1>1, <1>2, <1>3, <1>4, <1>5, <1>6, <1>7, <1>8, <1>9, <1>10, <1>11, <1>12,
             <1>13, <1>14, <1>15, <1>16, <1>17, <1>18, <1>19
          DEF Next, CleanupNext, Call

LEMMA TypeInit == Init => TypeOK
  <1>1. ASSUME InitFiles PROVE FilesTypeOK
    <2>1. PICK e \in SUBSET {"worktree", "bundle", Stray} : entries = Required \cup e
      BY <1>1 DEF InitFiles
    <2>2. entries \subseteq Recorded \cup {Stray}
      BY <2>1 DEF Required, Recorded, Directories
    <2> QED BY <1>1, <2>2 DEF InitFiles, FilesTypeOK
  <1>2. ASSUME Init PROVE TypeOK
    <2>1. FilesTypeOK /\ InitCleanup
      BY <1>1, <1>2 DEF Init
    <2>2. /\ Absent \in [phase : Phases, writer : Writers]
          /\ 1 \in 1..Len(RemovalOrder)
      BY OrderCovers DEF Absent, Phases, Writers
    <2> QED BY <2>1, <2>2, CleanupAssumption
            DEF InitCleanup, TypeOK, Phases, Steps, Results
  <1> QED BY <1>2

\* The state of every call, of the receipts and of the files stays within its
\* type, whatever the calls overlap with.
THEOREM TypeCorrect == Spec => []TypeOK
  BY TypeInit, TypeStep, PTL DEF Spec

\* At most one call is writing the claim.
LEMMA OneClaimer ==
    ASSUME TypeOK, Removing, NEW c \in Cleaners, NEW d \in Cleaners, Claiming(c), Claiming(d)
    PROVE  c = d
  <1>1. file["ledger"] = Torn("claimed", c) /\ file["ledger"] = Torn("claimed", d)
    BY DEF Removing, Unclaimed
  <1> QED BY <1>1 DEF Torn

(***************************************************************************)
(* The steps that end a call.                                              *)
(***************************************************************************)
\* A call that ends without touching a receipt leaves everything as true as it
\* was.
LEMMA LeaveSafe ==
    ASSUME TypeOK, Removing, NEW c \in Cleaners, Leave(c), UNCHANGED << file, cleaned >>
    PROVE  Removing' /\ (Tidy => Tidy')
  <1>1. Receipts' /\ StepOfPhase' /\ Passed'
    BY OrderCovers DEF Removing, TypeOK, Receipts, StepOfPhase, Passed, Leave, Goto
  <1>2. Unclaimed' /\ Observed'
    BY DEF Removing, TypeOK, Unclaimed, Claiming, Observed, Leave, Goto
  <1>3. Emptied' /\ (Tidy => Tidy')
    BY DEF Removing, TypeOK, Emptied, Emptying, SaysGone, CreatedGone, Tidy, Unbundled,
           Finished, Clean, ContentsGone, NoSealFiles, Leave, Goto
  <1> QED BY <1>1, <1>2, <1>3 DEF Removing

LEMMA RejectSafe ==
    ASSUME TypeOK, Removing, NEW c \in Cleaners, Reject(c)
    PROVE  Removing' /\ (Tidy => Tidy')
  BY LeaveSafe DEF Reject, Return

\* A killed call leaves the receipt it was writing torn.
LEMMA CrashSafe ==
    ASSUME TypeOK, Removing, NEW c \in Cleaners, Crash(c)
    PROVE  Removing' /\ (Tidy => Tidy')
  <1>1. /\ \A n \in Names : file'[n].phase = file[n].phase
        /\ \A n \in Names : file[n].writer # c => file'[n] = file[n]
        /\ Leave(c) /\ UNCHANGED cleaned
    BY SettleKeeps DEF Crash, Writers
  <1>2. Receipts'
    <2>1. ASSUME NEW n \in Names, file'[n].phase = "absent" PROVE file'[n] = Absent
      <3>1. file[n] = Absent
        BY <1>1, <2>1 DEF Removing, Receipts
      <3> QED BY <3>1, <1>1, CleanupAssumption DEF Absent
    <2> QED BY <1>1, <2>1 DEF Removing, Receipts, Names
  <1>3. StepOfPhase' /\ Passed'
    BY <1>1, OrderCovers DEF Removing, TypeOK, StepOfPhase, Passed, Leave, Goto
  <1>4. Unclaimed'
    <2>1. \A d \in Cleaners : Claiming(d)' => Claiming(d) /\ d # c
      BY <1>1 DEF TypeOK, Claiming, Leave, Goto
    <2>2. ASSUME NEW d \in Cleaners, Claiming(d)' PROVE file'["ledger"] = Torn("claimed", d)
      BY <1>1, <2>1, <2>2 DEF Removing, Unclaimed, Torn, Names
    <2>3. (\A d \in Cleaners : phase[d] = "absent") => (\A d \in Cleaners : phase'[d] = "absent")
      BY <1>1 DEF TypeOK, Leave
    <2>4. file'["ledger"].phase = file["ledger"].phase /\ UNCHANGED entries
      BY <1>1 DEF Leave, Names
    <2> QED BY <2>1, <2>2, <2>3, <2>4 DEF Removing, Unclaimed
  <1>5. Observed'
    BY <1>1 DEF Removing, TypeOK, Observed, Leave, Goto
  <1>6. Emptied' /\ (Tidy => Tidy')
    BY <1>1 DEF Removing, TypeOK, Emptied, Emptying, SaysGone, CreatedGone, Tidy,
                Unbundled, Finished, Clean, ContentsGone, NoSealFiles, Leave, Goto, Names
  <1> QED BY <1>2, <1>3, <1>4, <1>5, <1>6 DEF Removing

\* A failed call may take back the receipt it was writing.
LEMMA FaultSafe ==
    ASSUME TypeOK, Removing, NEW c \in Cleaners, Fault(c)
    PROVE  Removing' /\ (Tidy => Tidy')
  <1>1. Leave(c) /\ UNCHANGED cleaned
    BY DEF Fault, Return
  <1>2. CASE pc[c] # "write"
    BY <1>1, <1>2, LeaveSafe DEF Fault
  <1>3. CASE pc[c] = "write"
    <2>0. DEFINE t == Target(phase[c])
    <2>1. /\ t \in Names /\ file'[t] = Absent
          /\ \A n \in Names \ {t} : file'[n].phase = file[n].phase
          /\ \A n \in Names \ {t} : file[n].writer # c => file'[n] = file[n]
      <3>1. Settle(file, c, Dead) \in [Names -> [phase : Phases, writer : Writers]]
        BY SettleKeeps DEF Writers
      <3> QED BY <1>3, <3>1, ReceiptNames, SettleKeeps DEF Fault, TypeOK, Writers
    <2>2. \A n \in Names : file'[n].phase \in {file[n].phase, "absent"}
      BY <2>1 DEF Absent
    <2>3. Receipts'
      <3>1. ASSUME NEW n \in Names, file'[n].phase = "absent", n # t PROVE file'[n] = Absent
        <4>1. file[n] = Absent
          BY <2>1, <3>1 DEF Removing, Receipts
        <4> QED BY <4>1, <2>1, <3>1, CleanupAssumption DEF Absent
      <3> QED BY <2>1, <2>2, <3>1 DEF Removing, Receipts, Names
    <2>4. StepOfPhase' /\ Passed'
      BY <1>1, OrderCovers DEF Removing, TypeOK, StepOfPhase, Passed, Leave, Goto
    <2>5. Unclaimed'
      <3>1. \A d \in Cleaners : Claiming(d)' => Claiming(d) /\ d # c
        BY <1>1 DEF TypeOK, Claiming, Leave, Goto
      <3>2. UNCHANGED entries /\ phase' = [phase EXCEPT ![c] = "absent"]
        BY <1>1 DEF Leave
      <3>3. CASE phase[c] = "absent"
        <4>1. Claiming(c)
          BY <1>3, <3>3 DEF Claiming
        <4>2. \A d \in Cleaners : ~Claiming(d)'
          BY <3>1, <4>1, OneClaimer
        <4> QED BY <4>1, <4>2, <3>2 DEF Removing, TypeOK, Unclaimed
      <3>4. CASE phase[c] # "absent"
        <4>1. \A d \in Cleaners : ~Claiming(d)'
          BY <3>1, <3>4 DEF Removing, Unclaimed
        <4>2. t # "ledger"
          BY <3>4, ReceiptOf DEF Removing, TypeOK, StepOfPhase, Phases
        <4>3. file'["ledger"].phase = file["ledger"].phase
          BY <2>1, <4>2 DEF Names
        <4> QED BY <4>1, <4>3, <3>2 DEF Removing, TypeOK, Unclaimed
      <3> QED BY <3>3, <3>4
    <2>6. Observed'
      BY <1>1 DEF Removing, TypeOK, Observed, Leave, Goto
    <2>7. Emptied' /\ (Tidy => Tidy')
      BY <1>1, <2>2 DEF Removing, TypeOK, Emptied, Emptying, SaysGone, CreatedGone, Tidy,
                        Unbundled, Finished, Clean, ContentsGone, NoSealFiles, Leave,
                        Goto, Names
    <2> QED BY <2>3, <2>4, <2>5, <2>6, <2>7 DEF Removing
  <1> QED BY <1>2, <1>3

(***************************************************************************)
(* The steps of a call that leave the files alone.                         *)
(***************************************************************************)
LEMMA BeginSafe ==
    ASSUME TypeOK, Removing, NEW c \in Cleaners, Begin(c)
    PROVE  Removing' /\ (Tidy => Tidy')
  <1>1. Receipts' /\ StepOfPhase' /\ Observed' /\ Passed'
    BY OrderCovers
        DEF Removing, TypeOK, Receipts, StepOfPhase, Observed, Passed, Begin, Goto,
            filesVars
  <1>2. Unclaimed'
    BY DEF Removing, TypeOK, Unclaimed, Claiming, Begin, Goto, filesVars
  <1>3. Emptied' /\ (Tidy => Tidy')
    BY DEF Removing, TypeOK, Emptied, Emptying, SaysGone, CreatedGone, Tidy, Unbundled,
           Finished, Clean, ContentsGone, NoSealFiles, Begin, Goto, filesVars
  <1> QED BY <1>1, <1>2, <1>3 DEF Removing

\* Whoever reads a phase from the ledger reads a complete receipt, so that no
\* claim is being written.
LEMMA ReadLedgerSafe ==
    ASSUME TypeOK, Removing, NEW c \in Cleaners, ReadLedger(c)
    PROVE  Removing' /\ (Tidy => Tidy')
  <1>1. CASE Reject(c)
    BY <1>1, RejectSafe
  <1>2. CASE Return(c, "already_consumed") /\ UNCHANGED << file, cleaned, faults, crashes >>
    BY <1>2, LeaveSafe DEF Return
  <1>3. CASE ~Reject(c) /\ ~(Return(c, "already_consumed")
                              /\ UNCHANGED << file, cleaned, faults, crashes >>)
    <2>1. /\ pc[c] = "ledger"
          /\ file["ledger"].writer = Nobody /\ file["ledger"] # Full("complete")
          /\ phase' = [phase EXCEPT ![c] = file["ledger"].phase]
          /\ pc' = [pc EXCEPT ![c] = "root"]
          /\ UNCHANGED << filesVars, file, loaded, seen, anchored, at, holds, cleaned >>
      BY <1>3 DEF ReadLedger, Goto
    <2>2. file["ledger"].phase \in {"absent", "claimed", "contents_removed"}
      BY <2>1 DEF Full, TypeOK, Names, Phases
    <2>3. Receipts' /\ StepOfPhase' /\ Observed' /\ Passed'
      BY <2>1, <2>2, OrderCovers
         DEF Removing, TypeOK, Receipts, StepOfPhase, Observed, Passed, filesVars
    <2>4. Unclaimed'
      <3>1. ASSUME NEW d \in Cleaners, Claiming(d) PROVE FALSE
        <4>1. file["ledger"] = Torn("claimed", d)
          BY <3>1 DEF Removing, Unclaimed
        <4> QED BY <2>1, <4>1, CleanupAssumption DEF Torn
      <3>2. \A d \in Cleaners : ~Claiming(d)'
        BY <2>1, <3>1 DEF TypeOK, Claiming
      <3> QED BY <2>1, <3>2 DEF Removing, TypeOK, Unclaimed, filesVars
    <2>5. Emptied' /\ (Tidy => Tidy')
      BY <2>1, <2>2 DEF Removing, TypeOK, Emptied, Emptying, SaysGone, CreatedGone, Tidy,
                        Unbundled, Finished, Clean, ContentsGone, NoSealFiles, filesVars
    <2> QED BY <2>3, <2>4, <2>5 DEF Removing
  <1> QED BY <1>1, <1>2, <1>3

LEMMA OpenRootSafe ==
    ASSUME TypeOK, Removing, NEW c \in Cleaners, OpenRoot(c)
    PROVE  Removing' /\ (Tidy => Tidy')
  <1>1. CASE Reject(c)
    BY <1>1, RejectSafe
  <1>2. CASE ~Reject(c)
    <2>1. Receipts' /\ StepOfPhase' /\ Passed'
      BY <1>2, OrderCovers
         DEF Removing, TypeOK, Receipts, StepOfPhase, Passed, OpenRoot, Goto, filesVars
    <2>2. Unclaimed' /\ Observed'
      BY <1>2 DEF Removing, TypeOK, Unclaimed, Claiming, Observed, OpenRoot, Goto,
                  filesVars
    <2>3. Emptied' /\ (Tidy => Tidy')
      BY <1>2 DEF Removing, TypeOK, Emptied, Emptying, SaysGone, CreatedGone, Tidy,
                  Unbundled, Finished, Clean, ContentsGone, NoSealFiles, OpenRoot, Goto,
                  filesVars
    <2> QED BY <2>1, <2>2, <2>3 DEF Removing
  <1> QED BY <1>1, <1>2

LEMMA GitProbeSafe ==
    ASSUME TypeOK, Removing, NEW c \in Cleaners, GitProbe(c)
    PROVE  Removing' /\ (Tidy => Tidy')
  <1>1. Receipts' /\ StepOfPhase' /\ Passed'
    BY OrderCovers
       DEF Removing, TypeOK, Receipts, StepOfPhase, Passed, GitProbe, Goto, filesVars
  <1>2. Unclaimed' /\ Observed'
    BY DEF Removing, TypeOK, Unclaimed, Claiming, Observed, GitProbe, Goto, filesVars
  <1>3. Emptied' /\ (Tidy => Tidy')
    BY DEF Removing, TypeOK, Emptied, Emptying, SaysGone, CreatedGone, Tidy, Unbundled,
           Finished, Clean, ContentsGone, NoSealFiles, GitProbe, Goto, filesVars
  <1> QED BY <1>1, <1>2, <1>3 DEF Removing

LEMMA RecheckSafe ==
    ASSUME TypeOK, Removing, NEW c \in Cleaners, Recheck(c)
    PROVE  Removing' /\ (Tidy => Tidy')
  <1>1. CASE Reject(c)
    BY <1>1, RejectSafe
  <1>2. CASE ~Reject(c)
    <2>1. Receipts' /\ StepOfPhase' /\ Passed'
      BY <1>2, OrderCovers
         DEF Removing, TypeOK, Receipts, StepOfPhase, Passed, Recheck, Test, Goto,
             filesVars, Phases
    <2>2. Unclaimed' /\ Observed'
      BY <1>2 DEF Removing, TypeOK, Unclaimed, Claiming, Observed, Recheck, Test, Goto,
                  filesVars
    <2>3. Emptied' /\ (Tidy => Tidy')
      BY <1>2 DEF Removing, TypeOK, Emptied, Emptying, SaysGone, CreatedGone, Tidy,
                  Unbundled, Finished, Clean, ContentsGone, NoSealFiles, Recheck, Test,
                  Goto, filesVars
    <2> QED BY <2>1, <2>2, <2>3 DEF Removing
  <1> QED BY <1>1, <1>2

LEMMA MarkProgressSafe ==
    ASSUME TypeOK, Removing, NEW c \in Cleaners, MarkProgress(c)
    PROVE  Removing' /\ (Tidy => Tidy')
  <1>1. CASE Reject(c)
    BY <1>1, RejectSafe
  <1>2. CASE ~Reject(c)
    <2>1. Receipts' /\ StepOfPhase' /\ Passed'
      BY <1>2, OrderCovers
         DEF Removing, TypeOK, Receipts, StepOfPhase, Passed, MarkProgress, Test, Goto,
             filesVars, Phases
    <2>2. Unclaimed' /\ Observed'
      BY <1>2 DEF Removing, TypeOK, Unclaimed, Claiming, Observed, MarkProgress, Test,
                  Goto, filesVars
    <2>3. Emptied' /\ (Tidy => Tidy')
      BY <1>2 DEF Removing, TypeOK, StepOfPhase, Emptied, Emptying, SaysGone, CreatedGone,
                  Tidy, Unbundled, Finished, Clean, ContentsGone, NoSealFiles,
                  MarkProgress, Test, Goto, filesVars
    <2> QED BY <2>1, <2>2, <2>3 DEF Removing
  <1> QED BY <1>1, <1>2

LEMMA CheckAbsentSafe ==
    ASSUME TypeOK, Removing, NEW c \in Cleaners, CheckAbsent(c)
    PROVE  Removing' /\ (Tidy => Tidy')
  <1>1. CASE Reject(c)
    BY <1>1, RejectSafe
  <1>2. CASE ~Reject(c)
    <2>1. Receipts' /\ StepOfPhase' /\ Passed'
      BY <1>2, OrderCovers
         DEF Removing, TypeOK, Receipts, StepOfPhase, Passed, CheckAbsent, Test, Goto,
             filesVars, Phases
    <2>2. Unclaimed'
      BY <1>2 DEF Removing, TypeOK, Unclaimed, Claiming, CheckAbsent, Test, Goto, filesVars
    <2>4. Observed'
      BY <1>2 DEF Removing, TypeOK, Observed, CheckAbsent, Test, Goto, filesVars
    <2>3. Emptied' /\ (Tidy => Tidy')
      BY <1>2 DEF Removing, TypeOK, Emptied, Emptying, SaysGone, CreatedGone, Tidy,
                  Unbundled, Finished, Clean, ContentsGone, NoSealFiles, CheckAbsent,
                  Test, Goto, filesVars
    <2> QED BY <2>1, <2>2, <2>3, <2>4 DEF Removing
  <1> QED BY <1>1, <1>2

(***************************************************************************)
(* The steps that write and rename receipts.                               *)
(***************************************************************************)
\* The next receipt is created torn, in a phase in which what it will say is
\* already true.
LEMMA CreateFileSafe ==
    ASSUME TypeOK, Removing, NEW c \in Cleaners, CreateFile(c)
    PROVE  Removing' /\ (Tidy => Tidy')
  <1>1. CASE Reject(c)
    BY <1>1, RejectSafe
  <1>2. CASE Test(c, TRUE, "replace") /\ ~Reject(c) /\ phase[c] # "absent"
    <2>0. pc[c] = "create"
      BY DEF CreateFile
    <2>1. Receipts' /\ StepOfPhase' /\ Passed'
      BY <1>2, <2>0, OrderCovers
         DEF Removing, TypeOK, Receipts, StepOfPhase, Passed, Test, Goto, filesVars, Phases
    <2>2. Unclaimed' /\ Observed'
      BY <1>2, <2>0 DEF Removing, TypeOK, Unclaimed, Claiming, Observed, Test, Goto,
                        filesVars
    <2>3. Emptied' /\ (Tidy => Tidy')
      BY <1>2, <2>0 DEF Removing, TypeOK, Emptied, Emptying, SaysGone, CreatedGone, Tidy,
                        Unbundled, Finished, Clean, ContentsGone, NoSealFiles, Test, Goto,
                        filesVars
    <2> QED BY <2>1, <2>2, <2>3 DEF Removing
  <1>3. CASE /\ file[Target(phase[c])] = Absent
             /\ file' = [file EXCEPT ![Target(phase[c])] = Torn(Successor[phase[c]], c)]
             /\ Goto(c, "write")
             /\ UNCHANGED << filesVars, loaded, phase, seen, anchored, at, holds, result,
                             cleaned, faults, crashes >>
    <2>0. pc[c] = "create" /\ phase[c] \in {"absent", "claimed", "contents_removed"}
      BY DEF CreateFile, TypeOK, Phases, Removing, StepOfPhase
    <2>1. StepOfPhase' /\ Observed' /\ Passed'
      BY <1>3, <2>0, OrderCovers
         DEF Removing, TypeOK, StepOfPhase, Observed, Passed, Goto, filesVars
    <2>2. CASE phase[c] = "absent"
      <3>1. /\ file["ledger"] = Absent
            /\ file' = [file EXCEPT !["ledger"] = Torn("claimed", c)]
        BY <1>3, <2>2, ReceiptOf
      <3>2. file'["ledger"] = Torn("claimed", c) /\ file'["ledger"].phase = "claimed"
        BY <3>1 DEF TypeOK, Names, Torn
      <3>3. Receipts'
        BY <3>1, <3>2 DEF Removing, TypeOK, Receipts, Names
      <3>4. Unclaimed'
        <4>1. file["ledger"].phase = "absent"
          BY <3>1 DEF Absent
        <4>2. ASSUME NEW d \in Cleaners, d # c PROVE ~Claiming(d)'
          <5>1. ~Claiming(d)
            BY <3>1, <4>1 DEF Removing, Unclaimed, Torn
          <5> QED BY <1>3, <4>2, <5>1 DEF TypeOK, Claiming, Goto
        <4> QED BY <1>3, <3>2, <4>1, <4>2 DEF Removing, Unclaimed, filesVars
      <3>5. Emptied' /\ (Tidy => Tidy')
        BY <1>3, <3>1, <3>2, <2>2
           DEF Removing, TypeOK, Emptied, Emptying, SaysGone, CreatedGone, Tidy,
               Unbundled, Finished, Clean, ContentsGone, NoSealFiles, Goto, filesVars,
               Names
      <3> QED BY <2>1, <3>3, <3>4, <3>5 DEF Removing
    <2>3. CASE phase[c] # "absent"
      <3>1. PICK n \in {"contents_tmp", "complete_tmp"} :
                /\ file' = [file EXCEPT ![n] = Torn(Successor[phase[c]], c)]
                /\ n = "contents_tmp" => /\ phase[c] = "claimed"
                                         /\ Successor[phase[c]] = "contents_removed"
                /\ n = "complete_tmp" => /\ phase[c] = "contents_removed"
                                         /\ Successor[phase[c]] = "complete"
        BY <1>3, <2>0, <2>3, ReceiptOf
      <3>2. /\ \A m \in Names \ {n} : file'[m] = file[m]
            /\ file'[n].phase = Successor[phase[c]]
        BY <3>1 DEF TypeOK, Names, Torn
      <3>3. Receipts'
        BY <3>1, <3>2 DEF Removing, Receipts, Names
      <3>4. Unclaimed'
        BY <1>3, <2>3, <3>1, <3>2
           DEF Removing, TypeOK, Unclaimed, Claiming, Goto, filesVars, Names
      <3>5. Emptying(c)
        BY <2>0, <2>3 DEF Emptying
      <3>6. /\ pc'[c] = "write" /\ \A d \in Cleaners \ {c} : pc'[d] = pc[d]
            /\ UNCHANGED << root, entries, registered, seal, phase, at, cleaned >>
            /\ file'["ledger"] = file["ledger"]
        BY <1>3, <3>1, <3>2 DEF Goto, filesVars, TypeOK, Names
      <3>7. Emptied'
        BY <2>0, <3>5, <3>6
           DEF Removing, Emptied, Emptying, SaysGone, CreatedGone
      <3>8. Tidy => Tidy'
        <4>1. Tidy => Unbundled'
          BY <2>0, <3>5, <3>6 DEF Tidy, Unbundled, Emptying, SaysGone
        <4>2. file'["complete_tmp"].phase # "absent" =>
                  file["complete_tmp"].phase # "absent" \/ phase[c] = "contents_removed"
          BY <3>1, <3>2 DEF Names
        <4>3. Clean' = Clean
          BY <3>6 DEF Clean, ContentsGone, NoSealFiles
        <4>4. Tidy => Finished'
          BY <2>0, <3>6, <4>2, <4>3 DEF Tidy, Finished
        <4> QED BY <4>1, <4>4 DEF Tidy
      <3> QED BY <2>1, <3>3, <3>4, <3>7, <3>8 DEF Removing
    <2> QED BY <2>2, <2>3
  <1> QED
    <2>1. phase[c] = "absent" => Target(phase[c]) = "ledger"
      BY ReceiptOf
    <2> QED BY <1>1, <1>2, <1>3, <2>1 DEF CreateFile, Test

\* A receipt that has been written says what it was created for; the claim is
\* on disk before the call goes on.
LEMMA WriteFileSafe ==
    ASSUME TypeOK, Removing, NEW c \in Cleaners, WriteFile(c)
    PROVE  Removing' /\ (Tidy => Tidy')
  <1>0. pc[c] = "write" /\ UNCHANGED << filesVars, seen, anchored, at, cleaned >>
    BY DEF WriteFile
  <1>1. /\ \A n \in Names : file'[n].phase = file[n].phase
        /\ \A n \in Names : file[n].writer # c => file'[n] = file[n]
    BY SettleKeeps DEF WriteFile, Writers
  <1>2. Receipts'
    <2>1. ASSUME NEW n \in Names, file'[n].phase = "absent" PROVE file'[n] = Absent
      <3>1. file[n] = Absent
        BY <1>1, <2>1 DEF Removing, Receipts
      <3> QED BY <3>1, <1>1, CleanupAssumption DEF Absent
    <2> QED BY <1>1, <2>1 DEF Removing, Receipts, Names
  <1>3. StepOfPhase' /\ Passed'
    BY <1>0, OrderCovers
       DEF Removing, TypeOK, StepOfPhase, Passed, WriteFile, Goto, filesVars
  <1>4. Unclaimed'
    <2>1. \A d \in Cleaners : Claiming(d)' => Claiming(d) /\ d # c
      BY DEF TypeOK, Claiming, WriteFile, Goto
    <2>2. CASE phase[c] = "absent"
      <3>1. Claiming(c)
        BY <1>0, <2>2 DEF Claiming
      <3>2. \A d \in Cleaners : ~Claiming(d)'
        BY <2>1, <3>1, OneClaimer
      <3>3. file["ledger"] = Torn("claimed", c)
        BY <3>1 DEF Removing, Unclaimed
      <3>4. file'["ledger"].phase = "claimed"
        BY <1>1, <3>3 DEF Torn, Names
      <3> QED BY <3>2, <3>4 DEF Unclaimed
    <2>3. CASE phase[c] # "absent"
      <3>1. \A d \in Cleaners : ~Claiming(d)'
        BY <2>1, <2>3 DEF Removing, Unclaimed
      <3> QED BY <1>0, <1>1, <2>3, <3>1
              DEF Removing, Unclaimed, WriteFile, Names
    <2> QED BY <2>2, <2>3
  <1>5. Observed'
    <2>1. pc'[c] \in {"drop", "replace"} /\ \A d \in Cleaners \ {c} : pc'[d] = pc[d]
      BY DEF WriteFile, Goto, TypeOK
    <2> QED BY <1>0, <2>1 DEF Removing, Observed, filesVars
  <1>6. Emptied' /\ (Tidy => Tidy')
    <2>1. /\ \A d \in Cleaners : Emptying(d)' => Emptying(d)
          /\ SaysGone' = SaysGone
          /\ CreatedGone' = CreatedGone /\ Clean' = Clean
      BY <1>0, <1>1
         DEF TypeOK, Emptying, SaysGone, CreatedGone, Clean, ContentsGone, NoSealFiles,
             WriteFile, Goto, filesVars, Names
    <2>2. Emptied'
      BY <2>1 DEF Removing, Emptied
    <2>3. Tidy => Unbundled'
      BY <1>0, <2>1 DEF Tidy, Unbundled, filesVars
    <2>4. Tidy => Finished'
      BY <1>0, <1>1, <2>1 DEF TypeOK, Tidy, Finished, WriteFile, Goto, filesVars, Names
    <2> QED BY <2>2, <2>3, <2>4 DEF Tidy
  <1> QED BY <1>2, <1>3, <1>4, <1>5, <1>6 DEF Removing

\* The rename puts a receipt into the ledger that was true when it was created
\* and has stayed so, whoever created it.
LEMMA ReplaceLedgerSafe ==
    ASSUME TypeOK, Removing, NEW c \in Cleaners, ReplaceLedger(c)
    PROVE  Removing' /\ (Tidy => Tidy')
  <1>1. CASE Reject(c)
    BY <1>1, RejectSafe
  <1>2. CASE ~Reject(c)
    <2>1. pc[c] = "replace" /\ phase[c] \in {"claimed", "contents_removed"}
      BY DEF ReplaceLedger, TypeOK, Phases, Removing, StepOfPhase
    <2>2. \A d \in Cleaners : ~Claiming(d)
      BY <2>1 DEF Removing, Unclaimed
    <2>3. CASE phase[c] = "claimed"
      <3>1. /\ file["contents_tmp"] # Absent
            /\ file' = [file EXCEPT !["ledger"] = file["contents_tmp"],
                                    !["contents_tmp"] = Absent]
            /\ pc' = [pc EXCEPT ![c] = "claim"]
            /\ phase' = [phase EXCEPT ![c] = "contents_removed"]
            /\ UNCHANGED << filesVars, seen, anchored, at, cleaned >>
        BY <1>2, <2>3, ReceiptOf DEF ReplaceLedger, AfterReplace, Goto
      <3>2. /\ file["contents_tmp"].phase = "contents_removed" /\ CreatedGone
            /\ Tidy => "bundle" \notin entries
        BY <3>1 DEF Removing, Receipts, Names, Emptied, SaysGone, Tidy, Unbundled
      <3>3. /\ file'["ledger"].phase = "contents_removed"
            /\ file'["contents_tmp"] = Absent /\ file'["contents_tmp"].phase = "absent"
            /\ file'["complete_tmp"] = file["complete_tmp"]
        BY <3>1, <3>2 DEF TypeOK, Names, Absent
      <3>4. Receipts'
        BY <3>3 DEF Removing, Receipts, Names
      <3>5. StepOfPhase' /\ Observed' /\ Passed'
        BY <2>1, <3>1, OrderCovers
           DEF Removing, TypeOK, StepOfPhase, Observed, Passed, filesVars
      <3>6. Unclaimed'
        BY <2>2, <3>1, <3>3 DEF TypeOK, Unclaimed, Claiming
      <3>7. Emptied' /\ (Tidy => Tidy')
        BY <3>1, <3>2, <3>3 DEF Removing, TypeOK, Emptied, Emptying, SaysGone,
                                CreatedGone, Tidy, Unbundled, Finished, Clean,
                                ContentsGone, NoSealFiles, filesVars
      <3> QED BY <3>4, <3>5, <3>6, <3>7 DEF Removing
    <2>4. CASE phase[c] = "contents_removed"
      <3>1. /\ file["complete_tmp"] # Absent
            /\ file' = [file EXCEPT !["ledger"] = file["complete_tmp"],
                                    !["complete_tmp"] = Absent]
            /\ Leave(c)
        BY <1>2, <2>4, ReceiptOf DEF ReplaceLedger, AfterReplace, Return
      <3>2. /\ file["complete_tmp"].phase = "complete" /\ CreatedGone
            /\ Tidy => Clean
        BY <3>1 DEF Removing, Receipts, Names, Emptied, SaysGone, Tidy, Finished
      <3>3. /\ file'["ledger"].phase = "complete"
            /\ file'["complete_tmp"] = Absent /\ file'["complete_tmp"].phase = "absent"
            /\ file'["contents_tmp"] = file["contents_tmp"]
        BY <3>1, <3>2 DEF TypeOK, Names, Absent
      <3>4. Receipts'
        BY <3>3 DEF Removing, Receipts, Names
      <3>5. StepOfPhase' /\ Observed' /\ Passed'
        BY <3>1, OrderCovers
           DEF Removing, TypeOK, StepOfPhase, Observed, Passed, Leave, Goto
      <3>6. Unclaimed'
        BY <2>2, <3>1, <3>3 DEF TypeOK, Unclaimed, Claiming, Leave, Goto
      <3>7. CreatedGone' /\ (Clean => Clean')
        BY <3>1, <3>2 DEF Leave, CreatedGone, ContentsGone, Clean, NoSealFiles
      <3>8. Emptied'
        BY <3>7 DEF Emptied
      <3>9. Tidy => Finished'
        BY <3>1, <3>2, <3>7 DEF TypeOK, Tidy, Finished, Leave, Goto
      <3>10. Tidy => Unbundled'
        BY <3>1, <3>2, CreatedOrBundle DEF TypeOK, Unbundled, Leave
      <3> QED BY <3>4, <3>5, <3>6, <3>8, <3>9, <3>10 DEF Removing, Tidy
    <2> QED BY <2>1, <2>3, <2>4
  <1> QED BY <1>1, <1>2

(***************************************************************************)
(* The steps that remove something.                                        *)
(***************************************************************************)
\* What is gone stays gone.
LEMMA GoneStays ==
    ASSUME entries' \subseteq entries, registered' => registered,
           root' => root, UNCHANGED seal, Stray \in entries => Stray \in entries'
    PROVE  /\ CreatedGone => CreatedGone'
           /\ Clean => Clean'
  BY DEF CreatedGone, ContentsGone, Clean, NoSealFiles

\* The worktree goes with its registration.
LEMMA DropWorktreeSafe ==
    ASSUME TypeOK, Removing, NEW c \in Cleaners, DropWorktree(c)
    PROVE  Removing' /\ (Tidy => Tidy')
  <1>1. CASE Reject(c)
    BY <1>1, RejectSafe
  <1>2. CASE ~Reject(c)
    <2>1. /\ pc[c] = "drop" /\ phase[c] \in {"claimed", "contents_removed"}
          /\ registered => seen[c]
          /\ root => anchored[c]
      BY DEF DropWorktree, TypeOK, Phases, Removing, StepOfPhase, Observed
    <2>2. /\ pc' = [pc EXCEPT ![c] = IF phase[c] = "claimed" THEN "remove"
                                     ELSE IF anchored[c] THEN "claim" ELSE "mark"]
          /\ entries' \in {entries, entries \ {"worktree"}}
          /\ UNCHANGED << root, seal, file, phase, seen, anchored, at, cleaned >>
      BY <1>2 DEF DropWorktree, Goto
    <2>3. ~registered'
      BY <1>2, <2>1 DEF DropWorktree, TypeOK, FilesTypeOK
    <2>4. (CreatedGone => CreatedGone') /\ (Clean => Clean')
      BY <2>2, <2>3, GoneStays DEF Stray
    <2>5. /\ \A d \in Cleaners \ {c} : pc'[d] = pc[d]
          /\ pc'[c] \in {"remove", "claim", "mark"}
          /\ pc'[c] = "mark" => phase[c] = "contents_removed" /\ ~anchored[c]
      BY <2>1, <2>2 DEF TypeOK
    <2>6. Receipts' /\ StepOfPhase'
      BY <2>1, <2>2 DEF Removing, TypeOK, Receipts, StepOfPhase
    <2>7. Unclaimed'
      <3>1. (\E d \in Cleaners : Claiming(d)') => (\E d \in Cleaners : Claiming(d))
        BY <2>1, <2>2 DEF TypeOK, Claiming
      <3>2. Required \subseteq entries => Required \subseteq entries'
        BY <2>2 DEF Required
      <3>3. file["ledger"].phase # "absent" /\ \A d \in Cleaners : ~Claiming(d)
        BY <2>1 DEF Removing, Unclaimed
      <3> QED BY <2>2, <3>1, <3>3 DEF Unclaimed
    <2>8. Observed'
      BY <2>1, <2>2, <2>3 DEF Removing, TypeOK, Observed
    <2>9. Passed'
      BY <2>2 DEF Removing, Passed
    <2>10. Emptied'
      BY <2>2, <2>4, <2>5 DEF Removing, Emptied, Emptying, SaysGone
    <2>11. Tidy => Finished'
      <3>1. Tidy /\ ~anchored[c] => Clean'
        BY <2>1, <2>4 DEF Tidy, Finished
      <3> QED BY <2>1, <2>2, <2>4, <2>5, <3>1 DEF Tidy, Finished
    <2>12. Tidy => Unbundled'
      BY <2>2, <2>5 DEF Tidy, Unbundled, Emptying, SaysGone
    <2> QED BY <2>6, <2>7, <2>8, <2>9, <2>10, <2>11, <2>12 DEF Removing, Tidy
  <1> QED BY <1>1, <1>2

\* The removal goes through every recorded entry.
LEMMA RemoveOwnedSafe ==
    ASSUME TypeOK, Removing, NEW c \in Cleaners, RemoveOwned(c)
    PROVE  Removing' /\ (Tidy => Tidy')
  <1>1. CASE Reject(c)
    BY <1>1, RejectSafe
  <1>2. CASE ~Reject(c)
    <2>1. /\ pc[c] = "remove" /\ phase[c] = "claimed" /\ at[c] \in 1..6 /\ ~registered
          /\ entries' = entries \ RemovalOrder[at[c]]
          /\ UNCHANGED << root, registered, seal, file, phase, seen, anchored, cleaned >>
      BY <1>2, OrderCovers
         DEF RemoveOwned, TypeOK, Phases, Removing, StepOfPhase, Observed
    <2>2. /\ at[c] = 6 => pc' = [pc EXCEPT ![c] = "mark"] /\ UNCHANGED at
          /\ at[c] # 6 => at' = [at EXCEPT ![c] = @ + 1] /\ UNCHANGED pc
      BY <1>2, OrderCovers DEF RemoveOwned, Goto
    <2>3. (CreatedGone => CreatedGone') /\ (Clean => Clean')
      BY <2>1, GoneStays, OrderCovers
    <2>4. \A i \in 1..6 : i <= at[c] => entries' \cap Created \cap RemovalOrder[i] = {}
      BY <2>1, OrderCovers DEF Removing, Passed
    <2>5. at[c] = 6 => CreatedGone'
      BY <2>1, <2>4, OrderCovers DEF CreatedGone, Created
    <2>6. Receipts' /\ StepOfPhase' /\ Observed'
      BY <2>1, <2>2 DEF Removing, TypeOK, Receipts, StepOfPhase, Observed
    <2>7. Unclaimed'
      <3>1. file["ledger"].phase # "absent" /\ \A d \in Cleaners : ~Claiming(d)
        BY <2>1 DEF Removing, Unclaimed
      <3> QED BY <2>1, <2>2, <3>1 DEF TypeOK, Unclaimed, Claiming
    <2>8. Passed'
      <3>1. ASSUME NEW d \in Cleaners, NEW i \in 1..6, i < at'[d]
            PROVE  entries' \cap Created \cap RemovalOrder[i] = {}
        <4>1. CASE d = c
          BY <2>1, <2>2, <2>4, <3>1, <4>1 DEF TypeOK
        <4>2. CASE d # c
          BY <2>1, <2>2, <3>1, <4>2, OrderCovers DEF TypeOK, Removing, Passed
        <4> QED BY <4>1, <4>2
      <3> QED BY <3>1, OrderCovers DEF Passed
    <2>9. Emptied'
      BY <2>1, <2>2, <2>3, <2>5 DEF Removing, TypeOK, Emptied, Emptying, SaysGone
    <2>10. Tidy => Finished'
      BY <2>1, <2>2, <2>3 DEF TypeOK, Tidy, Finished
    <2>11. Tidy => Unbundled'
      <3>1. Tidy /\ at[c] \in {5, 6} => "bundle" \notin entries
        BY DEF Tidy, Unbundled
      <3>2. at[c] = 4 => "bundle" \notin entries'
        BY <2>1, OrderCovers
      <3>3. at'[c] \in {at[c], at[c] + 1} /\ \A d \in Cleaners \ {c} :
                at'[d] = at[d] /\ pc'[d] = pc[d]
        BY <2>2 DEF TypeOK
      <3>4. Tidy /\ at'[c] > 4 => "bundle" \notin entries'
        BY <2>1, <3>1, <3>2, <3>3
      <3>5. Emptying(c)' => at'[c] > 4
        BY <2>1, <2>2 DEF Emptying, TypeOK
      <3>6. ASSUME Tidy, NEW d \in Cleaners, at'[d] > 4 \/ Emptying(d)'
            PROVE  "bundle" \notin entries'
        BY <2>1, <3>3, <3>4, <3>5, <3>6 DEF Tidy, Unbundled, Emptying
      <3>7. Tidy /\ SaysGone' => "bundle" \notin entries'
        BY <2>1 DEF Tidy, Unbundled, SaysGone
      <3> QED BY <3>6, <3>7 DEF Unbundled
    <2> QED BY <2>6, <2>7, <2>8, <2>9, <2>10, <2>11 DEF Removing, Tidy
  <1> QED BY <1>1, <1>2

\* Locking a seal receipt changes no file; a missing one has already been dealt
\* with.
LEMMA LockSealFileSafe ==
    ASSUME TypeOK, Removing, NEW c \in Cleaners, NEW f \in SealFiles, LockSealFile(c, f)
    PROVE  Removing' /\ (Tidy => Tidy')
  <1>1. CASE Reject(c)
    BY <1>1, RejectSafe
  <1>2. CASE ~Reject(c)
    <2>1. /\ pc[c] = f /\ f \in {"claim", "final"}
          /\ UNCHANGED << root, entries, registered, seal, file, phase, seen, anchored, at,
                          cleaned >>
          /\ \/ seal[f] = NoInode /\ pc' = [pc EXCEPT ![c] = NextSealStep[f]]
             \/ pc' = [pc EXCEPT ![c] = UnlinkStep[f]]
      BY <1>2 DEF LockSealFile, Test, Goto, filesVars, SealFiles
    <2>2. phase[c] = "contents_removed"
      BY <2>1 DEF TypeOK, Phases, Removing, StepOfPhase
    <2>3. /\ pc'[c] \in {"final", "check", "unlink_claim", "unlink_final"}
          /\ pc'[c] = "final" => seal["claim"] = NoInode
          /\ pc'[c] = "unlink_final" => f = "final"
          /\ pc'[c] = "check" => f = "final" /\ seal["final"] = NoInode
          /\ \A d \in Cleaners \ {c} : pc'[d] = pc[d]
      BY <2>1 DEF TypeOK, NextSealStep, UnlinkStep
    <2>4. Receipts' /\ StepOfPhase' /\ Passed'
      BY <2>1, <2>2, <2>3 DEF Removing, Receipts, StepOfPhase, Passed
    <2>5. Unclaimed'
      BY <2>1, <2>3 DEF Removing, Unclaimed, Claiming
    <2>6. Observed'
      BY <2>1, <2>3 DEF Removing, Observed
    <2>7. Emptied' /\ (Tidy => Unbundled')
      BY <2>1, <2>2, <2>3
         DEF Removing, Emptied, Emptying, SaysGone, CreatedGone, Tidy, Unbundled
    <2>8. Tidy => Finished'
      BY <2>1, <2>2, <2>3 DEF Tidy, Finished, Clean, ContentsGone, NoSealFiles
    <2> QED BY <2>4, <2>5, <2>6, <2>7, <2>8 DEF Removing, Tidy
  <1> QED BY <1>1, <1>2

LEMMA UnlinkSealFileSafe ==
    ASSUME TypeOK, Removing, NEW c \in Cleaners, NEW f \in SealFiles, UnlinkSealFile(c, f)
    PROVE  Removing' /\ (Tidy => Tidy')
  <1>1. CASE Reject(c)
    BY <1>1, RejectSafe
  <1>2. CASE ~Reject(c)
    <2>1. /\ pc[c] = UnlinkStep[f] /\ f \in {"claim", "final"}
          /\ seal' = [seal EXCEPT ![f] = NoInode]
          /\ pc' = [pc EXCEPT ![c] = NextSealStep[f]]
          /\ UNCHANGED << root, entries, registered, file, phase, seen, anchored, at,
                          cleaned >>
      BY <1>2 DEF UnlinkSealFile, Goto, SealFiles
    <2>2. pc[c] \in {"unlink_claim", "unlink_final"}
      BY <2>1 DEF UnlinkStep
    <2>3. phase[c] = "contents_removed"
      BY <2>2 DEF TypeOK, Phases, Removing, StepOfPhase
    <2>4. /\ seal'[f] = NoInode
          /\ \A g \in SealFiles : seal[g] = NoInode => seal'[g] = NoInode
          /\ pc'[c] \in {"final", "check"}
          /\ pc'[c] = "final" => f = "claim"
          /\ pc'[c] = "check" => f = "final" /\ pc[c] = "unlink_final"
          /\ \A d \in Cleaners \ {c} : pc'[d] = pc[d]
      BY <2>1 DEF TypeOK, FilesTypeOK, SealFiles, NextSealStep, UnlinkStep
    <2>5. (CreatedGone => CreatedGone') /\ (Clean => Clean')
      BY <2>1, <2>4 DEF CreatedGone, ContentsGone, Clean, NoSealFiles
    <2>6. Receipts' /\ StepOfPhase' /\ Passed'
      BY <2>1, <2>3, <2>4 DEF Removing, Receipts, StepOfPhase, Passed
    <2>7. Unclaimed'
      BY <2>1, <2>4 DEF Removing, Unclaimed, Claiming
    <2>8. Observed'
      BY <2>1, <2>2, <2>4 DEF Removing, Observed, UnlinkStep
    <2>9. Emptied' /\ (Tidy => Unbundled')
      BY <2>1, <2>3, <2>4, <2>5
         DEF Removing, Emptied, Emptying, SaysGone, Tidy, Unbundled
    <2>10. Tidy => Finished'
      BY <2>1, <2>3, <2>4, <2>5 DEF Tidy, Finished, SealFiles
    <2> QED BY <2>6, <2>7, <2>8, <2>9, <2>10 DEF Removing, Tidy
  <1> QED BY <1>1, <1>2

\* Removing the root is the last thing that happens to the files.
LEMMA RemoveRootSafe ==
    ASSUME TypeOK, Removing, NEW c \in Cleaners, RemoveRoot(c)
    PROVE  Removing' /\ (Tidy => Tidy')
  <1>1. CASE Reject(c)
    BY <1>1, RejectSafe
  <1>2. CASE ~Reject(c)
    <2>1. /\ pc[c] = "rmdir" /\ root' = (entries # {})
          /\ pc' = [pc EXCEPT ![c] = "mark"]
          /\ UNCHANGED << entries, registered, seal, file, phase, seen, anchored, at,
                          cleaned >>
      BY <1>2 DEF RemoveRoot, Goto
    <2>2. phase[c] = "contents_removed" /\ Emptying(c) /\ CreatedGone
      BY <2>1 DEF TypeOK, Phases, Removing, StepOfPhase, Emptied, Emptying
    <2>3. Tidy => ContentsGone /\ NoSealFiles
      BY <2>1, <2>2, CreatedOrBundle DEF Tidy, Unbundled, Finished, NoSealFiles, SealFiles
    <2>4. Tidy => Clean'
      BY <2>1, <2>3 DEF TypeOK, FilesTypeOK, Clean, ContentsGone, NoSealFiles
    <2>5. root
      BY <1>2 DEF RemoveRoot
    <2>6. Receipts' /\ StepOfPhase' /\ Passed'
      BY <2>1, <2>2 DEF Removing, TypeOK, Receipts, StepOfPhase, Passed
    <2>7. Unclaimed'
      BY <2>1 DEF Removing, TypeOK, Unclaimed, Claiming
    <2>8. Observed'
      BY <2>1, <2>5 DEF Removing, TypeOK, Observed
    <2>9. Emptied'
      BY <2>1, <2>2 DEF Removing, Emptied, CreatedGone
    <2>10. Tidy => Unbundled'
      BY <2>1, <2>2 DEF TypeOK, Tidy, Unbundled, Emptying, SaysGone
    <2>11. Tidy => Finished'
      BY <2>1, <2>4 DEF TypeOK, Tidy, Finished
    <2> QED BY <2>6, <2>7, <2>8, <2>9, <2>10, <2>11 DEF Removing, Tidy
  <1> QED BY <1>1, <1>2

(***************************************************************************)
(* The theorems.                                                           *)
(***************************************************************************)
LEMMA CleanupSafe ==
    ASSUME TypeOK, Removing, CleanupNext
    PROVE  Removing' /\ (Tidy => Tidy')
  BY BeginSafe, ReadLedgerSafe, OpenRootSafe, GitProbeSafe, RecheckSafe, CreateFileSafe,
     WriteFileSafe, ReplaceLedgerSafe, DropWorktreeSafe, RemoveOwnedSafe, MarkProgressSafe,
     LockSealFileSafe, UnlinkSealFileSafe, CheckAbsentSafe, RemoveRootSafe, FaultSafe,
     CrashSafe
     DEF CleanupNext, Call

\* Nothing changes that the removal is about.
LEMMA RemovingStays ==
    ASSUME Removing, UNCHANGED << root, registered, cleanupVars >>,
           entries' \cap Created = entries \cap Created
    PROVE  Removing'
  <1>1. UNCHANGED << file, pc, phase, seen, anchored, at >>
    BY DEF cleanupVars, localVars
  <1>2. Required \subseteq entries => Required \subseteq entries'
    BY RequiredIsCreated
  <1>3. Receipts' /\ StepOfPhase' /\ Observed' /\ Passed'
    BY <1>1 DEF Removing, Receipts, StepOfPhase, Observed, Passed
  <1>4. Unclaimed'
    BY <1>1, <1>2 DEF Removing, Unclaimed, Claiming
  <1>5. Emptied'
    BY <1>1 DEF Removing, Emptied, Emptying, SaysGone, CreatedGone
  <1> QED BY <1>3, <1>4, <1>5 DEF Removing

LEMMA SafeStep == IInv /\ [Next]_vars => IInv'
  <1> SUFFICES ASSUME IInv, [Next]_vars
               PROVE  Removing' /\ Tidy'
    BY TypeStep DEF IInv
  <1>1. ASSUME UNCHANGED << root, entries, registered, seal, cleanupVars >>
        PROVE  Removing' /\ Tidy'
    <2>1. Removing'
      BY <1>1, RemovingStays DEF IInv
    <2>2. UNCHANGED << file, pc, phase, at, cleaned >>
      BY <1>1 DEF cleanupVars, localVars
    <2>3. Tidy'
      BY <1>1, <2>2 DEF IInv, Tidy, Unbundled, Emptying, SaysGone, Finished, Clean,
                        ContentsGone, NoSealFiles
    <2> QED BY <2>1, <2>3
  <1>2. CASE UNCHANGED vars
    BY <1>1, <1>2 DEF vars, filesVars
  <1>3. CASE SealerStops
    BY <1>1, <1>3 DEF SealerStops
  <1>4. CASE CleanupNext
    BY <1>4, CleanupSafe DEF IInv
  <1> QED BY <1>2, <1>3, <1>4 DEF Next

LEMMA RemovingBegins ==
    ASSUME InitCleanup, Required \subseteq entries
    PROVE  Removing
  <1>1. Receipts /\ StepOfPhase /\ Observed /\ Passed
    BY OrderCovers DEF InitCleanup, Receipts, StepOfPhase, Observed, Passed, Absent, Names
  <1>2. Unclaimed
    BY DEF InitCleanup, Unclaimed, Claiming
  <1>3. Emptied
    BY DEF InitCleanup, Emptied, Emptying, SaysGone, Absent, Names
  <1> QED BY <1>1, <1>2, <1>3 DEF Removing

LEMMA SafeInit == Init => IInv
  <1> SUFFICES ASSUME Init PROVE IInv
    OBVIOUS
  <1>1. TypeOK
    BY TypeInit
  <1>2. InitCleanup /\ Required \subseteq entries /\ root
    BY DEF Init, InitFiles
  <1>3. Removing
    BY <1>2, RemovingBegins
  <1>4. Unbundled /\ Finished
    BY <1>2, OrderCovers
       DEF InitCleanup, Unbundled, Emptying, SaysGone, Finished, Absent, Names
  <1> QED BY <1>1, <1>3, <1>4 DEF IInv, Tidy

LEMMA Invariance == Spec => []IInv
  BY SafeInit, SafeStep, PTL DEF Spec

\* Nothing that a user of the invocation relies on is missing before the
\* consumption claim is on disk, whatever the calls overlap with and wherever
\* they fail: a partial layout can always be told from a damaged one.
THEOREM ClaimComesFirst == Spec => []ClaimBeforeDelete
  <1>1. IInv => ClaimBeforeDelete
    BY DEF IInv, Removing, Unclaimed, ClaimBeforeDelete, Absent
  <1> QED BY <1>1, Invariance, PTL

\* A ledger that says contents_removed or complete is true, although the ledger
\* may be written by several calls and may even fall back a phase.
THEOREM LedgerIsTrue == Spec => []RemovedMeansGone
  <1>1. IInv => RemovedMeansGone
    <2> SUFFICES ASSUME IInv, Rank[file["ledger"].phase] >= 2 PROVE ContentsGone
      BY DEF RemovedMeansGone
    <2>1. file["ledger"].phase \in Phases
      BY DEF IInv, TypeOK, Names
    <2>2. Rank["absent"] = 0 /\ Rank["claimed"] = 1
      BY DEF Rank, Phases
    <2>3. file["ledger"].phase \in {"contents_removed", "complete"}
      BY <2>1, <2>2 DEF Phases
    <2> QED BY <2>3, CreatedOrBundle
            DEF IInv, Removing, Emptied, SaysGone, Tidy, Unbundled
  <1> QED BY <1>1, Invariance, PTL

\* Once a call has reported "cleaned", or the ledger says complete, nothing of
\* the invocation is left, and the root only for what is not the invocation's.
THEOREM CompleteIsClean == Spec => []CompleteMeansClean
  <1>1. IInv => CompleteMeansClean
    BY DEF IInv, Tidy, Finished, Clean, CompleteMeansClean
  <1> QED BY <1>1, Invariance, PTL
================================================================================
