---------------------------- MODULE InvocationProofs ---------------------------
(***************************************************************************)
(* What one invocation promises when sealers and a reader use it while     *)
(* cleanups consume it: for any number of processes, faults and crashes on *)
(* either side.  That it is consumed once, in the steps of Consumption,    *)
(* takes cleanups that do not overlap; nothing else here does.             *)
(***************************************************************************)
EXTENDS Invocation, CleanupProofs, SealProofs

(***************************************************************************)
(* The consumption, by cleanups that do not overlap.  Sealers bring bundles *)
(* into the root at any time, so that nothing is said of the bundle.       *)
(***************************************************************************)
Lone == \A c, d \in Cleaners : pc[c] # "idle" /\ pc[d] # "idle" => c = d

\* The ledger is not there, or was never finished.
Unledgered == file["ledger"] = Absent \/ file["ledger"].writer # Nobody

\* Where a call stands, and what it knows of the files.
CallStands(c) ==
    /\ pc[c] = "idle" => phase[c] = "absent" /\ at[c] = 1
    /\ phase[c] # "complete"
    /\ phase[c] = "absent" => pc[c] \in {"idle", "ledger", "root", "probe", "recheck",
                                         "create", "write"}
    /\ phase[c] = "claimed" => pc[c] \in {"root", "probe", "recheck", "drop", "remove",
                                          "mark", "create", "write", "replace"}
    /\ phase[c] = "contents_removed" => pc[c] \notin {"idle", "ledger", "remove"}

CallKnows(c) ==
    /\ pc[c] = "write" => file[Target(phase[c])] = Torn(Successor[phase[c]], c)
    /\ pc[c] = "replace" => file[Target(phase[c])] = Full(Successor[phase[c]])
    /\ phase[c] # "absent" => file["ledger"] = Full(phase[c])
    /\ phase[c] = "absent" /\ pc[c] \notin {"idle", "ledger", "write"} =>
           file["ledger"] = Absent

\* What it has seen of the registration, and what it has removed.
CallRemoved(c) ==
    /\ pc[c] \notin {"idle", "ledger", "root", "probe"} => (registered => seen[c])
    /\ pc[c] = "remove" => ~registered
    /\ \A i \in 1..Len(RemovalOrder) : i < at[c] =>
           entries \cap Created \cap RemovalOrder[i] = {}
    /\ phase[c] = "claimed" /\ pc[c] \in {"mark", "create", "write", "replace"} =>
           CreatedGone

\* Only the call at its write has a file in hand.  Nothing is missing before the
\* ledger is finished, nothing is left once it says so, and a call that reported
\* "cleaned" left a complete ledger.
LedgerStands ==
    /\ Receipts
    /\ \A n \in Names : \A c \in Cleaners :
           file[n].writer = c => pc[c] = "write" /\ n = Target(phase[c])
    /\ Unledgered => Required \subseteq entries
    /\ file["ledger"].phase \in {"contents_removed", "complete"} => CreatedGone
    /\ cleaned <= 1
    /\ cleaned > 0 => file["ledger"] = Full("complete")

Consuming ==
    /\ TypeOK /\ Lone /\ LedgerStands
    /\ \A c \in Cleaners : CallStands(c) /\ CallKnows(c) /\ CallRemoved(c)

(***************************************************************************)
(* The sealing beside it.                                                  *)
(***************************************************************************)
\* s has validated the layout with the claim its own: nothing but a fault keeps
\* it from its rename.
Binding(s) == \/ spc[s] \in {"make_final", "rename"}
              \/ spc[s] = "stat" /\ seal["claim"] = ClaimOf(s)

\* A result can still be sealed.
Sealable == LayoutValid \/ \E s \in Sealers : Binding(s)

LockHeld == \A s \in Sealers : Claimed(s) => ClaimOf(s) \in held

\* No receipt is final, and none will be.
Spent == ~Sealable /\ \A f \in SealFiles : seal[f] = NoInode \/ ~IsFinal(seal[f])

\* How far a cleanup has come with the seal receipts.
CallSpends(c) ==
    /\ pc[c] \notin {"unlink_claim", "unlink_final"} => holds[c] = NoInode
    /\ pc[c] \in {"claim", "unlink_claim", "final", "unlink_final", "check", "rmdir"} =>
           phase[c] = "contents_removed"
    /\ pc[c] \notin {"idle", "ledger", "root"} => (root => anchored[c])
    /\ pc[c] \in {"unlink_claim", "final", "unlink_final"} => ~Sealable
    /\ pc[c] \in {"final", "unlink_final"} =>
           seal["claim"] = NoInode \/ ~IsFinal(seal["claim"])
    /\ pc[c] \in {"check", "rmdir"} => Spent
    /\ phase[c] = "contents_removed" /\ pc[c] \in {"mark", "create", "write", "replace"} =>
           Spent

Spending ==
    /\ \A c \in Cleaners : CallSpends(c)
    /\ ~root => Spent
    /\ file["complete_tmp"].phase # "absent" => Spent
    /\ file["ledger"].phase = "complete" => Spent
    /\ cleaned > 0 => Spent

SealingBeside ==
    /\ SealTypeOK
    /\ \A s \in Sealers : spc[s] = "lock" => found[s] \in Inodes
    /\ ReadersOnlySealed
    /\ Sealable => Ownership /\ LockHeld

InvocationInvariant == TypeOK /\ Removing /\ SealingBeside /\ Spending

(***************************************************************************)
(* The consumption: what a step of one cleanup has to show.                *)
(***************************************************************************)
\* The stage and the contents that Consumption speaks of.
Stage == IF file["ledger"].writer # Nobody \/ file["ledger"] = Absent
           THEN "active" ELSE file["ledger"].phase
Goods == (entries \cap Created) \cup (IF registered THEN {"registration"} ELSE {})

Moves ==
    \/ Stage' = Stage /\ Goods' = Goods
    \/ Stage = "active" /\ Stage' = "claimed" /\ Goods' = Goods
    \/ Stage = "claimed" /\ Stage' = Stage /\ Goods' \subseteq Goods
    \/ Stage = "claimed" /\ Goods = {} /\ Stage' = "contents_removed" /\ Goods' = Goods
    \/ Stage = "contents_removed" /\ Stage' = "complete" /\ Goods' = Goods

LEMMA MovesAreAllowed == Moves => [Consumed!ConsumptionNext]_<< Stage, Goods >>
  BY DEF Moves, Stage, Goods, Consumed!ConsumptionNext, Consumed!Claim, Consumed!Remove,
         Consumed!Empty, Consumed!Finish

OthersKept(c) == \A d \in Cleaners \ {c} :
    /\ pc'[d] = pc[d] /\ phase'[d] = phase[d] /\ seen'[d] = seen[d]
    /\ anchored'[d] = anchored[d] /\ at'[d] = at[d] /\ holds'[d] = holds[d]

CallKept(c) == CallStands(c)' /\ CallKnows(c)' /\ CallRemoved(c)'

\* A step that changes none of the files that the consumption is about.
LEMMA QuietStep ==
    ASSUME LedgerStands, NEW c \in Cleaners, pc[c] # "write", OthersKept(c),
           UNCHANGED << file, registered, cleaned >>,
           entries' \cap Created = entries \cap Created
    PROVE  LedgerStands' /\ Moves
  <1>1. Required \subseteq entries => Required \subseteq entries'
    BY RequiredIsCreated
  <1>2. CreatedGone => CreatedGone'
    BY DEF CreatedGone
  <1>3. \A n \in Names : \A d \in Cleaners :
            file[n].writer = d => pc'[d] = "write" /\ n = Target(phase'[d])
    BY DEF LedgerStands, OthersKept
  <1>4. LedgerStands'
    BY <1>1, <1>2, <1>3 DEF LedgerStands, Receipts, Unledgered
  <1>5. Moves
    BY DEF Moves, Stage, Goods
  <1> QED
    BY <1>4, <1>5

\* The call is over, and the files are as it found them.
LEMMA LeavingKeeps ==
    ASSUME Consuming, NEW c \in Cleaners, pc[c] # "write", Leave(c),
           UNCHANGED << file, cleaned >>
    PROVE  OthersKept(c) /\ CallKept(c) /\ LedgerStands' /\ Moves
  <1>1. TypeOK
    BY DEF Consuming
  <1>2. OthersKept(c)
    BY <1>1 DEF OthersKept, Leave, Goto, TypeOK
  <1>3. pc'[c] = "idle" /\ phase'[c] = "absent" /\ at'[c] = 1
    BY <1>1 DEF Leave, Goto, TypeOK
  <1>4. CallKept(c)
    BY <1>3 DEF CallKept, CallStands, CallKnows, CallRemoved
  <1>5. LedgerStands' /\ Moves
    BY <1>2, QuietStep DEF Leave, Consuming
  <1> QED
    BY <1>2, <1>4, <1>5

\* A test that succeeds only goes on.
Passes(c, step) ==
    /\ Goto(c, step)
    /\ UNCHANGED << filesVars, file, loaded, phase, seen, anchored, at, holds, result,
                    cleaned >>

LEMMA PassingKeeps ==
    ASSUME Consuming, NEW c \in Cleaners, pc[c] # "write", NEW step \in Steps,
           Passes(c, step)
    PROVE  OthersKept(c) /\ LedgerStands' /\ Moves /\ pc'[c] = step /\ phase'[c] = phase[c]
           /\ seen'[c] = seen[c] /\ at'[c] = at[c] /\ anchored'[c] = anchored[c]
           /\ UNCHANGED << file, entries, registered, root >>
  <1>1. OthersKept(c) /\ pc'[c] = step
    BY DEF OthersKept, Passes, Goto, Consuming, TypeOK
  <1>2. LedgerStands' /\ Moves
    BY <1>1, QuietStep DEF Passes, filesVars, Consuming
  <1> QED
    BY <1>1, <1>2 DEF Passes, filesVars

LEMMA TestSplits ==
    ASSUME NEW c, NEW ok, NEW step, Test(c, ok, step)
    PROVE  (ok /\ Passes(c, step)) \/ (~ok /\ Reject(c))
  BY DEF Test, Passes

LEMMA RejectingKeeps ==
    ASSUME Consuming, NEW c \in Cleaners, pc[c] # "write", Reject(c)
    PROVE  OthersKept(c) /\ CallKept(c) /\ LedgerStands' /\ Moves
  BY LeavingKeeps DEF Reject, Return

(***************************************************************************)
(* The consumption: the actions.                                           *)
(***************************************************************************)
LEMMA BeginConsumes ==
    ASSUME Consuming, NEW c \in Cleaners, Begin(c)
    PROVE  OthersKept(c) /\ CallKept(c) /\ LedgerStands' /\ Moves
  <1>1. /\ pc[c] = "idle" /\ pc' = [pc EXCEPT ![c] = "ledger"]
        /\ UNCHANGED << filesVars, file, phase, seen, anchored, at, holds, cleaned >>
    BY DEF Begin, Goto
  <1>2. OthersKept(c) /\ pc'[c] = "ledger"
    BY <1>1 DEF OthersKept, Consuming, TypeOK
  <1>3. CallStands(c) /\ CallKnows(c) /\ CallRemoved(c)
    BY DEF Consuming
  <1>4. CallKept(c)
    BY <1>1, <1>2, <1>3 DEF CallKept, CallStands, CallKnows, CallRemoved, filesVars
  <1> QED
    BY <1>1, <1>2, <1>4, QuietStep DEF filesVars, Consuming

LEMMA ReadLedgerConsumes ==
    ASSUME Consuming, NEW c \in Cleaners, ReadLedger(c)
    PROVE  OthersKept(c) /\ CallKept(c) /\ LedgerStands' /\ Moves
  <1>1. pc[c] = "ledger"
    BY DEF ReadLedger
  <1>2. CASE Reject(c)
    BY <1>1, <1>2, RejectingKeeps
  <1>3. CASE Return(c, "already_consumed") /\ UNCHANGED << file, cleaned, faults, crashes >>
    BY <1>1, <1>3, LeavingKeeps DEF Return
  <1>4. CASE /\ file["ledger"].writer = Nobody
             /\ file["ledger"] # Full("complete")
             /\ phase' = [phase EXCEPT ![c] = file["ledger"].phase]
             /\ Goto(c, "root")
             /\ UNCHANGED << filesVars, file, loaded, seen, anchored, at, holds, result,
                             cleaned, faults, crashes >>
    <2>1. TypeOK /\ LedgerStands /\ CallRemoved(c) /\ CallStands(c)
      BY DEF Consuming
    <2>2. OthersKept(c) /\ pc'[c] = "root" /\ phase'[c] = file["ledger"].phase
      BY <1>4, <2>1 DEF OthersKept, Goto, TypeOK
    <2>3. file["ledger"] \in [phase : Phases, writer : Writers]
      BY <2>1 DEF TypeOK, Names
    <2>4. file["ledger"] = Full(file["ledger"].phase)
      BY <1>4, <2>3 DEF Full
    <2>5. file["ledger"].phase = "absent" => file["ledger"] = Absent
      BY <2>1 DEF LedgerStands, Receipts, Names
    <2>6. file["ledger"].phase \in {"absent", "claimed", "contents_removed"}
      BY <1>4, <2>3, <2>4 DEF Phases
    <2>7. at' = at /\ UNCHANGED << file, entries, registered >>
      BY <1>4 DEF filesVars
    <2>8. CallStands(c)' /\ CallKnows(c)'
      BY <2>2, <2>4, <2>5, <2>6, <2>7 DEF CallStands, CallKnows
    <2>9. CallRemoved(c)'
      BY <2>1, <2>2, <2>7 DEF CallRemoved
    <2>10. LedgerStands' /\ Moves
      BY <1>1, <1>4, <2>1, <2>2, QuietStep DEF filesVars
    <2> QED
      BY <2>2, <2>8, <2>9, <2>10 DEF CallKept
  <1> QED
    BY <1>2, <1>3, <1>4 DEF ReadLedger

LEMMA OpenRootConsumes ==
    ASSUME Consuming, NEW c \in Cleaners, OpenRoot(c)
    PROVE  OthersKept(c) /\ CallKept(c) /\ LedgerStands' /\ Moves
  <1>1. pc[c] = "root"
    BY DEF OpenRoot
  <1>2. CASE Reject(c)
    BY <1>1, <1>2, RejectingKeeps
  <1>3. CASE /\ anchored' = [anchored EXCEPT ![c] = root]
             /\ Goto(c, "probe")
             /\ UNCHANGED << filesVars, file, loaded, phase, seen, at, holds, result,
                             cleaned, faults, crashes >>
    <2>1. TypeOK /\ LedgerStands /\ CallStands(c) /\ CallKnows(c) /\ CallRemoved(c)
      BY DEF Consuming
    <2>2. OthersKept(c) /\ pc'[c] = "probe"
      BY <1>3, <2>1 DEF OthersKept, Goto, TypeOK
    <2>3. CallKept(c)
      BY <1>1, <1>3, <2>1, <2>2
         DEF CallKept, CallStands, CallKnows, CallRemoved, filesVars
    <2> QED
      BY <1>1, <1>3, <2>1, <2>2, <2>3, QuietStep DEF filesVars
  <1> QED
    BY <1>2, <1>3 DEF OpenRoot

LEMMA GitProbeConsumes ==
    ASSUME Consuming, NEW c \in Cleaners, GitProbe(c)
    PROVE  OthersKept(c) /\ CallKept(c) /\ LedgerStands' /\ Moves
  <1>1. /\ pc[c] = "probe" /\ seen' = [seen EXCEPT ![c] = registered] /\ Goto(c, "recheck")
        /\ UNCHANGED << filesVars, file, phase, anchored, at, holds, cleaned >>
    BY DEF GitProbe
  <1>2. TypeOK /\ LedgerStands /\ CallStands(c) /\ CallKnows(c) /\ CallRemoved(c)
    BY DEF Consuming
  <1>3. OthersKept(c) /\ pc'[c] = "recheck" /\ seen'[c] = registered
    BY <1>1, <1>2 DEF OthersKept, Goto, TypeOK
  <1>4. CallKept(c)
    BY <1>1, <1>2, <1>3 DEF CallKept, CallStands, CallKnows, CallRemoved, filesVars
  <1> QED
    BY <1>1, <1>2, <1>3, <1>4, QuietStep DEF filesVars

LEMMA RecheckConsumes ==
    ASSUME Consuming, NEW c \in Cleaners, Recheck(c)
    PROVE  OthersKept(c) /\ CallKept(c) /\ LedgerStands' /\ Moves
  <1>1. pc[c] = "recheck" /\ CallStands(c) /\ CallKnows(c) /\ CallRemoved(c)
    BY DEF Recheck, Consuming
  <1>2. CASE Reject(c)
    BY <1>1, <1>2, RejectingKeeps
  <1>3. CASE ~Reject(c)
    <2>1. \/ phase[c] = "absent" /\ Passes(c, "create")
          \/ phase[c] # "absent" /\ Passes(c, "drop")
      BY <1>3, TestSplits DEF Recheck
    <2>2. CASE phase[c] = "absent" /\ Passes(c, "create")
      <3>1. /\ OthersKept(c) /\ LedgerStands' /\ Moves /\ pc'[c] = "create"
            /\ phase'[c] = phase[c] /\ seen'[c] = seen[c] /\ at'[c] = at[c]
            /\ UNCHANGED << file, entries, registered, root >>
        BY <1>1, <2>2, PassingKeeps DEF Steps
      <3>2. CallKept(c)
        BY <1>1, <2>2, <3>1 DEF CallKept, CallStands, CallKnows, CallRemoved
      <3> QED
        BY <3>1, <3>2
    <2>3. CASE phase[c] # "absent" /\ Passes(c, "drop")
      <3>1. /\ OthersKept(c) /\ LedgerStands' /\ Moves /\ pc'[c] = "drop"
            /\ phase'[c] = phase[c] /\ seen'[c] = seen[c] /\ at'[c] = at[c]
            /\ UNCHANGED << file, entries, registered, root >>
        BY <1>1, <2>3, PassingKeeps DEF Steps
      <3>2. CallKept(c)
        BY <1>1, <2>3, <3>1 DEF CallKept, CallStands, CallKnows, CallRemoved
      <3> QED
        BY <3>1, <3>2
    <2> QED
      BY <2>1, <2>2, <2>3
  <1> QED
    BY <1>2, <1>3

\* The file that c is writing is in no other name, and no other call's.
LEMMA OwnFile ==
    ASSUME Consuming, NEW c \in Cleaners, pc[c] = "write", NEW w \in {Nobody, Dead}
    PROVE  /\ Settle(file, c, w) =
                  [file EXCEPT ![Target(phase[c])] = [phase |-> Successor[phase[c]], writer |-> w]]
           /\ \A n \in Names : Settle(file, c, w)[n].phase = file[n].phase
           /\ \A n \in Names : file[n].writer = c <=> n = Target(phase[c])
  <1>1. TypeOK /\ LedgerStands /\ CallKnows(c)
    BY DEF Consuming
  <1>2. c # Nobody /\ c # Dead /\ Target(phase[c]) \in Names
    BY <1>1, CleanupAssumption, ReceiptNames DEF TypeOK
  <1>3. file[Target(phase[c])] = Torn(Successor[phase[c]], c)
    BY <1>1 DEF CallKnows
  <1>4. \A n \in Names : file[n].writer = c => n = Target(phase[c])
    BY <1>1 DEF LedgerStands
  <1>5. /\ file = [n \in Names |-> file[n]]
        /\ \A n \in Names : file[n] \in [phase : Phases, writer : Writers]
    BY <1>1 DEF TypeOK
  <1>6. Settle(file, c, w) =
            [n \in Names |-> IF n = Target(phase[c])
                               THEN [phase |-> Successor[phase[c]], writer |-> w] ELSE file[n]]
    BY <1>2, <1>3, <1>4, <1>5 DEF Settle, Torn
  <1>7. Settle(file, c, w) =
            [file EXCEPT ![Target(phase[c])] = [phase |-> Successor[phase[c]], writer |-> w]]
    BY <1>2, <1>5, <1>6
  <1>8. \A n \in Names : Settle(file, c, w)[n].phase = file[n].phase
    BY <1>3, <1>6 DEF Torn
  <1>9. \A n \in Names : file[n].writer = c <=> n = Target(phase[c])
    BY <1>3, <1>4 DEF Torn
  <1> QED
    BY <1>7, <1>8, <1>9

LEMMA CreateFileConsumes ==
    ASSUME Consuming, NEW c \in Cleaners, CreateFile(c)
    PROVE  OthersKept(c) /\ CallKept(c) /\ LedgerStands' /\ Moves
  <1>1. /\ pc[c] = "create" /\ TypeOK /\ LedgerStands
        /\ CallStands(c) /\ CallKnows(c) /\ CallRemoved(c)
    BY DEF CreateFile, Consuming
  <1> DEFINE name == Target(phase[c])
             next == Successor[phase[c]]
  <1>2. CASE /\ file[name] = Absent
             /\ file' = [file EXCEPT ![name] = Torn(next, c)]
             /\ Goto(c, "write")
             /\ UNCHANGED << filesVars, loaded, phase, seen, anchored, at, holds,
                             result, cleaned, faults, crashes >>
    <2>1. name \in Names /\ next \in Phases
      BY <1>1, ReceiptNames DEF TypeOK
    <2>2. OthersKept(c) /\ pc'[c] = "write" /\ phase'[c] = phase[c]
      BY <1>1, <1>2 DEF OthersKept, Goto, TypeOK
    <2>3. file'[name] = Torn(next, c) /\ \A n \in Names \ {name} : file'[n] = file[n]
      BY <1>1, <1>2, <2>1 DEF TypeOK
    <2>4. /\ phase[c] = "absent" => name = "ledger" /\ next = "claimed"
          /\ phase[c] = "claimed" => name = "contents_tmp" /\ next = "contents_removed"
          /\ phase[c] = "contents_removed" => name = "complete_tmp" /\ next = "complete"
          /\ phase[c] \in {"absent", "claimed", "contents_removed"}
      BY <1>1, ReceiptOf DEF CallStands, TypeOK, Phases
    <2>5. c # Nobody
      BY CleanupAssumption
    <2>6. CallKept(c)
      BY <1>1, <1>2, <2>1, <2>2, <2>3, <2>4
         DEF CallKept, CallStands, CallKnows, CallRemoved, CreatedGone, Target, filesVars,
             Names
    <2>7. LedgerStands'
      <3>1. Receipts'
        BY <1>1, <2>1, <2>3, <2>4 DEF LedgerStands, Receipts, Names, Torn
      <3>2. ASSUME NEW n \in Names, NEW d \in Cleaners, file'[n].writer = d
            PROVE  pc'[d] = "write" /\ n = Target(phase'[d])
        <4>1. CASE n = name
          BY <2>2, <2>3, <3>2, <4>1 DEF Torn
        <4>2. CASE n # name
          <5>1. pc[d] = "write" /\ n = Target(phase[d])
            BY <1>1, <2>3, <3>2, <4>2 DEF LedgerStands
          <5> QED
            BY <1>1, <2>2, <5>1 DEF OthersKept
        <4> QED
          BY <4>1, <4>2
      <3>3. Unledgered' => Unledgered
        BY <1>1, <1>2, <2>3, <2>4 DEF Unledgered, Names, CallKnows
      <3>4. file'["ledger"].phase \in {"contents_removed", "complete"} =>
                file["ledger"].phase \in {"contents_removed", "complete"}
        BY <1>1, <2>3, <2>4 DEF Names, Torn
      <3>5. cleaned > 0 => file'["ledger"] = file["ledger"]
        BY <1>1, <1>2, <2>3, <2>4 DEF LedgerStands, Names, Full, Absent
      <3>6. UNCHANGED << entries, registered, cleaned >>
        BY <1>2 DEF filesVars
      <3> QED
        BY <1>1, <3>1, <3>2, <3>3, <3>4, <3>5, <3>6 DEF LedgerStands, CreatedGone
    <2>8. Moves
      <3>1. Stage' = Stage
        BY <1>1, <1>2, <2>3, <2>4, <2>5 DEF Stage, Names, Torn
      <3> QED
        BY <1>2, <3>1 DEF Moves, Goods, filesVars
    <2> QED
      BY <2>2, <2>6, <2>7, <2>8
  <1>3. CASE Reject(c)
    BY <1>1, <1>3, RejectingKeeps
  <1>4. CASE Passes(c, "replace") /\ file[name] = Full(next) /\ name # "ledger"
    <2>1. /\ OthersKept(c) /\ LedgerStands' /\ Moves /\ pc'[c] = "replace"
          /\ phase'[c] = phase[c] /\ seen'[c] = seen[c] /\ at'[c] = at[c]
          /\ UNCHANGED << file, entries, registered, root >>
      BY <1>1, <1>4, PassingKeeps DEF Steps
    <2>2. phase[c] # "absent"
      BY <1>4, ReceiptOf
    <2>3. CallKept(c)
      BY <1>1, <1>4, <2>1, <2>2
         DEF CallKept, CallStands, CallKnows, CallRemoved, CreatedGone, Target
    <2> QED
      BY <2>1, <2>3
  <1>5. CreateFile(c) => \/ /\ file[name] = Absent
                            /\ file' = [file EXCEPT ![name] = Torn(next, c)]
                            /\ Goto(c, "write")
                            /\ UNCHANGED << filesVars, loaded, phase, seen, anchored, at,
                                            holds, result, cleaned, faults, crashes >>
                         \/ Test(c, name # "ledger" /\ file[name] = Full(next), "replace")
    BY DEF CreateFile
  <1> QED
    BY <1>2, <1>3, <1>4, <1>5, TestSplits

LEMMA WriteFileConsumes ==
    ASSUME Consuming, NEW c \in Cleaners, WriteFile(c)
    PROVE  OthersKept(c) /\ CallKept(c) /\ LedgerStands' /\ Moves
  <1>1. /\ pc[c] = "write" /\ TypeOK /\ LedgerStands
        /\ CallStands(c) /\ CallKnows(c) /\ CallRemoved(c)
    BY DEF WriteFile, Consuming
  <1>2. UNCHANGED << filesVars, seen, anchored, at, holds, cleaned >>
    BY DEF WriteFile
  <1>3. PICK p \in Phases : p = phase[c]
    BY <1>1 DEF TypeOK
  <1>4. Target(p) \in Names /\ Successor[p] \in Phases
    BY ReceiptNames
  <1>5. /\ file' = [file EXCEPT ![Target(p)] = Full(Successor[p])]
        /\ \A n \in Names : file[n].writer = c <=> n = Target(p)
    BY <1>1, <1>3, OwnFile DEF WriteFile, Full
  <1>6. /\ file'[Target(p)] = Full(Successor[p])
        /\ \A n \in Names \ {Target(p)} : file'[n] = file[n]
        /\ file[Target(p)] = Torn(Successor[p], c)
    BY <1>1, <1>3, <1>4, <1>5 DEF TypeOK, CallKnows
  <1>7. /\ p = "absent" => Target(p) = "ledger" /\ Successor[p] = "claimed"
        /\ p = "claimed" => Target(p) = "contents_tmp" /\ Successor[p] = "contents_removed"
        /\ p = "contents_removed" => Target(p) = "complete_tmp" /\ Successor[p] = "complete"
        /\ p \in {"absent", "claimed", "contents_removed"}
    BY <1>1, <1>3, ReceiptOf DEF CallStands, Phases
  <1>8. /\ p = "absent" => pc'[c] = "drop" /\ phase'[c] = "claimed"
        /\ p # "absent" => pc'[c] = "replace" /\ phase'[c] = p
        /\ OthersKept(c)
    BY <1>1, <1>2, <1>3 DEF WriteFile, Goto, OthersKept, TypeOK
  <1>9. c # Nobody /\ \A d \in Cleaners : d # Nobody
    BY CleanupAssumption
  <1>10. CallKept(c)
    <2>1. CASE p = "absent"
      <3>1. CallStands(c)' /\ CallKnows(c)'
        BY <1>6, <1>7, <1>8, <2>1 DEF CallStands, CallKnows
      <3>2. CallRemoved(c)'
        BY <1>1, <1>2, <1>8, <2>1 DEF CallRemoved, filesVars
      <3> QED
        BY <3>1, <3>2 DEF CallKept
    <2>2. CASE p # "absent"
      <3>1. CallStands(c)'
        BY <1>1, <1>3, <1>8, <2>2, <1>7 DEF CallStands
      <3>2. phase'[c] = phase[c] /\ Target(phase'[c]) = Target(p)
        BY <1>3, <1>8, <2>2 DEF Target
      <3>3. file'["ledger"] = file["ledger"]
        BY <1>6, <1>7, <2>2 DEF Names
      <3>4. CallKnows(c)'
        BY <1>1, <1>3, <1>6, <1>8, <2>2, <3>2, <3>3 DEF CallKnows
      <3>5. CallRemoved(c)'
        BY <1>1, <1>2, <1>3, <1>8, <2>2, <3>2 DEF CallRemoved, CreatedGone, filesVars
      <3> QED
        BY <3>1, <3>4, <3>5 DEF CallKept
    <2> QED
      BY <2>1, <2>2
  <1>11. LedgerStands'
    <2>1. Receipts'
      BY <1>1, <1>6, <1>7 DEF LedgerStands, Receipts, Names, Full
    <2>2. ASSUME NEW n \in Names, NEW d \in Cleaners, file'[n].writer = d
          PROVE  pc'[d] = "write" /\ n = Target(phase'[d])
      <3>1. n # Target(p) /\ file[n].writer = d
        BY <1>6, <1>9, <2>2 DEF Full
      <3>2. d # c /\ pc[d] = "write" /\ n = Target(phase[d])
        BY <1>1, <1>5, <3>1 DEF LedgerStands
      <3> QED
        BY <1>8, <3>2 DEF OthersKept, Target
    <2>3. Unledgered' => Unledgered
      BY <1>1, <1>6, <1>7 DEF Unledgered, Names, Full, Absent
    <2>4. file'["ledger"].phase = file["ledger"].phase
      BY <1>4, <1>6 DEF Full, Torn, Names
    <2>5. cleaned > 0 => file'["ledger"] = file["ledger"]
      BY <1>1, <1>6, <1>9 DEF LedgerStands, Names, Full, Torn
    <2> QED
      BY <1>1, <1>2, <2>1, <2>2, <2>3, <2>4, <2>5 DEF LedgerStands, CreatedGone, filesVars
  <1>12. Moves
    <2>1. CASE p = "absent"
      BY <1>2, <1>6, <1>7, <1>9, <2>1 DEF Moves, Stage, Goods, Full, Torn, Absent, filesVars
    <2>2. CASE p # "absent"
      BY <1>2, <1>6, <1>7, <2>2 DEF Moves, Stage, Goods, Names, filesVars
    <2> QED
      BY <2>1, <2>2
  <1> QED
    BY <1>8, <1>10, <1>11, <1>12

LEMMA ReplaceLedgerConsumes ==
    ASSUME Consuming, NEW c \in Cleaners, ReplaceLedger(c)
    PROVE  OthersKept(c) /\ CallKept(c) /\ LedgerStands' /\ Moves
  <1>1. /\ pc[c] = "replace" /\ TypeOK /\ LedgerStands
        /\ CallStands(c) /\ CallKnows(c) /\ CallRemoved(c)
    BY DEF ReplaceLedger, Consuming
  <1>2. PICK p \in Phases : p = phase[c]
    BY <1>1 DEF TypeOK
  <1>3. /\ p = "claimed" => Target(p) = "contents_tmp" /\ Successor[p] = "contents_removed"
        /\ p = "contents_removed" => Target(p) = "complete_tmp" /\ Successor[p] = "complete"
        /\ p \in {"claimed", "contents_removed"}
    BY <1>1, <1>2, ReceiptOf DEF CallStands, Phases
  <1>4. /\ file[Target(p)] = Full(Successor[p]) /\ file["ledger"] = Full(p)
        /\ Target(p) \in Names
    BY <1>1, <1>2, <1>3 DEF CallKnows, Names
  <1>5. CASE Reject(c)
    BY <1>1, <1>5, RejectingKeeps
  <1>6. CASE /\ file' = [file EXCEPT !["ledger"] = file[Target(p)], ![Target(p)] = Absent]
             /\ AfterReplace(c)
    <2>1. file \in [Names -> [phase : Phases, writer : Writers]] /\ "ledger" \in Names
      BY <1>1 DEF TypeOK, Names
    <2>2. /\ file'["ledger"] = Full(Successor[p]) /\ file'[Target(p)] = Absent
          /\ \A n \in Names \ {"ledger", Target(p)} : file'[n] = file[n]
      BY <1>3, <1>4, <1>6, <2>1
    <2>3. \A n \in Names : \A d \in Cleaners : file'[n].writer = d => file[n].writer = d
      BY <2>2, CleanupAssumption DEF Full, Absent, Names
    <2>4. UNCHANGED << entries, registered >>
      BY <1>6 DEF AfterReplace, Return, Leave, filesVars
    <2>5. OthersKept(c)
      BY <1>1, <1>6 DEF OthersKept, AfterReplace, Return, Leave, Goto, TypeOK
    <2>6. \A n \in Names : \A d \in Cleaners :
              file'[n].writer = d => pc'[d] = "write" /\ n = Target(phase'[d])
      BY <1>1, <2>3, <2>5 DEF LedgerStands, OthersKept, Target
    <2>7. Receipts'
      BY <1>1, <1>3, <2>2 DEF LedgerStands, Receipts, Names, Full, Absent
    <2>8. cleaned = 0
      BY <1>1, <1>3, <1>4 DEF LedgerStands, Full, TypeOK
    <2>9. ~Unledgered'
      BY <1>3, <2>2 DEF Unledgered, Full, Absent
    <2>10. CASE p = "claimed"
      <3>1. /\ phase' = [phase EXCEPT ![c] = "contents_removed"] /\ Goto(c, "claim")
            /\ UNCHANGED << filesVars, seen, anchored, at, holds, cleaned >>
        BY <1>2, <1>6, <2>10 DEF AfterReplace
      <3>2. phase'[c] = "contents_removed" /\ pc'[c] = "claim"
        BY <1>1, <3>1 DEF Goto, TypeOK
      <3>3. CreatedGone
        BY <1>1, <1>2, <2>10 DEF CallRemoved
      <3>4. CallKept(c)
        BY <1>1, <1>3, <2>2, <2>10, <3>1, <3>2
           DEF CallKept, CallStands, CallKnows, CallRemoved, filesVars
      <3>5. LedgerStands'
        BY <2>4, <2>6, <2>7, <2>8, <2>9, <3>1, <3>3 DEF LedgerStands, CreatedGone
      <3>6. Moves
        BY <1>3, <1>4, <2>2, <2>4, <2>10, <3>3
           DEF Moves, Stage, Goods, CreatedGone, Full, Absent
      <3> QED
        BY <2>5, <3>4, <3>5, <3>6
    <2>11. CASE p = "contents_removed"
      <3>1. Return(c, "cleaned") /\ cleaned' = cleaned + 1
        BY <1>2, <1>6, <2>11 DEF AfterReplace
      <3>2. phase'[c] = "absent" /\ pc'[c] = "idle" /\ at'[c] = 1
        BY <1>1, <3>1 DEF Return, Leave, Goto, TypeOK
      <3>3. CreatedGone
        BY <1>1, <1>4, <2>11 DEF LedgerStands, Full
      <3>4. CallKept(c)
        BY <3>2 DEF CallKept, CallStands, CallKnows, CallRemoved
      <3>5. LedgerStands'
        BY <1>3, <2>2, <2>4, <2>6, <2>7, <2>8, <2>9, <2>11, <3>1, <3>3
           DEF LedgerStands, CreatedGone
      <3>6. Moves
        BY <1>3, <1>4, <2>2, <2>4, <2>11 DEF Moves, Stage, Goods, Full, Absent
      <3> QED
        BY <2>5, <3>4, <3>5, <3>6
    <2> QED
      BY <1>3, <2>10, <2>11
  <1> QED
    BY <1>2, <1>5, <1>6 DEF ReplaceLedger

LEMMA DropWorktreeConsumes ==
    ASSUME Consuming, NEW c \in Cleaners, DropWorktree(c)
    PROVE  OthersKept(c) /\ CallKept(c) /\ LedgerStands' /\ Moves
  <1>1. /\ pc[c] = "drop" /\ TypeOK /\ LedgerStands
        /\ CallStands(c) /\ CallKnows(c) /\ CallRemoved(c)
    BY DEF DropWorktree, Consuming
  <1>2. CASE Reject(c)
    BY <1>1, <1>2, RejectingKeeps
  <1>3. CASE ~Reject(c)
    <2>1. /\ seen[c] => phase[c] = "claimed"
          /\ \/ phase[c] = "claimed" /\ pc' = [pc EXCEPT ![c] = "remove"]
             \/ /\ phase[c] # "claimed"
                /\ \/ pc' = [pc EXCEPT ![c] = "claim"]
                   \/ pc' = [pc EXCEPT ![c] = "mark"]
          /\ registered' = (registered /\ ~seen[c])
          /\ entries' = IF seen[c] THEN entries \ {"worktree"} ELSE entries
          /\ UNCHANGED << root, file, phase, seen, anchored, at, holds, cleaned >>
      BY <1>3 DEF DropWorktree, Goto
    <2>2. OthersKept(c)
      BY <1>1, <2>1 DEF OthersKept, TypeOK
    <2>3. CASE phase[c] = "claimed"
      <3>1. pc'[c] = "remove" /\ ~registered'
        BY <1>1, <2>1, <2>3 DEF CallRemoved, TypeOK
      <3>2. /\ entries' \subseteq entries
            /\ Required \subseteq entries => Required \subseteq entries'
        BY <2>1, RequiredIsCreated
      <3>3. CallKept(c)
        BY <1>1, <2>1, <2>3, <3>1, <3>2
           DEF CallKept, CallStands, CallKnows, CallRemoved
      <3>4. \A n \in Names : \A d \in Cleaners :
                file[n].writer = d => pc'[d] = "write" /\ n = Target(phase'[d])
        BY <1>1, <2>1, <2>2 DEF LedgerStands, OthersKept, Target
      <3>5. LedgerStands'
        BY <1>1, <2>1, <3>1, <3>2, <3>4
           DEF LedgerStands, Receipts, Unledgered, CreatedGone
      <3>6. file["ledger"] = Full("claimed")
        BY <1>1, <2>3 DEF CallKnows
      <3>7. Moves
        BY <2>1, <3>1, <3>2, <3>6 DEF Moves, Stage, Goods, Full, Absent
      <3> QED
        BY <2>2, <3>3, <3>5, <3>7
    <2>4. CASE phase[c] # "claimed"
      <3>1. ~seen[c] /\ entries' = entries /\ registered' = registered
        BY <1>1, <2>1, <2>4 DEF TypeOK, FilesTypeOK
      <3>2. pc'[c] \in {"claim", "mark"} /\ phase[c] = "contents_removed"
        BY <1>1, <2>1, <2>4 DEF CallStands, TypeOK, Phases
      <3>3. CallKept(c)
        BY <1>1, <2>1, <3>1, <3>2
           DEF CallKept, CallStands, CallKnows, CallRemoved
      <3> QED
        BY <1>1, <2>1, <2>2, <3>1, <3>3, QuietStep
    <2> QED
      BY <2>3, <2>4
  <1> QED
    BY <1>2, <1>3

LEMMA RemoveOwnedConsumes ==
    ASSUME Consuming, NEW c \in Cleaners, RemoveOwned(c)
    PROVE  OthersKept(c) /\ CallKept(c) /\ LedgerStands' /\ Moves
  <1>1. /\ pc[c] = "remove" /\ TypeOK /\ LedgerStands
        /\ CallStands(c) /\ CallKnows(c) /\ CallRemoved(c)
    BY DEF RemoveOwned, Consuming
  <1>2. CASE Reject(c)
    BY <1>1, <1>2, RejectingKeeps
  <1>3. CASE ~Reject(c)
    <2>1. /\ entries' = entries \ RemovalOrder[at[c]]
          /\ \/ at[c] = Len(RemovalOrder) /\ Goto(c, "mark") /\ UNCHANGED at
             \/ /\ at[c] # Len(RemovalOrder) /\ at' = [at EXCEPT ![c] = @ + 1]
                /\ UNCHANGED pc
          /\ UNCHANGED << root, registered, file, phase, seen, anchored, holds, cleaned >>
      BY <1>3 DEF RemoveOwned
    <2>2. OthersKept(c)
      BY <1>1, <2>1 DEF OthersKept, Goto, TypeOK
    <2>3. phase[c] = "claimed" /\ file["ledger"] = Full("claimed") /\ ~registered
      BY <1>1 DEF CallStands, CallKnows, CallRemoved, TypeOK, Phases
    <2>4. entries' \subseteq entries
      BY <2>1
    <2>5. Len(RemovalOrder) = 6 /\ at[c] \in 1..6
      BY <1>1, OrderCovers DEF TypeOK
    <2>6. \A i \in 1..6 : i <= at[c] => entries' \cap Created \cap RemovalOrder[i] = {}
      BY <1>1, <2>1, <2>4, <2>5 DEF CallRemoved
    <2>7. CallKept(c)
      <3>1. CASE at[c] = 6
        <4>1. pc'[c] = "mark" /\ at' = at
          BY <1>1, <2>1, <2>5, <3>1 DEF Goto, TypeOK
        <4>2. entries' \cap Created = {}
          BY <2>6, <3>1, OrderCovers DEF Created
        <4> QED
          BY <1>1, <2>1, <2>3, <2>4, <4>1, <4>2
             DEF CallKept, CallStands, CallKnows, CallRemoved, CreatedGone
      <3>2. CASE at[c] # 6
        <4>1. pc' = pc /\ at'[c] = at[c] + 1
          BY <1>1, <2>1, <2>5, <3>2 DEF TypeOK
        <4>2. \A i \in 1..6 : i < at'[c] => i <= at[c]
          BY <2>5, <4>1
        <4> QED
          BY <1>1, <2>1, <2>3, <2>5, <2>6, <4>1, <4>2
             DEF CallKept, CallStands, CallKnows, CallRemoved
      <3> QED
        BY <3>1, <3>2
    <2>8. LedgerStands'
      <3>1. \A n \in Names : \A d \in Cleaners :
                file[n].writer = d => pc'[d] = "write" /\ n = Target(phase'[d])
        BY <1>1, <2>1, <2>2 DEF LedgerStands, OthersKept, Target
      <3>2. ~Unledgered /\ file["ledger"].phase = "claimed"
        BY <2>3 DEF Unledgered, Full, Absent
      <3> QED
        BY <1>1, <2>1, <3>1, <3>2 DEF LedgerStands, Receipts, Unledgered
    <2>9. Moves
      BY <2>1, <2>3, <2>4 DEF Moves, Stage, Goods, Full, Absent
    <2> QED
      BY <2>2, <2>7, <2>8, <2>9
  <1> QED
    BY <1>2, <1>3

\* The steps that only look: the ledger still says what the call believes, and
\* nothing recorded is left.
LEMMA LookingConsumes ==
    ASSUME Consuming, NEW c \in Cleaners, MarkProgress(c) \/ CheckAbsent(c)
    PROVE  OthersKept(c) /\ CallKept(c) /\ LedgerStands' /\ Moves
  <1>1. /\ TypeOK /\ LedgerStands /\ CallStands(c) /\ CallKnows(c) /\ CallRemoved(c)
        /\ pc[c] \in {"mark", "check"}
    BY DEF MarkProgress, CheckAbsent, Consuming
  <1>2. CASE Reject(c)
    BY <1>1, <1>2, RejectingKeeps
  <1>3. CASE pc[c] = "mark" /\ Passes(c, "create")
    <2>1. /\ OthersKept(c) /\ LedgerStands' /\ Moves /\ pc'[c] = "create"
          /\ phase'[c] = phase[c] /\ seen'[c] = seen[c] /\ at'[c] = at[c]
          /\ UNCHANGED << file, entries, registered >>
      BY <1>1, <1>3, PassingKeeps DEF Steps
    <2>2. CallKept(c)
      BY <1>1, <1>3, <2>1 DEF CallKept, CallStands, CallKnows, CallRemoved, CreatedGone
    <2> QED
      BY <2>1, <2>2
  <1>4. CASE pc[c] = "check" /\ Passes(c, "rmdir")
    <2>1. /\ OthersKept(c) /\ LedgerStands' /\ Moves /\ pc'[c] = "rmdir"
          /\ phase'[c] = phase[c] /\ seen'[c] = seen[c] /\ at'[c] = at[c]
          /\ UNCHANGED << file, entries, registered >>
      BY <1>1, <1>4, PassingKeeps DEF Steps
    <2>2. CallKept(c)
      BY <1>1, <1>4, <2>1 DEF CallKept, CallStands, CallKnows, CallRemoved
    <2> QED
      BY <2>1, <2>2
  <1> QED
    BY <1>2, <1>3, <1>4, TestSplits DEF MarkProgress, CheckAbsent

\* The steps at each of the two seal receipts.
LEMMA ReceiptSteps ==
    ASSUME NEW f \in SealFiles
    PROVE  /\ f \in {"claim", "final"}
           /\ UnlinkStep[f] \in {"unlink_claim", "unlink_final"}
           /\ NextSealStep[f] \in {"final", "check"}
           /\ f = "claim" => UnlinkStep[f] = "unlink_claim" /\ NextSealStep[f] = "final"
           /\ f = "final" => UnlinkStep[f] = "unlink_final" /\ NextSealStep[f] = "check"
  <1>1. /\ UnlinkStep["claim"] = "unlink_claim" /\ UnlinkStep["final"] = "unlink_final"
        /\ NextSealStep["claim"] = "final" /\ NextSealStep["final"] = "check"
    BY DEF UnlinkStep, NextSealStep
  <1>2. f = "claim" \/ f = "final"
    BY DEF SealFiles
  <1> QED
    BY <1>1, <1>2

\* The steps at the seal receipts, and the removal of an empty root.
LEMMA UnsealingConsumes ==
    ASSUME Consuming, NEW c \in Cleaners,
           (\E f \in SealFiles : LockSealFile(c, f) \/ UnlinkSealFile(c, f)) \/ RemoveRoot(c)
    PROVE  OthersKept(c) /\ CallKept(c) /\ LedgerStands' /\ Moves
  <1>1. TypeOK /\ LedgerStands /\ CallStands(c) /\ CallKnows(c) /\ CallRemoved(c)
    BY DEF Consuming
  <1>2. pc[c] \in {"claim", "final", "unlink_claim", "unlink_final", "rmdir"}
    BY ReceiptSteps DEF LockSealFile, UnlinkSealFile, RemoveRoot
  <1>3. CASE Reject(c)
    BY <1>2, <1>3, RejectingKeeps
  <1>4. CASE ~Reject(c)
    <2> DEFINE Moved ==
          /\ \/ pc' = [pc EXCEPT ![c] = "unlink_claim"] \/ pc' = [pc EXCEPT ![c] = "final"]
             \/ pc' = [pc EXCEPT ![c] = "unlink_final"] \/ pc' = [pc EXCEPT ![c] = "check"]
             \/ pc' = [pc EXCEPT ![c] = "mark"]
          /\ holds' = [holds EXCEPT ![c] = holds'[c]]
          /\ UNCHANGED << entries, registered, file, phase, seen, anchored, at, cleaned >>
    <2>1. Moved
      <3>1. CASE RemoveRoot(c)
        BY <1>1, <1>4, <3>1 DEF RemoveRoot, Goto, TypeOK
      <3>2. ASSUME NEW f \in SealFiles, LockSealFile(c, f)
            PROVE  Moved
        <4>1. \/ Passes(c, NextSealStep[f])
              \/ /\ holds' = [holds EXCEPT ![c] = seal[f]] /\ Goto(c, UnlinkStep[f])
                 /\ UNCHANGED << entries, registered, file, phase, seen, anchored, at,
                                 cleaned >>
          BY <1>4, <3>2, TestSplits DEF LockSealFile
        <4> QED
          BY <1>1, <4>1, ReceiptSteps DEF Passes, Goto, TypeOK, filesVars
      <3>3. ASSUME NEW f \in SealFiles, UnlinkSealFile(c, f)
            PROVE  Moved
        BY <1>1, <1>4, <3>3, ReceiptSteps DEF UnlinkSealFile, Goto, TypeOK
      <3> QED
        BY <3>1, <3>2, <3>3
    <2>2. pc'[c] \in {"unlink_claim", "final", "unlink_final", "check", "mark"}
      BY <1>1, <2>1 DEF TypeOK
    <2>3. OthersKept(c)
      BY <1>1, <2>1 DEF OthersKept, TypeOK
    <2>4. phase[c] = "contents_removed"
      BY <1>1, <1>2 DEF CallStands, TypeOK, Phases
    <2>5. CallKept(c)
      BY <1>1, <1>2, <2>1, <2>2, <2>4 DEF CallKept, CallStands, CallKnows, CallRemoved
    <2> QED
      BY <1>1, <1>2, <2>1, <2>3, <2>5, QuietStep
  <1> QED
    BY <1>3, <1>4

\* A call that is killed, or in which a system call fails, leaves what it was
\* writing torn, or removed.
LEMMA FailureConsumes ==
    ASSUME Consuming, NEW c \in Cleaners, Fault(c) \/ Crash(c)
    PROVE  OthersKept(c) /\ CallKept(c) /\ LedgerStands' /\ Moves
  <1>1. /\ TypeOK /\ LedgerStands /\ CallStands(c) /\ CallKnows(c) /\ CallRemoved(c)
        /\ pc[c] # "idle" /\ Leave(c) /\ cleaned' = cleaned
    BY DEF Fault, Crash, Consuming, Return
  <1>2. CASE pc[c] # "write"
    <2>1. file' = file
      <3>1. CASE Fault(c)
        BY <1>2, <3>1 DEF Fault
      <3>2. CASE Crash(c)
        <4>1. \A n \in Names : file[n].writer # c
          BY <1>1, <1>2 DEF LedgerStands
        <4>2. file = [n \in Names |-> file[n]]
          BY <1>1 DEF TypeOK
        <4> QED
          BY <3>2, <4>1, <4>2 DEF Crash, Settle
      <3> QED
        BY <3>1, <3>2
    <2> QED
      BY <1>1, <1>2, <2>1, LeavingKeeps
  <1>3. CASE pc[c] = "write"
    <2>1. PICK p \in Phases : p = phase[c]
      BY <1>1 DEF TypeOK
    <2>2. Target(p) \in Names /\ Successor[p] \in Phases
      BY ReceiptNames
    <2>3. /\ Settle(file, c, Dead) = [file EXCEPT ![Target(p)] = Torn(Successor[p], Dead)]
          /\ \A n \in Names : file[n].writer = c <=> n = Target(p)
      BY <1>3, <2>1, OwnFile DEF Torn
    <2>4. \/ file' = [file EXCEPT ![Target(p)] = Torn(Successor[p], Dead)]
          \/ file' = [file EXCEPT ![Target(p)] = Absent]
      <3>1. CASE Fault(c)
        <4>1. file' = [[file EXCEPT ![Target(p)] = Torn(Successor[p], Dead)]
                           EXCEPT ![Target(p)] = Absent]
          BY <1>3, <2>1, <2>3, <3>1 DEF Fault, Target
        <4> QED
          BY <1>1, <4>1 DEF TypeOK
      <3>2. CASE Crash(c)
        BY <2>3, <3>2 DEF Crash
      <3> QED
        BY <3>1, <3>2
    <2>5. /\ file'[Target(p)] \in {Torn(Successor[p], Dead), Absent}
          /\ \A n \in Names \ {Target(p)} : file'[n] = file[n]
          /\ file[Target(p)] = Torn(Successor[p], c)
      BY <1>1, <1>3, <2>1, <2>2, <2>4 DEF TypeOK, CallKnows
    <2>6. /\ p = "absent" => Target(p) = "ledger" /\ Successor[p] = "claimed"
          /\ p = "claimed" => Target(p) = "contents_tmp" /\ Successor[p] = "contents_removed"
          /\ p = "contents_removed" => Target(p) = "complete_tmp" /\ Successor[p] = "complete"
          /\ p \in {"absent", "claimed", "contents_removed"}
      BY <1>1, <2>1, ReceiptOf DEF CallStands, Phases
    <2>7. c # Nobody /\ Dead # Nobody /\ \A d \in Cleaners : d # Dead /\ d # Nobody
      BY CleanupAssumption
    <2>8. OthersKept(c) /\ pc'[c] = "idle" /\ phase'[c] = "absent" /\ at'[c] = 1
      BY <1>1 DEF OthersKept, Leave, Goto, TypeOK
    <2>9. CallKept(c)
      BY <2>8 DEF CallKept, CallStands, CallKnows, CallRemoved
    <2>10. UNCHANGED << entries, registered, cleaned >>
      BY <1>1 DEF Leave
    <2>11. LedgerStands'
      <3>1. Receipts'
        BY <1>1, <2>5, <2>6 DEF LedgerStands, Receipts, Names, Torn, Absent
      <3>2. ASSUME NEW n \in Names, NEW d \in Cleaners, file'[n].writer = d
            PROVE  pc'[d] = "write" /\ n = Target(phase'[d])
        <4>1. n # Target(p) /\ file[n].writer = d
          BY <2>5, <2>7, <3>2 DEF Torn, Absent
        <4>2. d # c /\ pc[d] = "write" /\ n = Target(phase[d])
          BY <1>1, <2>3, <4>1 DEF LedgerStands
        <4> QED
          BY <2>8, <4>2 DEF OthersKept, Target
      <3>3. Unledgered' => Unledgered
        BY <1>1, <2>5, <2>6, <2>7 DEF Unledgered, Names, Torn
      <3>4. file'["ledger"].phase \in {"contents_removed", "complete"} =>
                file["ledger"].phase \in {"contents_removed", "complete"}
        BY <2>5, <2>6 DEF Names, Torn, Absent
      <3>5. cleaned > 0 => file'["ledger"] = file["ledger"]
        BY <1>1, <2>5, <2>6, <2>7 DEF LedgerStands, Names, Full, Torn
      <3> QED
        BY <1>1, <2>10, <3>1, <3>2, <3>3, <3>4, <3>5 DEF LedgerStands, CreatedGone
    <2>12. Moves
      <3>1. Stage' = Stage
        BY <2>5, <2>6, <2>7 DEF Stage, Names, Torn, Absent
      <3> QED
        BY <2>10, <3>1 DEF Moves, Goods
    <2> QED
      BY <2>8, <2>9, <2>11, <2>12
  <1> QED
    BY <1>2, <1>3

(***************************************************************************)
(* The consumption, with any number of sealers beside it.                  *)
(***************************************************************************)
LEMMA CleanupConsumes ==
    ASSUME Consuming, ~Concurrent, CleanupNext
    PROVE  Consuming' /\ Moves
  <1>1. PICK c \in Cleaners : Begin(c) \/ Call(c) \/ Fault(c) \/ Crash(c)
    BY DEF CleanupNext
  <1>2. OthersKept(c) /\ CallKept(c) /\ LedgerStands' /\ Moves
    BY <1>1, BeginConsumes, ReadLedgerConsumes, OpenRootConsumes, GitProbeConsumes,
       RecheckConsumes, CreateFileConsumes, WriteFileConsumes, ReplaceLedgerConsumes,
       DropWorktreeConsumes, RemoveOwnedConsumes, LookingConsumes, UnsealingConsumes,
       FailureConsumes DEF Call
  <1>3. TypeOK'
    <2>1. TypeOK
      BY DEF Consuming
    <2> QED
      BY <2>1, TypeStep DEF Next
  <1>4. \A d \in Cleaners \ {c} : pc[d] = "idle"
    <2>1. CASE Begin(c)
      BY <2>1 DEF Begin
    <2>2. CASE ~Begin(c)
      <3>1. pc[c] # "idle"
        BY <1>1, <2>2, ReceiptSteps
           DEF Call, Fault, Crash, ReadLedger, OpenRoot, GitProbe, Recheck, CreateFile,
               WriteFile, ReplaceLedger, DropWorktree, RemoveOwned, MarkProgress,
               LockSealFile, UnlinkSealFile, CheckAbsent, RemoveRoot
      <3> QED
        BY <3>1 DEF Consuming, Lone
    <2> QED
      BY <2>1, <2>2
  <1>5. Lone'
    BY <1>2, <1>4 DEF Lone, OthersKept
  <1>6. ASSUME NEW d \in Cleaners \ {c}
        PROVE  CallKept(d)
    <2>1. /\ pc'[d] = "idle" /\ phase'[d] = "absent" /\ at'[d] = 1
      BY <1>2, <1>4 DEF OthersKept, Consuming, CallStands
    <2> QED
      BY <2>1 DEF CallKept, CallStands, CallKnows, CallRemoved
  <1> QED
    BY <1>2, <1>3, <1>5, <1>6 DEF Consuming, CallKept

\* A sealer's step is none of the consumption's.
LEMMA SealingConsumes ==
    ASSUME Consuming, UNCHANGED << root, registered, cleanupVars >>, TypeOK',
           entries' \cap Created = entries \cap Created
    PROVE  Consuming' /\ Moves
  <1>1. UNCHANGED << file, pc, phase, seen, anchored, at, holds, loaded, result, cleaned,
                     faults, crashes >>
    BY DEF cleanupVars, localVars
  <1>2. Lone'
    BY <1>1 DEF Consuming, Lone
  <1>3. LedgerStands'
    <2>1. Required \subseteq entries => Required \subseteq entries'
      BY RequiredIsCreated
    <2>2. CreatedGone => CreatedGone'
      BY DEF CreatedGone
    <2> QED
      BY <1>1, <2>1, <2>2 DEF Consuming, LedgerStands, Receipts, Unledgered
  <1>4. ASSUME NEW c \in Cleaners
        PROVE  CallStands(c)' /\ CallKnows(c)' /\ CallRemoved(c)'
    <2>1. CallStands(c) /\ CallKnows(c) /\ CallRemoved(c)
      BY DEF Consuming
    <2>2. CallStands(c)' /\ CallKnows(c)'
      BY <1>1, <2>1 DEF CallStands, CallKnows
    <2>3. CallRemoved(c)'
      BY <1>1, <2>1 DEF CallRemoved, CreatedGone
    <2> QED
      BY <2>2, <2>3
  <1>5. Moves
    BY <1>1 DEF Moves, Stage, Goods
  <1> QED
    BY <1>2, <1>3, <1>4, <1>5 DEF Consuming

(***************************************************************************)
(* A step of a sealer, whoever holds the claim.                            *)
(***************************************************************************)
\* It changes nothing of the invocation but the bundle, lets go of no lock but its
\* own, makes a final receipt only where it is bound to, and is bound only after
\* it has validated the layout.
SealerSteps(s) ==
    /\ UNCHANGED << root, registered, accepted >>
    /\ entries' \cap Created = entries \cap Created
    /\ spc' = [spc EXCEPT ![s] = spc'[s]]
    /\ \A t \in Sealers \ {s} : found'[t] = found[t]
    /\ spc'[s] = "lock" => found'[s] \in Inodes
    /\ written \subseteq written'
    /\ held \ LocksOf(s) \subseteq held'
    /\ Claimed(s)' /\ ~Claimed(s) => ClaimOf(s) \in held'
    /\ Claimed(s)' /\ Claimed(s) => held' = held
    /\ spc'[s] \in {"make_final", "rename"} => Binding(s)
    /\ spc'[s] = "stat" => LayoutValid
    /\ ~Binding(s) => /\ seal'["claim"] \in {seal["claim"], NoInode, ClaimOf(s)}
                      /\ seal'["final"] \in {seal["final"], NoInode}

LEMMA SealerCallSteps ==
    ASSUME SealTypeOK, NEW s \in Sealers, SealCall(s), spc[s] = "lock" => found[s] \in Inodes
    PROVE  SealerSteps(s)
  <1>a. "claim" \in SealFiles /\ "final" \in SealFiles /\ "claim" # "final"
    BY DEF SealFiles
  <1>b. "bundle" \notin Created
    BY RequiredIsCreated
  <1>c. /\ spc \in [Sealers -> SealSteps] /\ found \in [Sealers -> Inodes \cup {NoInode}]
        /\ seal \in [SealFiles -> Inodes \cup {NoInode}]
        /\ written \subseteq Inodes
    BY SealAssumption DEF SealTypeOK, FilesTypeOK
  <1> USE <1>a, <1>b, <1>c
          DEF SealerSteps, Binding, Claimed, LocksOf, SealSteps, filesVars, otherVars, GoSeal,
              Continue, Refuse, End, Closes
  <1>1. CASE Start(s)
    BY <1>1 DEF Start, SealTest
  <1>2. CASE OpenReceipt(s)
    BY <1>2 DEF OpenReceipt
  <1>3. CASE LockFound(s)
    BY <1>3 DEF LockFound
  <1>4. CASE RecoverBundle(s)
    BY <1>4 DEF RecoverBundle
  <1>5. CASE RecoverFinal(s)
    BY <1>5 DEF RecoverFinal
  <1>6. CASE RecoverClaim(s)
    BY <1>6 DEF RecoverClaim
  <1>7. CASE CreateClaim(s)
    BY <1>7 DEF CreateClaim
  <1>8. CASE WriteClaim(s)
    BY <1>8 DEF WriteClaim
  <1>9. CASE LockClaim(s)
    BY <1>9 DEF LockClaim
  <1>10. CASE UnlinkClaim(s)
    BY <1>10 DEF UnlinkClaim
  <1>11. CASE CreateBundle(s)
    BY <1>11 DEF CreateBundle
  <1>12. CASE WriteBundle(s)
    BY <1>12 DEF WriteBundle
  <1>13. CASE CheckBundle(s)
    BY <1>13 DEF CheckBundle
  <1>14. CASE StatClaim(s)
    BY <1>14 DEF StatClaim
  <1>15. CASE MakeFinal(s)
    BY <1>15 DEF MakeFinal
  <1>16. CASE RenameFinal(s)
    BY <1>16 DEF RenameFinal
  <1>17. CASE UndoBundle(s)
    BY <1>17 DEF UndoBundle
  <1>18. CASE UndoFinal(s)
    BY <1>18 DEF UndoFinal
  <1>19. CASE UndoClaim(s)
    BY <1>19 DEF UndoClaim
  <1> HIDE DEF SealerSteps, Binding, Claimed, LocksOf, SealSteps, filesVars, otherVars, GoSeal,
              Continue, Refuse, End, Closes
  <1> QED
    BY <1>1, <1>2, <1>3, <1>4, <1>5, <1>6, <1>7, <1>8, <1>9, <1>10,
       <1>11, <1>12, <1>13, <1>14, <1>15, <1>16, <1>17, <1>18, <1>19 DEF SealCall

LEMMA SealerFails ==
    ASSUME SealTypeOK, NEW s \in Sealers, SealCrash(s) \/ SealFault(s)
    PROVE  SealerSteps(s)
  <1>1. held \ LocksOf(s) \subseteq held'
    BY DEF SealCrash, SealFault, End, Closes
  <1>2. /\ spc' = [spc EXCEPT ![s] = spc'[s]]
        /\ spc'[s] \in {"done", "undo_bundle", "unlink_claim"}
        /\ UNCHANGED << root, entries, registered, seal, written, found, accepted >>
    BY Failing
  <1> QED
    BY <1>1, <1>2 DEF SealerSteps, Claimed, Binding

\* The layout is what it was, and no sealer comes to be bound without it.
LEMMA SealerUnbinds ==
    ASSUME NEW s \in Sealers, SealTypeOK, SealerSteps(s), Sealable'
    PROVE  Sealable
  <1>1. LayoutValid' => LayoutValid
    BY RequiredIsCreated DEF LayoutValid, SealerSteps
  <1>2. ASSUME NEW t \in Sealers, Binding(t)'
        PROVE  Sealable
    <2>1. CASE t = s
      BY <1>2, <2>1 DEF SealerSteps, Binding, Sealable
    <2>2. CASE t # s
      <3>1. spc'[t] = spc[t]
        BY <2>2 DEF SealerSteps, SealTypeOK
      <3>2. CASE spc[t] \in {"make_final", "rename"}
        BY <3>2 DEF Binding, Sealable
      <3>3. CASE spc[t] \notin {"make_final", "rename"} /\ ~Binding(s)
        <4>1. spc[t] = "stat" /\ seal'["claim"] = ClaimOf(t)
          BY <1>2, <3>1, <3>3 DEF Binding
        <4>2. ClaimOf(t) # ClaimOf(s) /\ ClaimOf(t) # NoInode
          BY <2>2, InodeFacts
        <4>3. seal["claim"] = ClaimOf(t)
          BY <3>3, <4>1, <4>2 DEF SealerSteps
        <4> QED
          BY <4>1, <4>3 DEF Binding, Sealable
      <3> QED
        BY <3>2, <3>3 DEF Sealable
    <2> QED
      BY <2>1, <2>2
  <1> QED
    BY <1>1, <1>2 DEF Sealable

\* Of two sealers the other keeps its lock.
LEMMA SealerLocks ==
    ASSUME SealTypeOK, Ownership, LockHeld, NEW s \in Sealers, SealerSteps(s)
    PROVE  LockHeld'
  <1>1. Claimed(s)' => ClaimOf(s) \in held'
    BY DEF SealerSteps, LockHeld
  <1>2. ASSUME NEW t \in Sealers \ {s}, Claimed(t)'
        PROVE  ClaimOf(t) \in held'
    <2>1. Claimed(t) /\ Owner(t)
      BY <1>2 DEF SealerSteps, SealTypeOK, Claimed, Owner, Owning
    <2>2. ClaimOf(t) \notin LocksOf(s)
      <3>1. ClaimOf(t) # ClaimOf(s)
        BY InodeFacts
      <3>2. LocksOf(s) \subseteq {found[s], ClaimOf(s)}
            /\ (found[s] \in LocksOf(s) => Owner(s) \/ found[s] = ClaimOf(s))
        BY DEF LocksOf, Owner, Recovery
      <3> QED
        BY <2>1, <3>1, <3>2, OneOwner
    <2> QED
      BY <2>1, <2>2 DEF LockHeld, SealerSteps
  <1> QED
    BY <1>1, <1>2 DEF LockHeld

LEMMA SealNextBeside ==
    ASSUME SealingBeside, Exclusive, SealNext
    PROVE  /\ SealingBeside' /\ (Sealable' => Sealable) /\ (Spent => Spent')
           /\ root' = root /\ registered' = registered
           /\ entries' \cap Created = entries \cap Created
           /\ ~Sealable => \/ seal'["claim"] \in {seal["claim"], NoInode}
                           \/ \E s \in Sealers : seal'["claim"] = ClaimOf(s)
  <1> USE DEF SealingBeside
  <1>1. ASSUME NEW s \in Sealers, SealCall(s) \/ SealCrash(s) \/ SealFault(s)
        PROVE  /\ SealingBeside' /\ (Sealable' => Sealable) /\ (Spent => Spent')
               /\ root' = root /\ registered' = registered
               /\ entries' \cap Created = entries \cap Created
               /\ ~Sealable => \/ seal'["claim"] \in {seal["claim"], NoInode}
                               \/ \E t \in Sealers : seal'["claim"] = ClaimOf(t)
    <2>1. SealTypeOK' /\ SealerSteps(s)
      BY <1>1, CallTyped, FailureTyped, SealerCallSteps, SealerFails
    <2>2. Sealable' => Sealable
      BY <2>1, SealerUnbinds
    <2>3. \A t \in Sealers : spc'[t] = "lock" => found'[t] \in Inodes
      BY <2>1 DEF SealerSteps, SealTypeOK
    <2>4. ReadersOnlySealed'
      BY <2>1 DEF SealerSteps, ReadersOnlySealed
    <2>5. Sealable' => Ownership' /\ LockHeld'
      <3>1. [SealNext]_sealSpecVars
        BY <1>1 DEF SealNext
      <3> QED
        BY <2>1, <2>2, <3>1, SealStepOwned, SealerLocks
    <2>6. ~Sealable => /\ seal'["claim"] \in {seal["claim"], NoInode, ClaimOf(s)}
                       /\ seal'["final"] \in {seal["final"], NoInode}
      BY <2>1 DEF SealerSteps, Sealable
    <2>7. Spent => Spent'
      BY <2>2, <2>6, InodeFacts DEF Spent, SealFiles
    <2>8. /\ root' = root /\ registered' = registered
          /\ entries' \cap Created = entries \cap Created
      BY <2>1 DEF SealerSteps
    <2> QED
      BY <2>1, <2>2, <2>3, <2>4, <2>5, <2>6, <2>7, <2>8
  <1>2. CASE ReadBundle \/ ReadReceipt
    <2>1. UNCHANGED << filesVars, written, spc, found >>
      BY <1>2 DEF ReadBundle, ReadReceipt
    <2>2. SealTypeOK' /\ ReadersOnlySealed'
      BY <1>2, ReadTyped, ReadingSealed
    <2>3. /\ Sealable' = Sealable /\ (Ownership => Ownership') /\ (LockHeld => LockHeld')
      BY <2>1 DEF Sealable, Binding, LayoutValid, LockHeld, Claimed, Ownership, NoTwinsRun,
                  Running, Claims, Finals, filesVars
    <2>4. Spent => Spent'
      BY <2>1, <2>3 DEF Spent, filesVars
    <2> QED
      BY <2>1, <2>2, <2>3, <2>4 DEF filesVars
  <1> QED
    BY <1>1, <1>2 DEF SealNext

(***************************************************************************)
(* A step of a cleanup beside the sealing.                                 *)
(***************************************************************************)
\* A cleanup only takes away: entries, the root and, once no result can be
\* sealed, the receipts.  It lets go of no lock but one that it took for that.
CleanerSteps(c) ==
    /\ entries' \subseteq entries /\ (root' => root)
    /\ \A f \in SealFiles : seal'[f] \in {seal[f], NoInode}
    /\ Sealable => seal' = seal /\ held \subseteq held'

LEMMA LeavingSteps ==
    ASSUME SealTypeOK, NEW c \in Cleaners, CallSpends(c), Leave(c)
    PROVE  CleanerSteps(c)
  <1>1. NoInode \notin held
    BY InvocationFilesAssumption DEF SealTypeOK, FilesTypeOK
  <1>2. Sealable => holds[c] = NoInode \/ pc[c] = "unlink_final" \/ pc[c] = "unlink_claim"
    BY DEF CallSpends
  <1>3. Sealable => holds[c] = NoInode
    BY <1>2 DEF CallSpends
  <1> QED
    BY <1>1, <1>3 DEF Leave, CleanerSteps

LEMMA CleanerFrames ==
    ASSUME TypeOK, SealTypeOK, NEW c \in Cleaners, CallSpends(c),
           Begin(c) \/ Call(c) \/ Fault(c) \/ Crash(c)
    PROVE  CleanerSteps(c)
  <1>1. CASE Leave(c)
    BY <1>1, LeavingSteps
  <1>2. CASE ~Leave(c)
    <2>1. ASSUME NEW ok, NEW step, Test(c, ok, step)
          PROVE  UNCHANGED filesVars
      BY <1>2, <2>1 DEF Test, Reject, Return
    <2>2. CASE Begin(c) \/ GitProbe(c) \/ CreateFile(c) \/ WriteFile(c) \/ Recheck(c)
               \/ MarkProgress(c) \/ CheckAbsent(c)
      <3>1. UNCHANGED filesVars
        BY <2>1, <2>2 DEF Begin, GitProbe, CreateFile, WriteFile, Recheck, MarkProgress,
                          CheckAbsent
      <3> QED
        BY <3>1 DEF CleanerSteps, filesVars
    <2>3. CASE ReadLedger(c) \/ OpenRoot(c) \/ ReplaceLedger(c)
      <3>1. UNCHANGED filesVars
        BY <1>2, <2>3 DEF ReadLedger, OpenRoot, ReplaceLedger, AfterReplace, Reject, Return
      <3> QED
        BY <3>1 DEF CleanerSteps, filesVars
    <2>4. CASE DropWorktree(c) \/ RemoveOwned(c) \/ RemoveRoot(c)
      <3>1. /\ entries' \subseteq entries /\ (root' => root) /\ UNCHANGED << seal, held >>
        BY <1>2, <2>4 DEF DropWorktree, RemoveOwned, RemoveRoot, Reject, Return
      <3> QED
        BY <3>1 DEF CleanerSteps
    <2>5. ASSUME NEW f \in SealFiles, LockSealFile(c, f)
          PROVE  CleanerSteps(c)
      <3>1. CASE \E ok, step : Test(c, ok, step)
        BY <2>1, <3>1 DEF CleanerSteps, filesVars
      <3>2. CASE held' = held \cup {seal[f]} /\ UNCHANGED << root, entries, seal >>
        BY <3>2 DEF CleanerSteps
      <3> QED
        BY <1>2, <2>5, <3>1, <3>2 DEF LockSealFile, Reject, Return
    <2>6. ASSUME NEW f \in SealFiles, UnlinkSealFile(c, f)
          PROVE  CleanerSteps(c)
      <3>1. ~Sealable
        BY <2>6, ReceiptSteps DEF UnlinkSealFile, CallSpends
      <3>2. seal' = [seal EXCEPT ![f] = NoInode] /\ UNCHANGED << root, entries >>
        BY <1>2, <2>6 DEF UnlinkSealFile, Reject, Return
      <3> QED
        BY <3>1, <3>2 DEF CleanerSteps, TypeOK, FilesTypeOK
    <2>7. CASE Fault(c) \/ Crash(c)
      BY <1>2, <2>7 DEF Fault, Crash, Return
    <2> QED
      BY <2>2, <2>3, <2>4, <2>5, <2>6, <2>7 DEF Call
  <1> QED
    BY <1>1, <1>2

\* It goes on by itself: what another call has seen and done is left to that call.
LEMMA OnlyOwnSteps ==
    ASSUME TypeOK, NEW c \in Cleaners, Begin(c) \/ Call(c) \/ Fault(c) \/ Crash(c)
    PROVE  OthersKept(c)
  <1> USE DEF OthersKept, Goto, TypeOK
  <1>1. CASE Leave(c)
    BY <1>1 DEF Leave
  <1>2. CASE ~Leave(c)
    <2>1. ASSUME NEW ok, NEW step, Test(c, ok, step)
          PROVE  OthersKept(c)
      BY <1>2, <2>1 DEF Test, Reject, Return
    <2>2. CASE Begin(c) \/ GitProbe(c) \/ CreateFile(c) \/ WriteFile(c) \/ Recheck(c)
               \/ MarkProgress(c) \/ CheckAbsent(c)
      BY <2>1, <2>2 DEF Begin, GitProbe, CreateFile, WriteFile, Recheck, MarkProgress,
                        CheckAbsent
    <2>3. CASE ReadLedger(c) \/ OpenRoot(c) \/ ReplaceLedger(c)
      BY <1>2, <2>3 DEF ReadLedger, OpenRoot, ReplaceLedger, AfterReplace, Reject, Return
    <2>4. CASE DropWorktree(c) \/ RemoveOwned(c) \/ RemoveRoot(c)
      BY <1>2, <2>4 DEF DropWorktree, RemoveOwned, RemoveRoot, Reject, Return
    <2>5. ASSUME NEW f \in SealFiles, LockSealFile(c, f)
          PROVE  OthersKept(c)
      BY <1>2, <2>1, <2>5 DEF LockSealFile, Reject, Return
    <2>6. ASSUME NEW f \in SealFiles, UnlinkSealFile(c, f)
          PROVE  OthersKept(c)
      BY <1>2, <2>6 DEF UnlinkSealFile, Reject, Return
    <2>7. CASE Fault(c) \/ Crash(c)
      BY <1>2, <2>7 DEF Fault, Crash, Return
    <2> QED
      BY <2>2, <2>3, <2>4, <2>5, <2>6, <2>7 DEF Call
  <1> QED
    BY <1>1, <1>2

\* So a result that could not be sealed still cannot, and the sealers keep what
\* they had.
LEMMA CleanerBeside ==
    ASSUME SealingBeside, NEW c \in Cleaners, CleanerSteps(c), UNCHANGED sealVars, TypeOK'
    PROVE  SealingBeside' /\ (Sealable' => Sealable) /\ (Spent => Spent')
  <1>1. Sealable' => Sealable
    <2>1. LayoutValid' => LayoutValid
      BY DEF LayoutValid, CleanerSteps
    <2>2. ASSUME NEW s \in Sealers, Binding(s)'
          PROVE  Binding(s)
      BY <2>2, InodeFacts DEF Binding, CleanerSteps, sealVars, SealFiles
    <2> QED
      BY <2>1, <2>2 DEF Sealable
  <1>2. Spent => Spent'
    BY <1>1 DEF Spent, CleanerSteps
  <1>3. SealTypeOK'
    BY DEF SealingBeside, SealTypeOK, TypeOK, sealVars
  <1>4. (\A s \in Sealers : spc'[s] = "lock" => found'[s] \in Inodes) /\ ReadersOnlySealed'
    BY DEF SealingBeside, ReadersOnlySealed, sealVars
  <1>5. Sealable' => Ownership' /\ LockHeld'
    <2>1. ASSUME Sealable
          PROVE  Ownership' /\ LockHeld'
      <3>1. Ownership /\ LockHeld /\ seal' = seal /\ held \subseteq held'
        BY <2>1 DEF SealingBeside, CleanerSteps
      <3>2. UNCHANGED << spc, found, written >>
        BY DEF sealVars
      <3> QED
        BY <3>1, <3>2 DEF Ownership, NoTwinsRun, Running, Claims, Finals, LockHeld, Claimed
    <2> QED
      BY <1>1, <2>1
  <1> QED
    BY <1>1, <1>2, <1>3, <1>4, <1>5 DEF SealingBeside

(***************************************************************************)
(* What a cleanup knows when it has spent the invocation.                  *)
(***************************************************************************)
LedgerSpends ==
    /\ ~root' => Spent
    /\ file'["complete_tmp"].phase # "absent" => Spent
    /\ file'["ledger"].phase = "complete" => Spent
    /\ cleaned' > 0 => Spent

LEMMA QuietSpends ==
    ASSUME Spending, UNCHANGED << root, file, cleaned >>
    PROVE  LedgerSpends
  BY DEF Spending, LedgerSpends

LEMMA LeavingSpends ==
    ASSUME TypeOK, Spending, NEW c \in Cleaners, Leave(c), UNCHANGED << file, cleaned >>
    PROVE  CallSpends(c)' /\ LedgerSpends
  <1>1. pc'[c] = "idle" /\ phase'[c] = "absent" /\ holds'[c] = NoInode
    BY DEF Leave, Goto, TypeOK
  <1>2. CallSpends(c)'
    BY <1>1 DEF CallSpends
  <1> QED
    BY <1>2, QuietSpends DEF Leave

\* A test that succeeds leaves the call where step says.
LEMMA PassingSpends ==
    ASSUME TypeOK, Spending, NEW c \in Cleaners, NEW step \in Steps, Passes(c, step)
    PROVE  /\ LedgerSpends /\ pc'[c] = step /\ phase'[c] = phase[c]
           /\ anchored'[c] = anchored[c] /\ holds'[c] = holds[c]
           /\ root' = root /\ seal' = seal
  BY QuietSpends DEF Passes, Goto, TypeOK, filesVars

\* While a result can be sealed, a cleanup that has removed everything else finds
\* the claim locked.
LEMMA ClaimLocked ==
    ASSUME Removing, SealingBeside, NEW c \in Cleaners, phase[c] = "contents_removed",
           Sealable
    PROVE  seal["claim"] # NoInode /\ seal["claim"] \in held
  <1>1. CreatedGone
    BY DEF Removing, Emptied, Emptying
  <1>2. ~LayoutValid
    BY <1>1, RequiredIsCreated DEF CreatedGone, LayoutValid
  <1>3. PICK s \in Sealers : Binding(s)
    BY <1>2 DEF Sealable
  <1>4. Ownership /\ LockHeld
    BY DEF SealingBeside
  <1>5. seal["claim"] = ClaimOf(s) /\ Claimed(s)
    BY <1>3, <1>4 DEF Binding, Claimed, Ownership, Claims, Owning
  <1> QED
    BY <1>4, <1>5, InodeFacts DEF LockHeld

LEMMA CleanerSpends ==
    ASSUME TypeOK, Removing, SealingBeside, Spending, NEW c \in Cleaners,
           Begin(c) \/ Call(c) \/ Fault(c) \/ Crash(c),
           Sealable' => Sealable, Spent => Spent'
    PROVE  CallSpends(c)' /\ LedgerSpends
  <1>a. TypeOK /\ StepOfPhase /\ CallSpends(c) /\ Receipts
    BY DEF Removing, Spending
  <1>b. phase[c] \in Phases /\ pc[c] \in Steps
    BY <1>a DEF TypeOK
  <1>c. ASSUME Reject(c)
        PROVE  CallSpends(c)' /\ LedgerSpends
    BY <1>a, <1>c, LeavingSpends DEF Reject, Return
  <1>1. CASE Begin(c)
    <2>1. /\ pc[c] = "idle" /\ pc'[c] = "ledger"
          /\ UNCHANGED << root, file, cleaned, phase, holds >>
      BY <1>1, <1>a DEF Begin, Goto, TypeOK, filesVars
    <2> QED
      BY <1>a, <2>1, QuietSpends DEF CallSpends, StepOfPhase
  <1>2. CASE ReadLedger(c)
    <2>1. CASE Return(c, "already_consumed") /\ UNCHANGED << file, cleaned, faults, crashes >>
      BY <1>a, <2>1, LeavingSpends DEF Return
    <2>2. CASE /\ Goto(c, "root")
               /\ UNCHANGED << filesVars, file, loaded, seen, anchored, at, holds, result,
                               cleaned, faults, crashes >>
      <3>1. pc'[c] = "root" /\ UNCHANGED << root, file, cleaned, holds >>
        BY <1>a, <2>2 DEF Goto, TypeOK, filesVars
      <3>2. pc[c] = "ledger"
        BY <1>2 DEF ReadLedger
      <3> QED
        BY <1>a, <3>1, <3>2, QuietSpends DEF CallSpends
    <2> QED
      BY <1>2, <1>c, <2>1, <2>2 DEF ReadLedger
  <1>3. CASE OpenRoot(c)
    <2>1. CASE /\ anchored' = [anchored EXCEPT ![c] = root]
               /\ Goto(c, "probe")
               /\ UNCHANGED << filesVars, file, loaded, phase, seen, at, holds, result,
                               cleaned, faults, crashes >>
      <3>1. /\ pc'[c] = "probe" /\ anchored'[c] = root
            /\ UNCHANGED << root, file, cleaned, phase, holds >> /\ pc[c] = "root"
        BY <1>a, <1>3, <2>1 DEF Goto, TypeOK, filesVars, OpenRoot
      <3> QED
        BY <1>a, <3>1, QuietSpends DEF CallSpends
    <2> QED
      BY <1>3, <1>c, <2>1 DEF OpenRoot
  <1>4. CASE GitProbe(c)
    <2>1. /\ pc'[c] = "recheck" /\ pc[c] = "probe"
          /\ UNCHANGED << root, file, cleaned, phase, holds, anchored >>
      BY <1>a, <1>4 DEF GitProbe, Goto, TypeOK, filesVars
    <2> QED
      BY <1>a, <2>1, QuietSpends DEF CallSpends
  <1>5. CASE Recheck(c)
    <2>1. CASE pc[c] = "recheck" /\ \E step \in {"create", "drop"} :
                   Passes(c, step) /\ (step = "create" => phase[c] = "absent")
      <3>1. PICK step \in {"create", "drop"} :
                Passes(c, step) /\ (step = "create" => phase[c] = "absent")
        BY <2>1
      <3>2. step \in Steps
        BY DEF Steps
      <3> QED
        BY <1>a, <2>1, <3>1, <3>2, PassingSpends DEF CallSpends
    <2>2. pc[c] = "recheck" /\ (Reject(c) \/ \E step \in {"create", "drop"} :
                   Passes(c, step) /\ (step = "create" => phase[c] = "absent"))
      BY <1>5, TestSplits DEF Recheck
    <2> QED
      BY <1>c, <2>1, <2>2
  <1>6. CASE CreateFile(c)
    <2> DEFINE name == Target(phase[c])
               next == Successor[phase[c]]
    <2>0. pc[c] = "create"
      BY <1>6 DEF CreateFile
    <2>1. CASE /\ file[name] = Absent
               /\ file' = [file EXCEPT ![name] = Torn(next, c)]
               /\ Goto(c, "write")
               /\ UNCHANGED << filesVars, loaded, phase, seen, anchored, at, holds,
                               result, cleaned, faults, crashes >>
      <3>1. pc'[c] = "write" /\ UNCHANGED << root, cleaned, phase, holds, anchored >>
        BY <1>a, <2>1 DEF Goto, TypeOK, filesVars
      <3>2. CallSpends(c)'
        BY <1>a, <2>0, <3>1 DEF CallSpends
      <3>3. /\ phase[c] = "absent" => name = "ledger" /\ next = "claimed"
            /\ phase[c] = "claimed" => name = "contents_tmp" /\ next = "contents_removed"
            /\ phase[c] = "contents_removed" => name = "complete_tmp"
            /\ phase[c] # "complete"
        BY <1>a, ReceiptOf DEF StepOfPhase
      <3>4. /\ file'["complete_tmp"].phase # "absent" =>
                   file["complete_tmp"].phase # "absent" \/ phase[c] = "contents_removed"
            /\ file'["ledger"].phase = "complete" => file["ledger"].phase = "complete"
        BY <1>a, <1>b, <2>1, <3>3 DEF TypeOK, Names, Torn, Phases
      <3>5. phase[c] = "contents_removed" => Spent
        BY <1>a, <2>0 DEF CallSpends
      <3> QED
        BY <3>1, <3>2, <3>4, <3>5 DEF LedgerSpends, Spending
    <2>2. CASE Passes(c, "replace")
      BY <1>a, <2>0, <2>2, PassingSpends DEF CallSpends, Steps
    <2> QED
      BY <1>6, <1>c, <2>1, <2>2, TestSplits DEF CreateFile
  <1>7. CASE WriteFile(c)
    <2>1. /\ pc[c] = "write" /\ file' = Settle(file, c, Nobody)
          /\ UNCHANGED << root, cleaned, holds, anchored >>
          /\ \/ phase[c] = "absent" /\ phase'[c] = "claimed" /\ pc'[c] = "drop"
             \/ phase'[c] = phase[c] /\ pc'[c] = "replace"
      BY <1>a, <1>7 DEF WriteFile, Goto, TypeOK, filesVars
    <2>2. CallSpends(c)'
      BY <1>a, <2>1 DEF CallSpends
    <2>3. \A n \in Names : file'[n].phase = file[n].phase
      BY <1>a, <2>1, SettleKeeps DEF Writers
    <2> QED
      BY <2>1, <2>2, <2>3 DEF LedgerSpends, Spending, Names
  <1>8. CASE ReplaceLedger(c)
    <2>0. PICK p \in Phases : p = phase[c]
      BY <1>b
    <2>1. pc[c] = "replace" /\ p \in {"claimed", "contents_removed"}
      BY <1>a, <1>8, <2>0 DEF ReplaceLedger, StepOfPhase, Phases
    <2>2. CASE /\ file[Target(p)] # Absent
               /\ file' = [file EXCEPT !["ledger"] = file[Target(p)], ![Target(p)] = Absent]
               /\ AfterReplace(c)
      <3>1. /\ p = "claimed" => Target(p) = "contents_tmp" /\ Successor[p] = "contents_removed"
            /\ p = "contents_removed" => Target(p) = "complete_tmp"
        BY ReceiptOf
      <3>2. p = "contents_removed" => Spent
        BY <1>a, <2>0, <2>1 DEF CallSpends
      <3>3. p = "claimed" => file["contents_tmp"].phase = "contents_removed"
        BY <1>a, <2>2, <3>1 DEF Receipts, Names
      <3>4. file'["complete_tmp"].phase # "absent" => file["complete_tmp"].phase # "absent"
        BY <1>a, <2>1, <2>2, <3>1 DEF TypeOK, Names, Absent
      <3>5. p = "claimed" => file'["ledger"].phase = "contents_removed"
        BY <1>a, <2>1, <2>2, <3>1, <3>3 DEF TypeOK, Names
      <3>6. CASE p = "claimed"
        <4>1. /\ pc'[c] = "claim" /\ phase'[c] = "contents_removed"
              /\ UNCHANGED << root, cleaned, holds, anchored >>
          BY <1>a, <2>0, <2>2, <3>6 DEF AfterReplace, Goto, TypeOK, filesVars
        <4> QED
          BY <1>a, <2>1, <3>4, <3>5, <3>6, <4>1 DEF CallSpends, LedgerSpends, Spending
      <3>7. CASE p = "contents_removed"
        <4>1. /\ pc'[c] = "idle" /\ phase'[c] = "absent" /\ holds'[c] = NoInode
              /\ root' = root
          BY <1>a, <2>0, <2>2, <3>7 DEF AfterReplace, Return, Leave, Goto, TypeOK
        <4> QED
          BY <3>2, <3>7, <4>1 DEF CallSpends, LedgerSpends
      <3> QED
        BY <2>1, <3>6, <3>7
    <2> QED
      BY <1>8, <1>c, <2>0, <2>2 DEF ReplaceLedger
  <1>9. CASE DropWorktree(c)
    <2>1. CASE ~Reject(c)
      <3>1. /\ \/ phase[c] = "claimed" /\ pc' = [pc EXCEPT ![c] = "remove"]
               \/ anchored[c] /\ phase[c] # "claimed" /\ pc' = [pc EXCEPT ![c] = "claim"]
               \/ ~anchored[c] /\ phase[c] # "claimed" /\ pc' = [pc EXCEPT ![c] = "mark"]
            /\ UNCHANGED << root, file, cleaned, phase, holds, anchored >> /\ pc[c] = "drop"
        BY <1>9, <2>1 DEF DropWorktree, Goto
      <3>2. phase[c] \in {"claimed", "contents_removed"}
        BY <1>a, <1>b, <3>1 DEF StepOfPhase, Phases
      <3>3. ~anchored[c] => Spent
        BY <1>a, <3>1 DEF CallSpends, Spending
      <3> QED
        BY <1>a, <3>1, <3>2, <3>3, QuietSpends DEF CallSpends, TypeOK
    <2> QED
      BY <1>c, <2>1
  <1>10. CASE RemoveOwned(c)
    <2>1. CASE ~Reject(c)
      <3>1. /\ \/ pc' = pc \/ pc' = [pc EXCEPT ![c] = "mark"]
            /\ UNCHANGED << root, file, cleaned, phase, holds, anchored >> /\ pc[c] = "remove"
        BY <1>10, <2>1 DEF RemoveOwned, Goto
      <3>2. phase[c] = "claimed"
        BY <1>a, <1>b, <3>1 DEF StepOfPhase, Phases
      <3> QED
        BY <1>a, <3>1, <3>2, QuietSpends DEF CallSpends, TypeOK
    <2> QED
      BY <1>c, <2>1
  <1>11. CASE MarkProgress(c)
    <2>1. pc[c] = "mark" /\ (Reject(c) \/ Passes(c, "create"))
      BY <1>11, TestSplits DEF MarkProgress
    <2> QED
      BY <1>a, <1>c, <2>1, PassingSpends DEF CallSpends, Steps
  <1>12. CASE CheckAbsent(c)
    <2>1. pc[c] = "check" /\ (Reject(c) \/ Passes(c, "rmdir"))
      BY <1>12, TestSplits DEF CheckAbsent
    <2> QED
      BY <1>a, <1>c, <2>1, PassingSpends DEF CallSpends, Steps
  <1>13. ASSUME NEW f \in SealFiles, LockSealFile(c, f)
         PROVE  CallSpends(c)' /\ LedgerSpends
    <2>0. /\ pc[c] = f /\ f \in {"claim", "final"} /\ phase[c] = "contents_removed"
          /\ holds[c] = NoInode
      BY <1>a, <1>13, ReceiptSteps DEF LockSealFile, CallSpends
    <2>1. seal["claim"] \notin held \/ seal["claim"] = NoInode => ~Sealable
      BY <2>0, ClaimLocked
    <2>2. f = "final" => ~Sealable /\ (seal["claim"] = NoInode \/ ~IsFinal(seal["claim"]))
      BY <1>a, <2>0 DEF CallSpends
    <2>3. CASE seal[f] = NoInode /\ Passes(c, NextSealStep[f])
      <3>1. NextSealStep[f] \in Steps
        BY ReceiptSteps DEF Steps
      <3>2. /\ LedgerSpends /\ pc'[c] = NextSealStep[f] /\ phase'[c] = phase[c]
            /\ anchored'[c] = anchored[c] /\ holds'[c] = holds[c]
            /\ root' = root /\ seal' = seal
        BY <1>a, <2>3, <3>1, PassingSpends
      <3>3. CASE f = "claim"
        <4>1. pc'[c] = "final" /\ ~Sealable' /\ seal'["claim"] = NoInode
          BY <2>1, <2>3, <3>2, <3>3, ReceiptSteps
        <4> QED
          BY <1>a, <2>0, <3>2, <3>3, <4>1 DEF CallSpends
      <3>4. CASE f = "final"
        <4>1. pc'[c] = "check" /\ Spent'
          BY <2>2, <2>3, <3>2, <3>4, ReceiptSteps DEF Spent, SealFiles
        <4> QED
          BY <1>a, <2>0, <3>2, <3>4, <4>1 DEF CallSpends
      <3> QED
        BY <2>0, <3>3, <3>4
    <2>4. CASE /\ seal[f] \notin held \cup {NoInode}
               /\ holds' = [holds EXCEPT ![c] = seal[f]] /\ Goto(c, UnlinkStep[f])
               /\ UNCHANGED << root, entries, registered, seal, file, loaded, phase, seen,
                               anchored, at, result, cleaned, faults, crashes >>
      <3>1. /\ pc'[c] = UnlinkStep[f]
            /\ UNCHANGED << root, seal, file, cleaned, phase, anchored >>
        BY <1>a, <2>4 DEF Goto, TypeOK
      <3>2. ~Sealable'
        BY <2>0, <2>1, <2>2, <2>4
      <3>3. LedgerSpends
        BY <3>1, QuietSpends
      <3>4. pc'[c] \in {"unlink_claim", "unlink_final"}
            /\ (pc'[c] = "unlink_final" => f = "final")
        BY <3>1, ReceiptSteps
      <3> QED
        BY <1>a, <2>0, <2>2, <3>1, <3>2, <3>3, <3>4 DEF CallSpends
    <2> QED
      BY <1>13, <1>c, <2>3, <2>4, TestSplits DEF LockSealFile
  <1>14. ASSUME NEW f \in SealFiles, UnlinkSealFile(c, f)
         PROVE  CallSpends(c)' /\ LedgerSpends
    <2>1. CASE ~Reject(c)
      <3>1. /\ pc[c] = UnlinkStep[f] /\ seal' = [seal EXCEPT ![f] = NoInode]
            /\ holds'[c] = NoInode /\ pc'[c] = NextSealStep[f]
            /\ UNCHANGED << root, file, cleaned, phase, anchored >>
        BY <1>a, <1>14, <2>1 DEF UnlinkSealFile, Goto, TypeOK
      <3>2. seal'[f] = NoInode /\ \A g \in SealFiles \ {f} : seal'[g] = seal[g]
        BY <1>a, <3>1 DEF TypeOK, FilesTypeOK
      <3>3. ~Sealable' /\ phase[c] = "contents_removed"
        BY <1>a, <3>1, ReceiptSteps DEF CallSpends
      <3>4. LedgerSpends
        BY <3>1, QuietSpends
      <3>5. CASE f = "claim"
        BY <1>a, <3>1, <3>2, <3>3, <3>4, <3>5, ReceiptSteps DEF CallSpends
      <3>6. CASE f = "final"
        <4>1. seal["claim"] = NoInode \/ ~IsFinal(seal["claim"])
          BY <1>a, <3>1, <3>6, ReceiptSteps DEF CallSpends
        <4>2. Spent'
          BY <3>2, <3>3, <3>6, <4>1 DEF Spent, SealFiles
        <4> QED
          BY <1>a, <3>1, <3>3, <3>4, <3>6, <4>2, ReceiptSteps DEF CallSpends
      <3> QED
        BY <3>5, <3>6, ReceiptSteps
    <2> QED
      BY <1>c, <2>1
  <1>15. CASE RemoveRoot(c)
    <2>1. CASE ~Reject(c)
      <3>1. /\ pc[c] = "rmdir" /\ root /\ pc'[c] = "mark"
            /\ UNCHANGED << seal, file, cleaned, phase, holds, anchored >>
        BY <1>a, <1>15, <2>1 DEF RemoveRoot, Goto, TypeOK
      <3>2. Spent /\ Spent' /\ phase[c] = "contents_removed"
        BY <1>a, <3>1 DEF CallSpends
      <3> QED
        BY <1>a, <3>1, <3>2 DEF CallSpends, LedgerSpends
    <2> QED
      BY <1>c, <2>1
  <1>16. CASE Fault(c) \/ Crash(c)
    <2>1. pc'[c] = "idle" /\ phase'[c] = "absent" /\ holds'[c] = NoInode /\ root' = root
          /\ cleaned' = cleaned
      BY <1>a, <1>16 DEF Fault, Crash, Return, Leave, Goto, TypeOK
    <2>2. \A n \in Names : file'[n].phase = file[n].phase \/ file'[n].phase = "absent"
      <3>0. Target(phase[c]) \in Names /\ Dead \in Writers
        BY <1>b, ReceiptNames DEF Writers
      <3>1. \A n \in Names : Settle(file, c, Dead)[n].phase = file[n].phase
        BY <1>a, <3>0, SettleKeeps
      <3>2. Settle(file, c, Dead) = [n \in Names |-> Settle(file, c, Dead)[n]]
        BY DEF Settle
      <3>3. CASE Crash(c)
        BY <3>1, <3>3 DEF Crash
      <3>4. CASE Fault(c) /\ pc[c] # "write"
        BY <3>4 DEF Fault
      <3>5. CASE Fault(c) /\ pc[c] = "write"
        <4>1. file' = [Settle(file, c, Dead) EXCEPT ![Target(phase[c])] = Absent]
          BY <3>5 DEF Fault
        <4>2. \A n \in Names : file'[n] = Absent \/ file'[n] = Settle(file, c, Dead)[n]
          BY <3>0, <3>2, <4>1
        <4> QED
          BY <3>1, <4>2 DEF Absent
      <3> QED
        BY <1>16, <3>3, <3>4, <3>5
    <2>3. CallSpends(c)'
      BY <2>1 DEF CallSpends
    <2> QED
      BY <2>1, <2>2, <2>3 DEF LedgerSpends, Spending, Names
  <1> QED
    BY <1>1, <1>2, <1>3, <1>4, <1>5, <1>6, <1>7, <1>8, <1>9, <1>10, <1>11, <1>12, <1>13,
       <1>14, <1>15, <1>16 DEF Call

(***************************************************************************)
(* The invariant of the whole invocation.                                  *)
(***************************************************************************)
\* What needs no hypothesis: sealers leave alone what the removal is about.
RemovingBeside == TypeOK /\ Removing /\ SealTypes

LEMMA InvocationStarts ==
    ASSUME InvocationInit
    PROVE  RemovingBeside
  <1>1. SealInit /\ InitCleanup
    BY DEF InvocationInit
  <1>2. SealTypes /\ SealTypeOK /\ LayoutValid
    BY <1>1, SealBegins, SealTypesBegin DEF SealInvariant
  <1>3. TypeOK
    <2>1. /\ Absent \in [phase : Phases, writer : Writers]
          /\ 1 \in 1..Len(RemovalOrder)
      BY OrderCovers DEF Absent, Phases, Writers
    <2> QED
      BY <1>1, <1>2, <2>1, CleanupAssumption
         DEF SealTypeOK, InitCleanup, TypeOK, Phases, Steps, Results
  <1>4. Removing
    BY <1>1, <1>2, RemovingBegins DEF LayoutValid
  <1> QED
    BY <1>2, <1>3, <1>4 DEF RemovingBeside

LEMMA SealersLeaveFiles ==
    ASSUME SealTypes, SealNext
    PROVE  UNCHANGED << root, registered >> /\ entries' \cap Created = entries \cap Created
  <1>1. ASSUME NEW s \in Sealers, SealCall(s) \/ SealCrash(s) \/ SealFault(s)
        PROVE  /\ UNCHANGED << root, registered >>
               /\ entries' \cap Created = entries \cap Created
    <2>1. SealerSteps(s)
      BY <1>1, SealerCallSteps, SealerFails DEF SealTypes
    <2> QED
      BY <2>1 DEF SealerSteps
  <1>2. CASE ReadBundle \/ ReadReceipt
    BY <1>2 DEF ReadBundle, ReadReceipt, filesVars
  <1> QED
    BY <1>1, <1>2 DEF SealNext

LEMMA RemovingGoesOn ==
    ASSUME RemovingBeside, [InvocationNext]_invocationVars
    PROVE  RemovingBeside'
  <1>a. TypeOK /\ Removing /\ SealTypes /\ SealTypeOK
    BY DEF RemovingBeside, SealTypes
  <1>1. CASE CleanupNext /\ UNCHANGED sealVars
    <2>1. TypeOK' /\ Removing'
      BY <1>1, <1>a, TypeStep, CleanupSafe DEF Next
    <2>2. SealTypes'
      BY <1>1, <1>a, <2>1
         DEF SealTypes, SealTypeOK, TypeOK, ReadersOnlySealed, sealVars
    <2> QED
      BY <2>1, <2>2 DEF RemovingBeside
  <1>2. ASSUME SealTypes', UNCHANGED << root, registered, cleanupVars >>,
               entries' \cap Created = entries \cap Created
        PROVE  RemovingBeside'
    <2>1. Removing'
      BY <1>a, <1>2, RemovingStays
    <2>2. TypeOK'
      BY <1>a, <1>2 DEF SealTypes, SealTypeOK, TypeOK, cleanupVars, localVars
    <2> QED
      BY <1>2, <2>1, <2>2 DEF RemovingBeside
  <1>3. CASE SealNext /\ UNCHANGED cleanupVars
    BY <1>2, <1>3, <1>a, SealersLeaveFiles, SealTypesGoOn
  <1>4. CASE UNCHANGED invocationVars
    BY <1>2, <1>4, <1>a, SealTypesGoOn DEF invocationVars, sealSpecVars, filesVars
  <1> QED
    BY <1>1, <1>3, <1>4 DEF InvocationNext

\* The consumption goes on beside the sealers, as long as cleanups do not overlap.
LEMMA ConsumptionGoesOn ==
    ASSUME RemovingBeside, Consuming, ~Concurrent, [InvocationNext]_invocationVars
    PROVE  Consuming' /\ Moves
  <1>1. TypeOK'
    BY RemovingGoesOn DEF RemovingBeside
  <1>2. CASE UNCHANGED invocationVars
    BY <1>1, <1>2, SealingConsumes DEF invocationVars, filesVars
  <1>3. CASE CleanupNext
    BY <1>3, CleanupConsumes
  <1>4. CASE SealNext /\ UNCHANGED cleanupVars
    BY <1>1, <1>4, SealersLeaveFiles, SealingConsumes DEF RemovingBeside
  <1> QED
    BY <1>2, <1>3, <1>4 DEF InvocationNext

LEMMA CleanupGoesOn ==
    ASSUME InvocationInvariant, CleanupNext, UNCHANGED sealVars
    PROVE  InvocationInvariant'
  <1>a. TypeOK /\ Removing /\ SealingBeside /\ Spending /\ SealTypeOK
    BY DEF InvocationInvariant, SealingBeside
  <1>1. TypeOK' /\ Removing'
    BY <1>a, TypeStep, CleanupSafe DEF Next
  <1>2. PICK c \in Cleaners : Begin(c) \/ Call(c) \/ Fault(c) \/ Crash(c)
    BY DEF CleanupNext
  <1>3. OthersKept(c)
    BY <1>2, <1>a, OnlyOwnSteps
  <1>4. CleanerSteps(c)
    BY <1>2, <1>a, CleanerFrames DEF Spending
  <1>5. SealingBeside' /\ (Sealable' => Sealable) /\ (Spent => Spent')
    BY <1>1, <1>4, <1>a, CleanerBeside
  <1>6. CallSpends(c)' /\ LedgerSpends
    BY <1>2, <1>5, <1>a, CleanerSpends
  <1>7. ASSUME NEW d \in Cleaners \ {c}
        PROVE  CallSpends(d)'
    <2>1. CallSpends(d)
      BY <1>a DEF Spending
    <2>2. /\ root' => root
          /\ seal'["claim"] \in {seal["claim"], NoInode}
      BY <1>4 DEF CleanerSteps, SealFiles
    <2> QED
      BY <1>3, <1>5, <2>1, <2>2 DEF OthersKept, CallSpends
  <1>8. Spending'
    BY <1>5, <1>6, <1>7 DEF Spending, LedgerSpends
  <1> QED
    BY <1>1, <1>5, <1>8 DEF InvocationInvariant

LEMMA SealingGoesOn ==
    ASSUME InvocationInvariant, Exclusive, SealNext, UNCHANGED cleanupVars
    PROVE  InvocationInvariant'
  <1>a. TypeOK /\ Removing /\ SealingBeside /\ Spending
    BY DEF InvocationInvariant
  <1>1. /\ SealingBeside' /\ (Sealable' => Sealable) /\ (Spent => Spent')
        /\ root' = root /\ registered' = registered
        /\ entries' \cap Created = entries \cap Created
        /\ ~Sealable => \/ seal'["claim"] \in {seal["claim"], NoInode}
                        \/ \E s \in Sealers : seal'["claim"] = ClaimOf(s)
    BY <1>a, SealNextBeside
  <1>2. UNCHANGED << file, pc, phase, seen, anchored, at, holds, loaded, result, cleaned,
                     faults, crashes >>
    BY DEF cleanupVars, localVars
  <1>3. TypeOK'
    BY <1>a, <1>1, <1>2 DEF TypeOK, SealingBeside, SealTypeOK
  <1>4. Removing'
    BY <1>a, <1>1, RemovingStays
  <1>5. ASSUME NEW c \in Cleaners
        PROVE  CallSpends(c)'
    <2>1. CallSpends(c)
      BY <1>a DEF Spending
    <2>2. ~Sealable /\ (seal["claim"] = NoInode \/ ~IsFinal(seal["claim"])) =>
              seal'["claim"] = NoInode \/ ~IsFinal(seal'["claim"])
      BY <1>1, InodeFacts
    <2> QED
      BY <1>1, <1>2, <2>1, <2>2 DEF CallSpends
  <1>6. Spending'
    BY <1>a, <1>1, <1>2, <1>5 DEF Spending
  <1> QED
    BY <1>1, <1>3, <1>4, <1>6 DEF InvocationInvariant

LEMMA InvocationGoesOn ==
    ASSUME InvocationInvariant, Exclusive, [InvocationNext]_invocationVars
    PROVE  InvocationInvariant'
  <1>1. CASE UNCHANGED invocationVars
    <2>1. /\ UNCHANGED << root, entries, registered, seal, held >>
          /\ UNCHANGED << file, loaded, pc, phase, seen, anchored, at, holds, result, cleaned,
                          faults, crashes >>
          /\ UNCHANGED sealVars /\ UNCHANGED cleanupVars
      BY <1>1 DEF invocationVars, filesVars, cleanupVars, localVars
    <2>2. Sealable' = Sealable /\ Spent' = Spent
      BY <2>1 DEF Sealable, Spent, Binding, LayoutValid, sealVars
    <2>3. TypeOK' /\ Removing'
      BY <2>1, RemovingStays DEF InvocationInvariant, TypeOK, FilesTypeOK
    <2>4. SealingBeside'
      BY <2>1, <2>2
         DEF InvocationInvariant, SealingBeside, SealTypeOK, FilesTypeOK, ReadersOnlySealed,
             Ownership, NoTwinsRun, Running, Claims, Finals, LockHeld, Claimed, sealVars
    <2>5. Spending'
      BY <2>1, <2>2 DEF InvocationInvariant, Spending, CallSpends
    <2> QED
      BY <2>3, <2>4, <2>5 DEF InvocationInvariant
  <1>2. CASE InvocationNext
    BY <1>2, CleanupGoesOn, SealingGoesOn DEF InvocationNext
  <1> QED
    BY <1>1, <1>2

LEMMA InvocationBegins ==
    ASSUME InvocationInit
    PROVE  InvocationInvariant /\ Consuming
  <1>1. SealInit /\ InitCleanup
    BY DEF InvocationInit
  <1>2. TypeOK /\ Removing /\ SealTypeOK
    BY InvocationStarts DEF RemovingBeside, SealTypes
  <1>3. LayoutValid /\ Ownership
    BY <1>1, SealBegins DEF SealInvariant
  <1>4. SealingBeside
    BY <1>1, <1>2, <1>3
       DEF SealingBeside, LockHeld, Claimed, ReadersOnlySealed, SealInit, InitSeal
  <1>5. /\ file = [n \in Names |-> Absent]
        /\ \A c \in Cleaners : /\ pc[c] = "idle" /\ phase[c] = "absent" /\ at[c] = 1
                               /\ holds[c] = NoInode
        /\ cleaned = 0
    BY <1>1 DEF InitCleanup
  <1>6. Spending
    BY <1>1, <1>5 DEF Spending, CallSpends, Absent, Names, SealInit, InitSealFiles
  <1>7. Lone /\ \A c \in Cleaners : CallStands(c) /\ CallKnows(c) /\ CallRemoved(c)
    BY <1>5 DEF Lone, CallStands, CallKnows, CallRemoved
  <1>8. LedgerStands
    BY <1>3, <1>5, CleanupAssumption
       DEF LedgerStands, Receipts, Unledgered, LayoutValid, Absent, Names
  <1> QED
    BY <1>2, <1>4, <1>6, <1>7, <1>8 DEF InvocationInvariant, Consuming

LEMMA InvocationInvariance ==
    ASSUME Exclusive PROVE InvocationSpec => []InvocationInvariant
  <1>1. InvocationInvariant /\ [InvocationNext]_invocationVars => InvocationInvariant'
    BY InvocationGoesOn
  <1>2. InvocationInit => InvocationInvariant
    BY InvocationBegins
  <1> QED
    BY <1>1, <1>2, PTL DEF InvocationSpec

LEMMA RemovingInvariance == InvocationSpec => []RemovingBeside
  <1>1. RemovingBeside /\ [InvocationNext]_invocationVars => RemovingBeside'
    BY RemovingGoesOn
  <1>2. InvocationInit => RemovingBeside
    BY InvocationStarts
  <1> QED
    BY <1>1, <1>2, PTL DEF InvocationSpec

LEMMA ConsumptionInvariance ==
    ASSUME ~Concurrent PROVE InvocationSpec => []Consuming
  <1>1. RemovingBeside /\ Consuming /\ [InvocationNext]_invocationVars => Consuming'
    BY ConsumptionGoesOn
  <1>2. InvocationInit => Consuming
    BY InvocationBegins
  <1> QED
    BY <1>1, <1>2, RemovingInvariance, PTL DEF InvocationSpec

(***************************************************************************)
(* What one invocation promises.                                           *)
(***************************************************************************)
\* Once some cleanup_invocation has returned "cleaned", no final receipt is in
\* place and no seal_delta_bundle call can still bring one, however far it had
\* come when the removal began and whatever failed.
THEOREM NothingSealedAfter ==
    ASSUME Exclusive PROVE InvocationSpec => []NoSealAfterCleanup
  <1>1. InvocationInvariant => NoSealAfterCleanup
    BY DEF InvocationInvariant, Spending, Spent, NoSealAfterCleanup
  <1> QED
    BY <1>1, InvocationInvariance, PTL

\* A seal_delta_bundle call that is about to rename its final receipt still has
\* its own claim under that name: no cleanup has taken it, because the claim is
\* flocked and every cleanup_invocation, overlapping or not, refuses a locked
\* receipt.
THEOREM ClaimIsKept ==
    ASSUME Exclusive PROVE InvocationSpec => []ClaimHeldToTheEnd
  <1>1. InvocationInvariant => ClaimHeldToTheEnd
    BY DEF InvocationInvariant, SealingBeside, Sealable, Binding, Ownership, Claims, Owning,
           ClaimHeldToTheEnd
  <1> QED
    BY <1>1, InvocationInvariance, PTL

\* read_sealed_delta_bundle accepts only evidence that a final receipt was issued
\* for, also while cleanups remove the layout, the bundle and the receipts, and
\* whether or not sealers of the same result overlap.
THEOREM ReadsSealedBeside == InvocationSpec => []ReadersOnlySealed
  <1>1. RemovingBeside => ReadersOnlySealed
    BY DEF RemovingBeside, SealTypes
  <1> QED
    BY <1>1, RemovingInvariance, PTL

\* An invocation is consumed once: of any number of cleanup_invocation calls that
\* do not overlap, interrupted and repeated anywhere and with any sealers at work,
\* one at most returns "cleaned".
THEOREM IsConsumedOnce ==
    ASSUME ~Concurrent PROVE InvocationSpec => []ConsumedOnce
  <1>1. Consuming => ConsumedOnce
    BY DEF Consuming, LedgerStands, ConsumedOnce
  <1> QED
    BY <1>1, ConsumptionInvariance, PTL

\* Nothing that a user of the invocation relies on is missing before the
\* consumption claim is on disk, with any sealers at work in the same root and
\* however the cleanup_invocation calls overlap.
THEOREM ClaimComesFirstBeside == InvocationSpec => []ClaimBeforeDelete
  <1>1. RemovingBeside => ClaimBeforeDelete
    BY DEF RemovingBeside, Removing, Unclaimed, ClaimBeforeDelete, Absent
  <1> QED
    BY <1>1, RemovingInvariance, PTL

\* cleanup_invocation implements the abstract consumption beside the sealers: every
\* step claims once, removes only while claimed, moves on only when nothing is
\* left, finishes, or changes none of it.
THEOREM ConsumptionImplemented ==
    ASSUME ~Concurrent PROVE InvocationSpec => ImplementsConsumption
  <1>1. RemovingBeside /\ Consuming /\ [InvocationNext]_invocationVars =>
            [Consumed!ConsumptionNext]_<< Stage, Goods >>
    BY ConsumptionGoesOn, MovesAreAllowed
  <1>2. InvocationInit => Consumed!ConsumptionInit
    <2> SUFFICES ASSUME InvocationInit PROVE Consumed!ConsumptionInit
      OBVIOUS
    <2>1. file["ledger"] = Absent
      BY DEF InvocationInit, InitCleanup, Names
    <2> QED
      BY <2>1 DEF Consumed!ConsumptionInit
  <1> QED
    BY <1>1, <1>2, RemovingInvariance, ConsumptionInvariance, PTL
       DEF InvocationSpec, ImplementsConsumption, Consumed!ConsumptionSpec, Stage, Goods

================================================================================
