------------------------------ MODULE Integration ------------------------------
(***************************************************************************)
(* integrate_reviewed_delta: reviewed deltas are applied to the user's     *)
(* working tree, the destination.  Nothing locks it: the user edits it and *)
(* other transactions write to it at any time, and a transaction only      *)
(* notices by capturing it again.  A capture reads one path after the      *)
(* other.  git apply loads the paths of its patch, and writes them after   *)
(* it has loaded them all.                                                 *)
(*                                                                         *)
(* The content of a path is the set of edits made to it since the snapshot *)
(* that all these deltas were reviewed against.                            *)
(***************************************************************************)
EXTENDS Naturals, FiniteSets

CONSTANTS
    Transactions,  \* calls of integrate_reviewed_delta
    Allowed,       \* the paths of the source allowlist
    Private,       \* dirty paths outside of it, captured as hashes
    Deltas,        \* the sets of paths that a reviewed delta may change
    Verdicts,      \* what the input evidence of a transaction may be
    Torn,          \* stands for a path that git left half-written
    User,          \* writer of a path that is no transaction
    MaxEdits       \* bound: edits the user makes

Paths == Allowed \cup Private
UserEdits == 1..MaxEdits
Edits == Transactions \cup UserEdits \cup {Torn}

ASSUME IntegrationAssumption ==
    /\ Allowed \cap Private = {}
    /\ Deltas \subseteq SUBSET Allowed
    /\ Verdicts \subseteq {"approve", "revise", "stale", "unsafe", "forged"}
    /\ MaxEdits \in Nat
    /\ Transactions \cap UserEdits = {}
    /\ Torn \notin Transactions \cup UserEdits
    /\ User \notin Transactions

VARIABLES
    dest,       \* the content of every path of the destination
    writer,     \* history: who wrote each path last
    made,       \* how many edits the user has made
    withdrawn,  \* history: the edits that the user has undone himself
    pc, verdict, delta,   \* each transaction's step, and its input
    unread,     \* the paths the current capture or git apply has still to do
    same,       \* what the current capture has read so far is as expected
    image,      \* the contents that git apply has loaded
    status, applied,   \* the result of each transaction
    steady      \* history: paths nobody wrote since the final capture began

destVars == << dest, writer, made, withdrawn >>
vars == << destVars, pc, verdict, delta, unread, same, image, status, applied, steady >>

Captures == {"first", "second", "failed", "final"}
Stages == Captures \cup {"start", "check", "simulate", "load", "write", "done"}
Statuses == {"none", "ok", "review_revise", "approval_stale", "scope_violation",
             "destination_changed", "transport_error"}

TypeOK ==
    /\ dest \in [Paths -> SUBSET Edits]
    /\ writer \in [Paths -> Transactions \cup {User}]
    /\ made \in 0..MaxEdits
    /\ withdrawn \subseteq UserEdits
    /\ pc \in [Transactions -> Stages]
    /\ verdict \in [Transactions -> Verdicts]
    /\ delta \in [Transactions -> Deltas]
    /\ unread \in [Transactions -> SUBSET Paths]
    /\ same \in [Transactions -> BOOLEAN]
    /\ image \in [Transactions -> [Allowed -> SUBSET Edits]]
    /\ status \in [Transactions -> Statuses]
    /\ applied \in [Transactions -> BOOLEAN]
    /\ steady \in [Transactions -> SUBSET Paths]

Unedited == [p \in Paths |-> {}]

Init ==
    /\ dest = Unedited
    /\ writer = [p \in Paths |-> User]
    /\ made = 0 /\ withdrawn = {}
    /\ pc = [t \in Transactions |-> "start"]
    /\ verdict \in [Transactions -> Verdicts]
    /\ delta \in [Transactions -> Deltas]
    /\ unread = [t \in Transactions |-> {}]
    /\ same = [t \in Transactions |-> FALSE]
    /\ image = [t \in Transactions |-> [p \in Allowed |-> {}]]
    /\ status = [t \in Transactions |-> "none"]
    /\ applied = [t \in Transactions |-> FALSE]
    /\ steady = [t \in Transactions |-> {}]

(***************************************************************************)
(* Results and captures.                                                   *)
(***************************************************************************)
Finish(t, s, written) ==
    /\ pc' = [pc EXCEPT ![t] = "done"]
    /\ status' = [status EXCEPT ![t] = s]
    /\ applied' = [applied EXCEPT ![t] = written]
    /\ UNCHANGED << destVars, verdict, delta, unread, same, image, steady >>

Enter(t, stage) ==
    /\ pc' = [pc EXCEPT ![t] = stage]
    /\ unread' = [unread EXCEPT ![t] =
                    IF stage \in Captures THEN Paths
                      ELSE IF stage \in {"load", "write"} THEN delta[t] ELSE {}]
    /\ same' = [same EXCEPT ![t] = stage \in Captures]
    /\ steady' = IF stage = "final" THEN [steady EXCEPT ![t] = Paths] ELSE steady

\* A step that only goes on.
Proceed(t, stage) ==
    /\ Enter(t, stage)
    /\ UNCHANGED << destVars, verdict, delta, image, status, applied >>

\* The approved projection of the snapshot.
Projected(t) == [p \in Paths |-> IF p \in delta[t] THEN {t} ELSE {}]

Expected(t) == IF pc[t] = "final" THEN Projected(t) ELSE Unedited

\* Mutant: out-of-scope paths are not compared.
AllowedReadPath(t, p) ==
    /\ pc[t] \in Captures /\ p \in unread[t]
    /\ unread' = [unread EXCEPT ![t] = @ \ {p}]
    /\ same' = [same EXCEPT ![t] = @ /\ (p \in Allowed => dest[p] = Expected(t)[p])]
    /\ UNCHANGED << destVars, pc, verdict, delta, image, status, applied, steady >>

ReadPath(t, p) ==
    /\ pc[t] \in Captures /\ p \in unread[t]
    /\ unread' = [unread EXCEPT ![t] = @ \ {p}]
    /\ same' = [same EXCEPT ![t] = @ /\ dest[p] = Expected(t)[p]]
    /\ UNCHANGED << destVars, pc, verdict, delta, image, status, applied, steady >>

Captured(t, stage) == pc[t] = stage /\ unread[t] = {}

(***************************************************************************)
(* The transaction, in the order of the code.                              *)
(***************************************************************************)
\* The approval and its three hashes.
CheckApproval(t) ==
    /\ pc[t] = "start"
    /\ \/ verdict[t] = "revise" /\ Finish(t, "review_revise", FALSE)
       \/ verdict[t] = "stale" /\ Finish(t, "approval_stale", FALSE)
       \/ verdict[t] \notin {"revise", "stale"} /\ Proceed(t, "first")

FirstCapture(t) ==
    /\ Captured(t, "first")
    /\ \/ ~same[t] /\ Finish(t, "destination_changed", FALSE)
       \/ same[t] /\ verdict[t] = "unsafe" /\ Finish(t, "scope_violation", FALSE)
       \/ same[t] /\ verdict[t] # "unsafe" /\ Proceed(t, "check")

\* Mutant: a patch that does not apply gets a status that no caller knows.
ConflictApplyCheck(t) ==
    /\ pc[t] = "check"
    /\ \/ Proceed(t, "simulate")
       \/ delta[t] # {} /\ Finish(t, "conflict", FALSE)

\* git apply --check, for a patch that is not empty: the destination has drifted
\* since the capture, or git could not be run.  A drifted path may still take
\* the patch, when the edit is elsewhere in the file.
ApplyCheck(t) ==
    /\ pc[t] = "check"
    /\ \/ Proceed(t, "simulate")
       \/ delta[t] # {} /\ Finish(t, "transport_error", FALSE)

\* The delta is replayed in a worktree of its own, which first materializes the
\* snapshot; a drift noticed by the capture this takes is a CaptureFails, one that
\* it misses is left to the next capture.
Simulate(t) ==
    /\ pc[t] = "simulate"
    /\ \/ verdict[t] # "forged" /\ Proceed(t, "second")
       \/ verdict[t] = "forged" /\ Finish(t, "transport_error", FALSE)

SecondCapture(t) ==
    /\ Captured(t, "second")
    /\ \/ ~same[t] /\ Finish(t, "destination_changed", FALSE)
       \/ same[t] /\ delta[t] = {} /\ Finish(t, "ok", FALSE)
       \/ same[t] /\ delta[t] # {} /\ Proceed(t, "load")

\* git apply loads a path; one that does not take the patch is an ApplyFails, and
\* by then nothing has been written.
LoadPath(t, p) ==
    /\ pc[t] = "load" /\ p \in unread[t]
    /\ image' = [image EXCEPT ![t][p] = dest[p]]
    /\ unread' = [unread EXCEPT ![t] = @ \ {p}]
    /\ UNCHANGED << destVars, pc, verdict, delta, same, status, applied, steady >>

Loaded(t) ==
    /\ pc[t] = "load" /\ unread[t] = {}
    /\ Proceed(t, "write")

\* A path is written by w: it is steady for nobody any more.
Overwrite(p, content, w) ==
    /\ dest' = [dest EXCEPT ![p] = content]
    /\ writer' = [writer EXCEPT ![p] = w]
    /\ steady' = [t \in Transactions |-> steady[t] \ {p}]

WritePath(t, p) ==
    /\ pc[t] = "write" /\ p \in unread[t]
    /\ Overwrite(p, image[t][p] \cup {t}, t)
    /\ unread' = [unread EXCEPT ![t] = @ \ {p}]
    /\ UNCHANGED << made, withdrawn, pc, verdict, delta, same, image, status, applied >>

Written(t) ==
    /\ pc[t] = "write" /\ unread[t] = {}
    /\ Proceed(t, "final")

\* git apply fails between two paths, or in the middle of one.
ApplyFails(t) ==
    /\ pc[t] \in {"load", "write"}
    /\ Proceed(t, "failed")

WriteFails(t, p) ==
    /\ pc[t] = "write" /\ p \in unread[t]
    /\ Overwrite(p, {Torn}, t)
    /\ pc' = [pc EXCEPT ![t] = "failed"]
    /\ unread' = [unread EXCEPT ![t] = Paths]
    /\ same' = [same EXCEPT ![t] = TRUE]
    /\ UNCHANGED << made, withdrawn, verdict, delta, image, status, applied >>

\* Mutant: a failed git apply is taken for one that has changed nothing.
TrustingFailedCapture(t) ==
    /\ Captured(t, "failed")
    /\ Finish(t, "transport_error", FALSE)

FailedCapture(t) ==
    /\ Captured(t, "failed")
    /\ Finish(t, "transport_error", ~same[t])

\* Mutant: the result of git apply is not verified.
UnverifiedFinalCapture(t) ==
    /\ Captured(t, "final")
    /\ Finish(t, "ok", TRUE)

FinalCapture(t) ==
    /\ Captured(t, "final")
    /\ Finish(t, IF same[t] THEN "ok" ELSE "transport_error", TRUE)

\* A capture raises: a path disappears or changes while it is read, or the
\* simulation's finds a drift.
CaptureFails(t) ==
    \/ pc[t] \in {"first", "second"} /\ Finish(t, "destination_changed", FALSE)
    \/ pc[t] = "simulate" /\ Finish(t, "transport_error", FALSE)
    \/ pc[t] \in {"failed", "final"} /\ Finish(t, "transport_error", TRUE)

(***************************************************************************)
(* The user, at any time.                                                  *)
(***************************************************************************)
Edit(p) ==
    /\ made < MaxEdits
    /\ made' = made + 1
    /\ Overwrite(p, dest[p] \cup {made'}, User)
    /\ UNCHANGED << withdrawn, pc, verdict, delta, unread, same, image, status, applied >>

\* The user puts a path back to what it was in the snapshot.
Restore(p) ==
    /\ dest[p] # {}
    /\ made < MaxEdits
    /\ made' = made + 1
    /\ withdrawn' = withdrawn \cup {made'} \cup (dest[p] \cap UserEdits)
    /\ Overwrite(p, {}, User)
    /\ UNCHANGED << pc, verdict, delta, unread, same, image, status, applied >>

Step(t) ==
    \/ CheckApproval(t) \/ FirstCapture(t) \/ ApplyCheck(t) \/ Simulate(t)
    \/ SecondCapture(t) \/ Loaded(t) \/ Written(t) \/ ApplyFails(t)
    \/ FailedCapture(t) \/ FinalCapture(t) \/ CaptureFails(t)
    \/ \E p \in Paths : \/ ReadPath(t, p) \/ LoadPath(t, p)
                        \/ WritePath(t, p) \/ WriteFails(t, p)

Next == \/ \E t \in Transactions : Step(t)
        \/ \E p \in Paths : Edit(p) \/ Restore(p)

Spec == Init /\ [][Next]_vars

(***************************************************************************)
(* What a transaction promises.                                            *)
(***************************************************************************)
Ok(t) == status[t] = "ok" /\ applied[t]
Stands(t) == \A p \in delta[t] : writer[p] = t

\* Two deltas that were reviewed against the same source never both stand as
\* applied and verified: each final capture would have seen what the other
\* transaction wrote, in whatever order their reads and writes interleave.
OneStands == \A t, u \in Transactions :
    t # u /\ Ok(t) /\ Ok(u) => ~(Stands(t) /\ Stands(u))

\* A transaction that says it has applied nothing has left nothing behind: no
\* path still has what it wrote, a half-written one included.
NotAppliedMeansUntouched == \A t \in Transactions :
    pc[t] = "done" /\ ~applied[t] => \A p \in Paths : writer[p] # t

\* When a transaction has reported ok, every path that nobody has written since
\* its verification began is exactly as approved, private paths included: an
\* edit made in the window before the write is not passed over.
OkMeansApproved == \A t \in Transactions :
    Ok(t) => \A p \in steady[t] : dest[p] = Projected(t)[p]

\* What the documents say of INTEGRATE: it never overwrites user bytes.  After an
\* ok, whatever the user has edited is there unless he undid it himself.
OkKeepsEdits == \A t \in Transactions : Ok(t) =>
    \A e \in 1..made : e \in withdrawn \/ \E p \in Paths : e \in dest[p]
================================================================================
