-------------------------------- MODULE Worker ---------------------------------
(***************************************************************************)
(* The worker command: it captures the source, makes a worktree of it, has *)
(* a worker change the worktree and gates test it, up to a limit of        *)
(* attempts, then captures what was changed, replays it, and seals it.     *)
(*                                                                         *)
(* The repository is one path that the worker may change (Snapshots), one  *)
(* that it may not, and the commit.  Every child is a run of Processes, and *)
(* whatever lives of it may change the worktree.  The sandbox keeps the    *)
(* user's own repository out of its reach.                                 *)
(***************************************************************************)
EXTENDS Processes, Snapshots

CONSTANTS
    Origins,          \* what the path may be when the source is captured
    Writes,           \* what a child may make of it
    Limits,           \* how many attempts a route may allow
    GateCount,
    MaxChanges,       \* bound: changes of the worktree, the source and the policy
    Nothing

ASSUME WorkerAssumption ==
    /\ Origins \subseteq PathStates /\ Writes \subseteq Entries
    /\ Limits \subseteq Nat /\ GateCount \in Nat /\ MaxChanges \in Nat
    /\ Nothing \notin PathStates \cup Entries

VARIABLES
    origin,        \* the path as it was captured
    source,        \* the user's repository since then
    policy,        \* whether the sandbox policy is the one that was verified
    worktree,
    step,          \* where the command is
    limit, attempt, gate,
    ran,           \* the gates of this attempt: the status, and the file they saw
    projected, delta,
    sealed,        \* the file as the sealed delta makes it
    outcome,       \* the status that the command reports
    changes,       \* how many there have been
    offences       \* history: what was done that must not be done

captures == << projected, delta >>
progress == << step, limit, attempt, gate, ran, captures, sealed, outcome >>
surroundings == << origin, source, policy >>
history == << changes, offences >>
vars == << processVars, progress, surroundings, worktree, history >>

Gates == 1 .. GateCount
Sources == {"captured", "edited", "committed"}
Offences == {"scope", "gate", "late", "disturbance", "unread"}

WorkerTypeOK ==
    /\ ProcessTypeOK
    /\ origin \in Origins /\ source \in Sources /\ policy \in BOOLEAN
    /\ worktree \in [file : PathStates, moved : BOOLEAN, private : BOOLEAN] \cup {Nothing}
    /\ limit \in Limits /\ attempt \in 0 .. limit
    /\ gate \in 1 .. GateCount + 1
    /\ \A g \in Gates : ran[g] = Nothing
                        \/ /\ ran[g].status \in {"ok", "gate_failed", "timeout"}
                           /\ ran[g].file \in Entries
    /\ projected \in PathStates \cup {Nothing}
    /\ sealed \in Entries \cup {Nothing}
    /\ outcome \in {"none", "ok", "needs_context", "sandbox_unavailable", "scope_violation",
                    "timeout", "transport_error", "gate_failed"}
    /\ step = "ended" <=> outcome # "none"
    /\ sealed # Nothing <=> outcome = "ok"
    /\ changes \in 0 .. MaxChanges /\ offences \subseteq Offences

Init ==
    /\ ProcessInit
    /\ origin \in Origins /\ source = "captured" /\ policy = TRUE
    /\ worktree = Nothing
    /\ step = "create" /\ limit \in Limits /\ attempt = 0 /\ gate = 1
    /\ ran = [g \in Gates |-> Nothing]
    /\ projected = Nothing /\ delta = Nothing /\ sealed = Nothing
    /\ outcome = "none" /\ changes = 0 /\ offences = {}

End(status) ==
    /\ step' = "ended" /\ outcome' = status
    /\ UNCHANGED << limit, attempt, gate, ran, captures, sealed >>

Go(next) ==
    /\ step' = next
    /\ UNCHANGED << limit, attempt, gate, ran, captures, sealed, outcome >>

\* Go on if the condition holds, or end with a status.
Unless(status, condition, next) == IF condition THEN Go(next) ELSE End(status)

SourceIsUnchanged == source = "captured"
Snapshot == PathSnapshot(origin)

(***************************************************************************)
(* create_worktree and materialize_snapshot.                               *)
(***************************************************************************)
CreateWorktree ==
    /\ step = "create"
    /\ UNCHANGED << processVars, surroundings, history >>
    /\ IF source = "committed"
         THEN End("needs_context") /\ UNCHANGED worktree
         ELSE /\ Go("materialize")
              /\ worktree' = [file |-> Clean(origin.head), moved |-> FALSE, private |-> FALSE]

\* The worktree is captured again, and its bytes and modes are compared with the source.
Reproductions(files) ==
    { f \in files : PathSnapshot(f) = Snapshot /\ f.work = origin.work }

\* Mutant: the files are restored before the index is.
HastyMaterialize ==
    LET files == Reproductions(HastyMaterialized(worktree.file.head, Snapshot))
    IN  /\ step = "materialize"
        /\ UNCHANGED << processVars, surroundings, history >>
        /\ Unless("needs_context", SourceIsUnchanged /\ files # {}, "prepare")
        /\ IF files = {} THEN UNCHANGED worktree
           ELSE \E f \in files : worktree' = [worktree EXCEPT !.file = f]

Materialize ==
    LET files == Reproductions(Materialized(worktree.file.head, Snapshot))
    IN  /\ step = "materialize"
        /\ UNCHANGED << processVars, surroundings, history >>
        /\ Unless("needs_context", SourceIsUnchanged /\ files # {}, "prepare")
        /\ IF files = {} THEN UNCHANGED worktree
           ELSE \E f \in files : worktree' = [worktree EXCEPT !.file = f]

\* prepare_provider_exec, and the second binding of the sandbox.
Prepare ==
    /\ step = "prepare"
    /\ UNCHANGED << processVars, surroundings, worktree, history >>
    /\ Go("compare") \/ End("sandbox_unavailable")

(***************************************************************************)
(* _run_worker_loop.                                                       *)
(***************************************************************************)
\* Red gates go into the next packet, and are forgotten.
NextAttempt ==
    /\ step' = "launch" /\ attempt' = attempt + 1
    /\ ran' = [g \in Gates |-> Nothing]
    /\ UNCHANGED << limit, gate, captures, sealed, outcome >>

CompareSource ==
    /\ step = "compare"
    /\ UNCHANGED << processVars, surroundings, worktree, history >>
    /\ IF ~SourceIsUnchanged THEN End("scope_violation")
       ELSE IF limit = 0 THEN End("gate_failed")
       ELSE NextAttempt

Launch ==
    /\ step = "launch"
    /\ CannotStart \/ \E size \in Sizes \ {"none"} : Start(size)
    /\ Go("worker")
    /\ UNCHANGED << surroundings, worktree, history >>

\* What run_process raises is caught by the command itself.
WorkerReturns ==
    /\ step = "worker" /\ Take
    /\ offences' = offences \cup (IF result = "raised" THEN {"unread"} ELSE {})
    /\ UNCHANGED << surroundings, worktree, changes >>
    /\ IF result = "raised" THEN End("needs_context")
       ELSE IF ~policy \/ ~SourceIsUnchanged THEN End("scope_violation")
       ELSE IF result # "ok" THEN End(result)
       ELSE /\ step' = "gate" /\ gate' = 1
            /\ UNCHANGED << limit, attempt, ran, captures, sealed, outcome >>

Ran(status, file) ==
    ran' = [ran EXCEPT ![gate] = [status |-> status, file |-> file]]

BeginGate ==
    /\ step = "gate" /\ gate \in Gates /\ policy
    /\ CannotStart \/ Start("none")
    /\ Ran("gate_failed", worktree.file.work)
    /\ step' = "gate_runs"
    /\ UNCHANGED << limit, attempt, gate, captures, sealed, outcome >>
    /\ UNCHANGED << surroundings, worktree, history >>

\* The directory or the program of a gate is not there, or the policy has changed.
RefuseGate ==
    /\ step = "gate" /\ gate \in Gates
    /\ Ran("gate_failed", worktree.file.work) /\ gate' = gate + 1
    /\ UNCHANGED << step, limit, attempt, captures, sealed, outcome >>
    /\ UNCHANGED << processVars, surroundings, worktree, history >>

GateReturns ==
    /\ step = "gate_runs" /\ Take
    /\ Ran( IF policy /\ result \in {"ok", "timeout"} THEN result ELSE "gate_failed",
            ran[gate].file )
    /\ step' = "gate" /\ gate' = gate + 1
    /\ UNCHANGED << limit, attempt, captures, sealed, outcome >>
    /\ UNCHANGED << surroundings, worktree, history >>

\* Mutant: one attempt more than the route allows.
EagerFinishGates ==
    /\ step = "gate" /\ gate \notin Gates
    /\ UNCHANGED << processVars, surroundings, worktree, history >>
    /\ IF ~SourceIsUnchanged THEN End("scope_violation")
       ELSE IF \A g \in Gates : ran[g].status = "ok" THEN Go("capture")
       ELSE IF attempt > limit THEN End("gate_failed")
       ELSE NextAttempt

\* Mutant: a gate that runs out of time is not counted as red.
LaxFinishGates ==
    /\ step = "gate" /\ gate \notin Gates
    /\ UNCHANGED << processVars, surroundings, worktree, history >>
    /\ IF ~SourceIsUnchanged THEN End("scope_violation")
       ELSE IF \A g \in Gates : ran[g].status # "gate_failed" THEN Go("capture")
       ELSE IF attempt >= limit THEN End("gate_failed")
       ELSE NextAttempt

FinishGates ==
    /\ step = "gate" /\ gate \notin Gates
    /\ UNCHANGED << processVars, surroundings, worktree, history >>
    /\ IF ~SourceIsUnchanged THEN End("scope_violation")
       ELSE IF \A g \in Gates : ran[g].status = "ok" THEN Go("capture")
       ELSE IF attempt >= limit THEN End("gate_failed")
       ELSE NextAttempt

(***************************************************************************)
(* capture_worker_delta: the worktree is read twice, for the projected     *)
(* snapshot and for the records.                                           *)
(***************************************************************************)
\* Mutant: only the paths that the worker may change are looked at.
NarrowCaptureProjected ==
    /\ step = "capture"
    /\ UNCHANGED << processVars, surroundings, worktree, history >>
    /\ IF worktree.moved \/ PathSnapshot(worktree.file).staged # Snapshot.staged
         THEN End("scope_violation")
         ELSE /\ projected' = worktree.file /\ step' = "records"
              /\ UNCHANGED << limit, attempt, gate, ran, delta, sealed, outcome >>

CaptureProjected ==
    /\ step = "capture"
    /\ UNCHANGED << processVars, surroundings, worktree, history >>
    /\ IF \/ worktree.moved \/ worktree.private
          \/ PathSnapshot(worktree.file).staged # Snapshot.staged
         THEN End("scope_violation")
         ELSE /\ projected' = worktree.file /\ step' = "records"
              /\ UNCHANGED << limit, attempt, gate, ran, delta, sealed, outcome >>

CaptureRecords ==
    /\ step = "records"
    /\ delta' = PathDelta(origin.work, worktree.file.work) /\ step' = "recheck"
    /\ UNCHANGED << limit, attempt, gate, ran, projected, sealed, outcome >>
    /\ UNCHANGED << processVars, surroundings, worktree, history >>

RecheckSource ==
    /\ step = "recheck"
    /\ UNCHANGED << processVars, surroundings, worktree, history >>
    /\ Unless("scope_violation", SourceIsUnchanged, "seal")

(***************************************************************************)
(* seal_delta_bundle: the delta is replayed in a worktree of its own, which *)
(* is materialized as the first one was; what is sealed is what it gives.  *)
(***************************************************************************)
\* Mutant: the delta is not compared with the projected snapshot.
UncheckedReplays ==
    IF SourceIsUnchanged THEN Replayed(origin.head, Snapshot, delta) ELSE {}

Replays ==
    IF SourceIsUnchanged
      THEN { f \in Replayed(origin.head, Snapshot, delta) :
               PathSnapshot(f) = PathSnapshot(projected) }
      ELSE {}

Seal ==
    /\ step = "seal"
    /\ UNCHANGED << processVars, surroundings, worktree, history >>
    /\ IF Replays = {} THEN End("needs_context")
       ELSE /\ \E f \in Replays : sealed' = f.work
            /\ step' = "ended" /\ outcome' = "ok"
            /\ UNCHANGED << limit, attempt, gate, ran, captures >>

(***************************************************************************)
(* What the children do to the worktree, and others to the source and to   *)
(* the directories that the policy names.                                  *)
(***************************************************************************)
Misdeeds(w) ==
    { [w EXCEPT !.private = ~@],
      [w EXCEPT !.file.index = w.file.work],
      [w EXCEPT !.file.index = origin.index],
      [w EXCEPT !.moved = TRUE, !.file.head = w.file.index] }

Write ==
    /\ step # "ended"
    /\ child = "running" \/ group \/ strays
    /\ worktree' \in { [worktree EXCEPT !.file.work = e] : e \in Writes } \cup Misdeeds(worktree)
    /\ worktree' # worktree
    /\ changes < MaxChanges /\ changes' = changes + 1
    /\ offences' = offences
         \cup (IF worktree'.file.work = worktree.file.work THEN {"scope"} ELSE {})
         \cup (IF step = "gate_runs" THEN {"gate"}
               ELSE IF step # "worker" \/ child # "running" THEN {"late"} ELSE {})
    /\ UNCHANGED << processVars, progress, surroundings >>

Disturb ==
    /\ step # "ended"
    /\ changes < MaxChanges /\ changes' = changes + 1
    /\ offences' = offences \cup {"disturbance"}
    /\ \/ source' \in Sources \ {source} /\ UNCHANGED policy
       \/ policy' = ~policy /\ UNCHANGED source
    /\ UNCHANGED << processVars, progress, origin, worktree >>

\* What children do after the command has ended nobody looks at.
Run == RunnerStep /\ UNCHANGED << progress, surroundings, worktree, history >>
Live == step # "ended" /\ ChildStep /\ UNCHANGED << progress, surroundings, worktree, history >>

CommandStep ==
    \/ CreateWorktree \/ Materialize \/ Prepare \/ CompareSource
    \/ Launch \/ WorkerReturns
    \/ BeginGate \/ RefuseGate \/ GateReturns \/ FinishGates
    \/ CaptureProjected \/ CaptureRecords \/ RecheckSource \/ Seal

Next == CommandStep \/ Run \/ Live \/ Write \/ Disturb

\* The command and run_process go on when they can; nothing is assumed of a child.
Spec == Init /\ [][Next]_vars /\ WF_vars(CommandStep) /\ WF_vars(Run)

--------------------------------------------------------------------------------
\* What is sealed has passed every gate, in the last attempt, and the gates saw it as it
\* is sealed, unless a gate itself or a descendant that no launcher contains changed it
\* (the loop of cli.py:411-478).
OkIsTested ==
    outcome = "ok" =>
        \A g \in Gates :
            /\ ran[g].status = "ok"
            /\ ran[g].file = sealed \/ "gate" \in offences \/ ~contained

\* After a success the worktree of a contained worker differs from the source in the
\* allowed path only, and there it is what was sealed (the checks of
\* capture_worker_delta, repository.py:1177-1183).
OkIsInScope ==
    outcome = "ok" /\ contained =>
        worktree = [file |-> [origin EXCEPT !.work = sealed], moved |-> FALSE, private |-> FALSE]

\* However the worktree is changed between its two captures, the sealed delta makes of
\* the source the very file that the projected snapshot was made from
\* (replay_worker_delta_projection before the seal, bundle.py:1481).
SealedAsProjected == outcome = "ok" => sealed = projected.work

\* A worker that keeps to its path, and nobody else changing anything, never ends the
\* command with a violation or for want of context: every snapshot can be materialized
\* and every delta replayed.  A child that ends without reading its input may
\* (process.py:244).
FailureJustified ==
    outcome \in {"scope_violation", "needs_context"} =>
        {"scope", "late", "disturbance", "unread"} \cap offences # {}

\* Whatever a child does, the command ends, unless the child neither reads nor closes an
\* input that is larger than its pipe (process.py:239, which no limit bounds).
CommandEnds == <>(step = "ended") \/ <>[](runner = "write" /\ pipe = "unread")

\* references/protocol.md:95, "A timeout terminates the exact process group."
TimeoutEndsGroup == runner = "done" /\ result = "timeout" => ~group
================================================================================
