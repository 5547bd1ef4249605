------------------------------ MODULE WorkerProofs ------------------------------
(***************************************************************************)
(* Proofs about Worker, for any files, any number of gates and attempts    *)
(* and any number of changes: a result that is sealed is tested, in scope  *)
(* and what was projected, and a correct worker is never refused.          *)
(***************************************************************************)
EXTENDS Worker, SnapshotsProofs

(***************************************************************************)
(* The inductive invariant.                                                *)
(***************************************************************************)
Worktrees == [file : PathStates, moved : BOOLEAN, private : BOOLEAN]
Results == [status : {"ok", "gate_failed", "timeout"}, file : Entries]
Early == {"create", "materialize", "prepare", "compare"}
Sealing == {"records", "recheck", "seal"}
Steps == Early \cup Sealing
         \cup {"launch", "worker", "gate", "gate_runs", "capture", "ended"}

\* What WorkerTypeOK leaves open.
Typed ==
    /\ WorkerTypeOK
    /\ step \in Steps
    /\ ran \in [Gates -> Results \cup {Nothing}]
    /\ step \notin {"create", "ended"} => worktree \in Worktrees

\* A run that is over or about to be has a result.
Settled == runner \in {"terminate", "grace", "done"} => result # "none"

\* Where the command is, and run_process with it.
Located ==
    /\ step \in {"worker", "gate_runs"} <=> runner # "idle"
    /\ Settled
    /\ step \in Early => attempt = 0 /\ ~group /\ ~strays
    /\ step = "materialize" =>
          worktree = [file |-> Clean(origin.head), moved |-> FALSE, private |-> FALSE]
    /\ step = "gate_runs" => gate \in Gates /\ ran[gate] \in Results
    /\ step \in Sealing \cup {"capture"} => \A g \in Gates : ran[g].status = "ok"

\* Whoever does not move the worktree leaves its commit alone; what is captured has the
\* commit and the index of the source.
Based ==
    /\ step \notin {"create", "ended"} /\ ~worktree.moved => worktree.file.head = origin.head
    /\ step \in Sealing => projected \in PathStates
                           /\ projected = [origin EXCEPT !.work = projected.work]
    /\ step \in {"recheck", "seal"} =>
          \E e \in Entries : delta = PathDelta(origin.work, e)

\* The gates that this attempt has begun.
Begun(g) == \/ step = "gate" /\ g < gate
            \/ step = "gate_runs" /\ g <= gate
            \/ step \in Sealing \cup {"capture"}

\* Nobody but a gate writes to the worktree of a contained worker after the worker.
Tested == contained /\ "gate" \notin offences =>
              \A g \in Gates : Begun(g) => ran[g].file = worktree.file.work

Held == contained /\ step \in Sealing =>
            worktree = [file |-> projected, moved |-> FALSE, private |-> FALSE]

Innocent == {"scope", "late", "disturbance", "unread"} \cap offences = {}

\* Where nobody has done anything wrong, source and worktree differ in the file only.
Undisturbed ==
    Innocent =>
        /\ source = "captured" /\ policy
        /\ step \notin {"create", "materialize", "ended"} =>
              worktree = [file |-> [origin EXCEPT !.work = worktree.file.work],
                          moved |-> FALSE, private |-> FALSE]
        /\ step = "records" => projected = worktree.file
        /\ step \in {"recheck", "seal"} => delta = PathDelta(origin.work, projected.work)

Promised == OkIsTested /\ OkIsInScope /\ SealedAsProjected /\ FailureJustified

IInv == /\ Typed /\ Located /\ Based /\ Tested /\ Held /\ Undisturbed /\ Promised

(***************************************************************************)
(* The lemmas about snapshots and processes.                               *)
(***************************************************************************)
\* With its commit, a snapshot says everything about a path.
LEMMA SnapshotIdentifies ==
    ASSUME NEW x \in PathStates, NEW y \in PathStates,
           x.head = y.head, PathSnapshot(x) = PathSnapshot(y)
    PROVE  x = y
<1>1. Materialized(x.head, PathSnapshot(x)) = {x}
  BY SnapshotIsReproduced
<1>2. Materialized(x.head, PathSnapshot(x)) = {y}
  BY SnapshotIsReproduced
<1>3. QED  BY <1>1, <1>2

LEMMA StagedIdentifies ==
    ASSUME NEW x \in PathStates, NEW y \in PathStates,
           x.head = y.head, PathSnapshot(x).staged = PathSnapshot(y).staged
    PROVE  x.index = y.index
<1>1. /\ x.head \in Entries /\ x.index \in Entries /\ y.index \in Entries
      /\ Changes(x.head, x.index) = Changes(x.head, y.index)
  BY DEF PathStates, PathSnapshot
<1>2. [head |-> x.head, index |-> x.index, work |-> x.index]
          = [head |-> x.head, index |-> y.index, work |-> y.index]
  BY <1>1, StagedApply
<1>3. QED  BY <1>2

LEMMA OriginIsPath == WorkerTypeOK => origin \in PathStates
BY WorkerAssumption DEF WorkerTypeOK

\* The steps of run_process, of the child and of the caller keep the types of Processes.
LEMMA StartTyped ==
    ASSUME ProcessTypeOK, NEW size \in Sizes, Start(size)
    PROVE  ProcessTypeOK' /\ Settled' /\ runner' # "idle" /\ contained' = contained
BY DEF ProcessTypeOK, Settled, Start

LEMMA CannotStartTyped ==
    ASSUME ProcessTypeOK, CannotStart
    PROVE  ProcessTypeOK' /\ Settled' /\ runner' # "idle" /\ contained' = contained
BY DEF ProcessTypeOK, Settled, CannotStart

LEMMA TakeTyped ==
    ASSUME ProcessTypeOK, Take
    PROVE  ProcessTypeOK' /\ runner' = "idle" /\ contained' = contained
<1>1. child # "running" /\ child' # "running"
  BY DEF ProcessTypeOK, Take
<1>2. QED  BY <1>1 DEF ProcessTypeOK, Take, Sizes

LEMMA ChildTyped ==
    ASSUME ProcessTypeOK, ChildStep
    PROVE  ProcessTypeOK' /\ runner' = runner /\ contained' = contained
<1>1. CASE Fork
  <2>1. child = "running" /\ contained' = contained /\ child' = child
    BY <1>1 DEF Fork
  <2>2. group' \in BOOLEAN
    BY <1>1 DEF ProcessTypeOK, Fork
  <2>3. strays' \in BOOLEAN
    BY <1>1 DEF ProcessTypeOK, Fork
  <2>4. contained => ~strays'
    BY <1>1 DEF ProcessTypeOK, Fork
  <2>5. UNCHANGED << runner, stdin, pipe, result >>
    BY <1>1 DEF Fork
  <2>6. QED  BY <2>1, <2>2, <2>3, <2>4, <2>5 DEF ProcessTypeOK
<1>2. CASE Consume  BY <1>2 DEF ProcessTypeOK, Consume
<1>3. CASE DescendantsEnd  BY <1>3 DEF ProcessTypeOK, DescendantsEnd, Left
<1>4. ASSUME NEW code \in {"succeeded", "failed"}, Exit(code)
      PROVE  ProcessTypeOK' /\ runner' = runner /\ contained' = contained
  BY <1>4 DEF ProcessTypeOK, Exit, Left
<1>5. QED  BY <1>1, <1>2, <1>3, <1>4 DEF ChildStep

LEMMA RunnerTyped ==
    ASSUME ProcessTypeOK, Settled, RunnerStep
    PROVE  /\ ProcessTypeOK' /\ Settled' /\ contained' = contained
           /\ runner # "idle" /\ runner' # "idle"
<1>1. CASE WriteInput  BY <1>1 DEF ProcessTypeOK, Settled, WriteInput
<1>2. CASE Wait  BY <1>2 DEF ProcessTypeOK, Settled, Wait
<1>3. CASE Expire  BY <1>3 DEF ProcessTypeOK, Settled, Expire
<1>4. CASE Terminate  BY <1>4 DEF ProcessTypeOK, Settled, Terminate
<1>5. CASE Reap  BY <1>5 DEF ProcessTypeOK, Settled, Reap
<1>6. CASE Kill  BY <1>6 DEF ProcessTypeOK, Settled, Kill, Left
<1>7. QED  BY <1>1, <1>2, <1>3, <1>4, <1>5, <1>6 DEF RunnerStep

(***************************************************************************)
(* Every step keeps the invariant.                                         *)
(***************************************************************************)
LEMMA InitIInv == Init => IInv
<1> SUFFICES ASSUME Init  PROVE IInv
  OBVIOUS
<1> USE DEF Init, ProcessInit
<1>1. Typed
  <2>1. ProcessTypeOK
    BY DEF ProcessTypeOK, Sizes
  <2>2. limit \in Nat /\ GateCount \in Nat
    BY WorkerAssumption
  <2>3. WorkerTypeOK
    BY <2>1, <2>2, WorkerAssumption DEF WorkerTypeOK, Sources, Offences
  <2>4. QED  BY <2>3 DEF Typed, Steps, Early
<1>2. Located /\ Based /\ Tested /\ Held /\ Undisturbed
  BY DEF Located, Settled, Based, Tested, Held, Undisturbed, Begun, Early, Sealing
<1>3. Promised
  BY DEF Promised, OkIsTested, OkIsInScope, SealedAsProjected, FailureJustified
<1>4. QED  BY <1>1, <1>2, <1>3 DEF IInv

Failures == {"needs_context", "sandbox_unavailable", "scope_violation", "timeout",
             "transport_error", "gate_failed"}

\* The command fails, with a reason where it has to have one.
LEMMA FailIInv ==
    ASSUME IInv, NEW status \in Failures, End(status), UNCHANGED << surroundings, changes >>,
           step # "ended", worktree' \in Worktrees \cup {Nothing},
           ProcessTypeOK', runner' = "idle",
           offences \subseteq offences', offences' \in SUBSET Offences,
           status \in {"scope_violation", "needs_context"} => ~Innocent'
    PROVE  IInv'
<1> USE DEF End, surroundings, captures
<1>1. step' = "ended" /\ outcome' = status /\ status # "ok"
  BY DEF Failures
<1>2. Typed'
  <2>1. WorkerTypeOK'
    BY <1>1 DEF IInv, Typed, WorkerTypeOK, Failures, Worktrees
  <2>2. QED  BY <1>1, <2>1 DEF IInv, Typed, Steps
<1>3. Located'
  BY <1>1 DEF Located, Settled, Early, Sealing
<1>4. Based' /\ Held' /\ Undisturbed'
  BY <1>1 DEF IInv, Based, Held, Undisturbed, Innocent, Sealing
<1>5. Tested'
  BY <1>1 DEF Tested, Begun, Sealing
<1>6. Promised'
  BY <1>1 DEF Promised, OkIsTested, OkIsInScope, SealedAsProjected, FailureJustified, Innocent
<1>7. QED  BY <1>2, <1>3, <1>4, <1>5, <1>6 DEF IInv

\* Nothing is promised before the command has ended.
LEMMA NothingPromisedNext == WorkerTypeOK' /\ step' # "ended" => Promised'
BY DEF WorkerTypeOK, Promised, OkIsTested, OkIsInScope, SealedAsProjected, FailureJustified

\* Steps that only the command takes.
Quiet == UNCHANGED << processVars, surroundings, worktree, history >>

LEMMA QuietFailure ==
    ASSUME IInv, step \notin {"worker", "gate_runs", "ended"}, Quiet,
           NEW status \in Failures, End(status),
           status \in {"scope_violation", "needs_context"} => ~Innocent
    PROVE  IInv'
<1>1. ProcessTypeOK' /\ runner' = "idle"
  BY DEF Quiet, processVars, IInv, Located, Typed, WorkerTypeOK, ProcessTypeOK
<1>2. worktree' \in Worktrees \cup {Nothing}
  BY DEF Quiet, IInv, Typed, WorkerTypeOK, Worktrees
<1>3. /\ UNCHANGED << surroundings, changes >> /\ offences \subseteq offences'
      /\ offences' \in SUBSET Offences /\ (~Innocent => ~Innocent')
  BY DEF Quiet, history, Innocent, IInv, Typed, WorkerTypeOK
<1>4. QED  BY <1>1, <1>2, <1>3, FailIInv

LEMMA QuietTypes ==
    ASSUME IInv, step \notin {"create", "ended"}, Quiet, step' \in Steps \ {"create", "ended"},
           UNCHANGED << limit, attempt, gate, ran, projected, sealed, outcome >>
    PROVE  Typed'
<1>1. ProcessTypeOK'
  BY DEF Quiet, processVars, IInv, Typed, WorkerTypeOK, ProcessTypeOK
<1>2. WorkerTypeOK'
  BY <1>1 DEF Quiet, surroundings, history, IInv, Typed, WorkerTypeOK
<1>3. QED  BY <1>2 DEF Quiet, IInv, Typed

LEMMA NextAttemptIInv ==
    ASSUME IInv, step \in {"compare", "gate"}, Quiet, NextAttempt, attempt < limit
    PROVE  IInv'
<1>1. /\ step' = "launch" /\ attempt' = attempt + 1 /\ ran' = [g \in Gates |-> Nothing]
      /\ UNCHANGED << limit, gate, projected, delta, sealed, outcome >>
      /\ UNCHANGED << origin, source, policy, worktree, changes, offences, contained, runner >>
  BY DEF NextAttempt, captures, Quiet, surroundings, history, processVars
<1>2. ProcessTypeOK'
  BY DEF Quiet, processVars, IInv, Typed, WorkerTypeOK, ProcessTypeOK
<1>3. attempt' \in 0 .. limit
  <2>1. limit \in Nat /\ attempt \in Nat
    BY WorkerAssumption DEF IInv, Typed, WorkerTypeOK
  <2>2. QED  BY <1>1, <2>1
<1>4. Typed'
  <2>1. WorkerTypeOK'
    BY <1>1, <1>2, <1>3 DEF IInv, Typed, WorkerTypeOK
  <2>2. QED  BY <1>1, <2>1 DEF IInv, Typed, Steps
<1>5. Located' /\ Tested' /\ Held'
  BY <1>1 DEF IInv, Located, Settled, Tested, Held, Begun, Early, Sealing
<1>6. Based' /\ Undisturbed'
  BY <1>1 DEF IInv, Based, Undisturbed, Innocent, Sealing
<1>7. QED  BY <1>1, <1>4, <1>5, <1>6, NothingPromisedNext DEF IInv, Typed

LEMMA CreateWorktreeIInv == IInv /\ CreateWorktree => IInv'
<1> SUFFICES ASSUME IInv, CreateWorktree  PROVE IInv'
  OBVIOUS
<1>1. /\ step = "create" /\ Typed /\ WorkerTypeOK /\ ProcessTypeOK
      /\ UNCHANGED << processVars, surroundings, history >>
  BY DEF CreateWorktree, IInv, Typed, WorkerTypeOK
<1>2. ProcessTypeOK' /\ runner = "idle" /\ runner' = "idle" /\ contained' = contained
      /\ group' = group /\ strays' = strays
  BY <1>1 DEF ProcessTypeOK, processVars, IInv, Located
<1>3. CASE source = "committed"
  <2>1. ~Innocent
    BY <1>3 DEF IInv, Undisturbed
  <2>2. ~Innocent' /\ offences' \in SUBSET Offences /\ offences \subseteq offences'
    BY <1>1, <2>1 DEF Innocent, history, WorkerTypeOK
  <2>3. End("needs_context") /\ UNCHANGED << surroundings, worktree, changes >>
    BY <1>1, <1>3 DEF CreateWorktree, history
  <2>4. worktree' \in Worktrees \cup {Nothing}
    BY <1>1, <2>3 DEF WorkerTypeOK, Worktrees
  <2>5. QED  BY <1>1, <1>2, <2>2, <2>3, <2>4, FailIInv DEF Failures
<1>4. CASE source # "committed"
  <2>1. /\ step' = "materialize"
        /\ worktree' = [file |-> Clean(origin.head), moved |-> FALSE, private |-> FALSE]
        /\ UNCHANGED << limit, attempt, gate, ran, projected, delta, sealed, outcome >>
        /\ UNCHANGED << origin, source, policy, changes, offences >>
    BY <1>1, <1>4 DEF CreateWorktree, Go, captures, surroundings, history
  <2>2. origin \in PathStates
    BY <1>1, OriginIsPath
  <2>3. Clean(origin.head) \in PathStates /\ Clean(origin.head).head = origin.head
    BY <2>2 DEF PathStates, Clean
  <2>4. worktree' \in Worktrees
    BY <2>1, <2>3 DEF Worktrees
  <2>5. Typed'
    <3>1. WorkerTypeOK'
      BY <1>1, <1>2, <2>1, <2>4 DEF WorkerTypeOK, Worktrees
    <3>2. QED  BY <1>1, <2>1, <2>4, <3>1 DEF Typed, Steps, Early
  <2>6. Located' /\ Based' /\ Tested' /\ Held' /\ Undisturbed'
    BY <1>1, <1>2, <2>1, <2>3
    DEF IInv, Located, Settled, Based, Tested, Held, Undisturbed, Begun, Early,
                       Sealing, Innocent
  <2>7. Promised'
    BY <2>1, <2>5, NothingPromisedNext DEF Typed
  <2>8. QED  BY <2>5, <2>6, <2>7 DEF IInv
<1>5. QED  BY <1>3, <1>4

LEMMA MaterializeIInv == IInv /\ Materialize => IInv'
<1> SUFFICES ASSUME IInv, Materialize  PROVE IInv'
  OBVIOUS
<1>1. /\ step = "materialize" /\ Typed /\ WorkerTypeOK /\ ProcessTypeOK
      /\ UNCHANGED << processVars, surroundings, history >>
  BY DEF Materialize, IInv, Typed, WorkerTypeOK
<1>2. ProcessTypeOK' /\ runner = "idle" /\ runner' = "idle" /\ contained' = contained
      /\ group' = group /\ strays' = strays /\ ~group /\ ~strays /\ attempt = 0
  BY <1>1 DEF ProcessTypeOK, processVars, IInv, Located, Early
<1>3. origin \in PathStates
  BY <1>1, OriginIsPath
<1> DEFINE files == Reproductions(Materialized(worktree.file.head, Snapshot))
<1>4. files = {origin}
  <2>1. worktree.file.head = origin.head
    BY <1>1 DEF IInv, Located, Clean
  <2>2. Materialized(origin.head, Snapshot) = {origin}
    BY <1>3, SnapshotIsReproduced DEF Snapshot
  <2>3. QED  BY <2>1, <2>2 DEF Reproductions, Snapshot
<1>5. CASE ~SourceIsUnchanged
  <2>1. ~Innocent
    BY <1>5 DEF IInv, Undisturbed, SourceIsUnchanged
  <2>2. ~Innocent' /\ offences' \in SUBSET Offences /\ offences \subseteq offences'
    BY <1>1, <2>1 DEF Innocent, history, WorkerTypeOK
  <2>3. End("needs_context") /\ UNCHANGED << surroundings, changes >>
    BY <1>1, <1>5 DEF Materialize, history, Unless
  <2>4. QED
    <3>1. worktree' = [worktree EXCEPT !.file = origin]
      BY <1>4 DEF Materialize
    <3>2. worktree' \in Worktrees
      BY <1>1, <1>3, <3>1 DEF Typed, Worktrees
    <3>3. QED  BY <1>1, <1>2, <2>2, <2>3, <3>2, FailIInv DEF Failures, Worktrees
<1>6. CASE SourceIsUnchanged
  <2>1. step' = "prepare" /\ worktree' = [worktree EXCEPT !.file = origin]
        /\ UNCHANGED << limit, attempt, gate, ran, projected, delta, sealed, outcome >>
        /\ UNCHANGED << origin, source, policy, changes, offences >>
    BY <1>1, <1>4, <1>6 DEF Materialize, Unless, Go, captures, surroundings, history
  <2>2. worktree' = [file |-> origin, moved |-> FALSE, private |-> FALSE]
    <3>1. worktree = [file |-> Clean(origin.head), moved |-> FALSE, private |-> FALSE]
      BY <1>1 DEF IInv, Located
    <3>2. QED  BY <2>1, <3>1
  <2>3. worktree' \in Worktrees
    BY <1>3, <2>2 DEF Worktrees
  <2>4. Typed'
    <3>1. WorkerTypeOK'
      BY <1>1, <1>2, <2>1, <2>3 DEF WorkerTypeOK, Worktrees
    <3>2. QED  BY <1>1, <2>1, <2>3, <3>1 DEF Typed, Steps, Early
  <2>5. Located' /\ Tested' /\ Held'
    BY <1>1, <1>2, <2>1 DEF IInv, Located, Settled, Tested, Held, Begun, Early, Sealing
  <2>6. Based'
    BY <1>1, <2>1, <2>2 DEF IInv, Based, Sealing
  <2>7. Undisturbed'
    <3>1. origin = [origin EXCEPT !.work = origin.work]
      BY <1>3 DEF PathStates
    <3>2. QED  BY <2>1, <2>2, <3>1 DEF IInv, Undisturbed, Innocent
  <2>8. QED  BY <2>1, <2>4, <2>5, <2>6, <2>7, NothingPromisedNext DEF IInv, Typed
<1>7. QED  BY <1>5, <1>6

LEMMA PrepareIInv == IInv /\ Prepare => IInv'
<1> SUFFICES ASSUME IInv, Prepare  PROVE IInv'
  OBVIOUS
<1>1. step = "prepare" /\ Quiet
  BY DEF Prepare, Quiet
<1>2. CASE End("sandbox_unavailable")
  BY <1>1, <1>2, QuietFailure DEF Failures
<1>3. CASE Go("compare")
  <2>1. /\ step' = "compare"
        /\ UNCHANGED << limit, attempt, gate, ran, projected, delta, sealed, outcome >>
    BY <1>3 DEF Go, captures
  <2>2. Typed'
    BY <1>1, <2>1, QuietTypes DEF Steps, Early
  <2>3. Located' /\ Tested' /\ Held'
    BY <1>1, <2>1 DEF IInv, Located, Settled, Tested, Held, Begun, Early, Sealing,
                      processVars, Quiet
  <2>4. Based' /\ Undisturbed'
    BY <1>1, <2>1 DEF IInv, Based, Undisturbed, Innocent, Sealing, surroundings, history, Quiet
  <2>5. QED  BY <2>1, <2>2, <2>3, <2>4, NothingPromisedNext DEF IInv, Typed
<1>4. QED  BY <1>2, <1>3 DEF Prepare

LEMMA CompareSourceIInv == IInv /\ CompareSource => IInv'
<1> SUFFICES ASSUME IInv, CompareSource  PROVE IInv'
  OBVIOUS
<1>1. step = "compare" /\ Quiet
  BY DEF CompareSource, Quiet
<1>2. CASE ~SourceIsUnchanged
  <2>1. End("scope_violation")
    BY <1>2 DEF CompareSource
  <2>2. ~Innocent
    BY <1>2 DEF IInv, Undisturbed, SourceIsUnchanged
  <2>3. QED  BY <1>1, <2>1, <2>2, QuietFailure DEF Failures
<1>3. CASE SourceIsUnchanged /\ limit = 0
  <2>1. End("gate_failed")
    BY <1>3 DEF CompareSource
  <2>2. QED  BY <1>1, <2>1, QuietFailure DEF Failures
<1>4. CASE SourceIsUnchanged /\ limit # 0
  <2>1. attempt = 0 /\ limit \in Nat
    BY <1>1, WorkerAssumption DEF IInv, Located, Early, Typed, WorkerTypeOK
  <2>2. NextAttempt /\ attempt < limit
    BY <1>4, <2>1 DEF CompareSource
  <2>3. QED  BY <1>1, <2>2, NextAttemptIInv
<1>5. QED  BY <1>2, <1>3, <1>4

LEMMA LaunchIInv == IInv /\ Launch => IInv'
<1> SUFFICES ASSUME IInv, Launch  PROVE IInv'
  OBVIOUS
<1>1. /\ step = "launch" /\ step' = "worker" /\ Typed /\ WorkerTypeOK /\ ProcessTypeOK
      /\ UNCHANGED << limit, attempt, gate, ran, projected, delta, sealed, outcome >>
      /\ UNCHANGED << origin, source, policy, worktree, changes, offences >>
  BY DEF Launch, Go, captures, surroundings, history, IInv, Typed, WorkerTypeOK
<1>2. ProcessTypeOK' /\ Settled' /\ runner' # "idle" /\ contained' = contained
  BY <1>1, StartTyped, CannotStartTyped DEF Launch, Sizes
<1>3. Typed'
  BY <1>1, <1>2 DEF Typed, WorkerTypeOK, Steps
<1>4. Located' /\ Tested' /\ Held'
  BY <1>1, <1>2 DEF IInv, Located, Settled, Tested, Held, Begun, Early, Sealing
<1>5. Based' /\ Undisturbed'
  BY <1>1 DEF IInv, Based, Undisturbed, Innocent, Sealing
<1>6. QED  BY <1>1, <1>3, <1>4, <1>5, NothingPromisedNext DEF IInv, Typed

LEMMA WorkerReturnsIInv == IInv /\ WorkerReturns => IInv'
<1> SUFFICES ASSUME IInv, WorkerReturns  PROVE IInv'
  OBVIOUS
<1>1. /\ step = "worker" /\ Take /\ Typed /\ WorkerTypeOK /\ ProcessTypeOK
      /\ UNCHANGED << surroundings, worktree, changes >>
      /\ offences' = offences \cup (IF result = "raised" THEN {"unread"} ELSE {})
  BY DEF WorkerReturns, IInv, Typed, WorkerTypeOK
<1>2. ProcessTypeOK' /\ runner' = "idle" /\ contained' = contained
  BY <1>1, TakeTyped
<1>3. /\ worktree' \in Worktrees /\ offences \subseteq offences'
      /\ offences' \in SUBSET Offences /\ (Innocent' => Innocent)
  BY <1>1 DEF Typed, WorkerTypeOK, Offences, Innocent
<1>4. CASE result = "raised"
  <2>1. End("needs_context")
    BY <1>4 DEF WorkerReturns
  <2>2. ~Innocent'
    BY <1>1, <1>4 DEF Innocent
  <2>3. QED  BY <1>1, <1>2, <1>3, <2>1, <2>2, FailIInv DEF Failures
<1>5. CASE result # "raised" /\ (~policy \/ ~SourceIsUnchanged)
  <2>1. End("scope_violation")
    BY <1>5 DEF WorkerReturns
  <2>2. ~Innocent'
    BY <1>3, <1>5 DEF IInv, Undisturbed, SourceIsUnchanged
  <2>3. QED  BY <1>1, <1>2, <1>3, <2>1, <2>2, FailIInv DEF Failures
<1>6. CASE /\ result # "raised" /\ ~(~policy \/ ~SourceIsUnchanged)
           /\ result # "ok"
  <2>1. End(result)
    BY <1>6 DEF WorkerReturns
  <2>2. result \in {"transport_error", "timeout"}
    <3>1. runner = "done"
      BY <1>1 DEF Take
    <3>2. QED  BY <1>1, <1>6, <3>1 DEF IInv, Located, Settled, ProcessTypeOK
  <2>3. QED  BY <1>1, <1>2, <1>3, <2>1, <2>2, FailIInv DEF Failures
<1>7. CASE /\ result # "raised" /\ ~(~policy \/ ~SourceIsUnchanged)
           /\ result = "ok"
  <2>1. /\ step' = "gate" /\ gate' = 1 /\ offences' = offences
        /\ UNCHANGED << limit, attempt, ran, projected, delta, sealed, outcome >>
        /\ UNCHANGED << origin, source, policy, worktree, changes >>
    BY <1>1, <1>7 DEF WorkerReturns, captures, surroundings
  <2>2. Typed'
    <3>1. 1 \in 1 .. GateCount + 1
      BY WorkerAssumption
    <3>2. WorkerTypeOK'
      BY <1>1, <1>2, <2>1, <3>1 DEF WorkerTypeOK
    <3>3. QED  BY <1>1, <2>1, <3>2 DEF Typed, Steps
  <2>3. Located' /\ Held'
    BY <1>1, <1>2, <2>1 DEF IInv, Located, Settled, Held, Early, Sealing
  <2>4. Tested'
    <3>1. ~ \E g \in Gates : g < 1
      BY WorkerAssumption DEF Gates
    <3>2. QED  BY <2>1, <3>1 DEF Tested, Begun, Sealing
  <2>5. Based' /\ Undisturbed'
    BY <1>1, <2>1 DEF IInv, Based, Undisturbed, Innocent, Sealing
  <2>6. QED  BY <2>1, <2>2, <2>3, <2>4, <2>5, NothingPromisedNext DEF IInv, Typed
<1>8. QED  BY <1>4, <1>5, <1>6, <1>7

LEMMA BeginGateIInv == IInv /\ BeginGate => IInv'
<1> SUFFICES ASSUME IInv, BeginGate  PROVE IInv'
  OBVIOUS
<1> DEFINE new == [status |-> "gate_failed", file |-> worktree.file.work]
<1>1. /\ step = "gate" /\ gate \in Gates /\ step' = "gate_runs"
      /\ Typed /\ WorkerTypeOK /\ ProcessTypeOK /\ worktree \in Worktrees
      /\ ran' = [ran EXCEPT ![gate] = new]
      /\ UNCHANGED << limit, attempt, gate, projected, delta, sealed, outcome >>
      /\ UNCHANGED << origin, source, policy, worktree, changes, offences >>
  BY DEF BeginGate, Ran, captures, surroundings, history, IInv, Typed, WorkerTypeOK
<1>2. ProcessTypeOK' /\ Settled' /\ runner' # "idle" /\ contained' = contained
  BY <1>1, StartTyped, CannotStartTyped DEF BeginGate, Sizes
<1>3. new \in Results /\ ran' \in [Gates -> Results \cup {Nothing}]
  BY <1>1 DEF Typed, Results, Worktrees, PathStates
<1>4. /\ ran'[gate] = new
      /\ \A g \in Gates : g # gate => ran'[g] = ran[g]
  BY <1>1 DEF Typed
<1>5. Typed'
  <2>1. WorkerTypeOK'
    BY <1>1, <1>2, <1>3 DEF WorkerTypeOK, Results
  <2>2. QED  BY <1>1, <1>3, <2>1 DEF Typed, Steps
<1>6. Located' /\ Held'
  BY <1>1, <1>2, <1>3, <1>4 DEF IInv, Located, Held, Early, Sealing
<1>7. Tested'
  <2>1. ASSUME NEW g \in Gates, g <= gate  PROVE g = gate \/ g < gate
    BY <1>1, <2>1, WorkerAssumption DEF Gates
  <2>2. QED  BY <1>1, <1>2, <1>4, <2>1 DEF IInv, Tested, Begun, Sealing
<1>8. Based' /\ Undisturbed'
  BY <1>1 DEF IInv, Based, Undisturbed, Innocent, Sealing
<1>9. QED  BY <1>1, <1>5, <1>6, <1>7, <1>8, NothingPromisedNext DEF IInv, Typed

LEMMA RefuseGateIInv == IInv /\ RefuseGate => IInv'
<1> SUFFICES ASSUME IInv, RefuseGate  PROVE IInv'
  OBVIOUS
<1> DEFINE new == [status |-> "gate_failed", file |-> worktree.file.work]
<1>1. /\ step = "gate" /\ gate \in Gates /\ step' = step /\ gate' = gate + 1
      /\ Typed /\ WorkerTypeOK /\ ProcessTypeOK /\ worktree \in Worktrees
      /\ ran' = [ran EXCEPT ![gate] = new]
      /\ UNCHANGED << limit, attempt, projected, delta, sealed, outcome >>
      /\ UNCHANGED << origin, source, policy, worktree, changes, offences >>
      /\ UNCHANGED processVars
  BY DEF RefuseGate, Ran, captures, surroundings, history, IInv, Typed, WorkerTypeOK
<1>2. ProcessTypeOK' /\ Settled' /\ runner' = runner /\ contained' = contained
  BY <1>1 DEF ProcessTypeOK, processVars, IInv, Located, Settled
<1>3. new \in Results /\ ran' \in [Gates -> Results \cup {Nothing}]
  BY <1>1 DEF Typed, Results, Worktrees, PathStates
<1>4. /\ ran'[gate] = new
      /\ \A g \in Gates : g # gate => ran'[g] = ran[g]
  BY <1>1 DEF Typed
<1>5. gate' \in 1 .. GateCount + 1 /\ \A g \in Gates : g < gate' => g = gate \/ g < gate
  BY <1>1, WorkerAssumption DEF Gates
<1>6. Typed'
  <2>1. WorkerTypeOK'
    BY <1>1, <1>2, <1>3, <1>5 DEF WorkerTypeOK, Results
  <2>2. QED  BY <1>1, <1>3, <2>1 DEF Typed
<1>7. Located' /\ Held'
  BY <1>1, <1>2 DEF IInv, Located, Held, Early, Sealing
<1>8. Tested'
  BY <1>1, <1>2, <1>4, <1>5 DEF IInv, Tested, Begun, Sealing
<1>9. Based' /\ Undisturbed'
  BY <1>1 DEF IInv, Based, Undisturbed, Innocent, Sealing
<1>10. QED  BY <1>1, <1>6, <1>7, <1>8, <1>9, NothingPromisedNext DEF IInv, Typed

LEMMA GateReturnsIInv == IInv /\ GateReturns => IInv'
<1> SUFFICES ASSUME IInv, GateReturns  PROVE IInv'
  OBVIOUS
<1> DEFINE status == IF policy /\ result \in {"ok", "timeout"} THEN result ELSE "gate_failed"
           new == [status |-> status, file |-> ran[gate].file]
<1>1. /\ step = "gate_runs" /\ step' = "gate" /\ gate' = gate + 1 /\ Take
      /\ Typed /\ WorkerTypeOK /\ ProcessTypeOK /\ worktree \in Worktrees
      /\ ran' = [ran EXCEPT ![gate] = new]
      /\ UNCHANGED << limit, attempt, projected, delta, sealed, outcome >>
      /\ UNCHANGED << origin, source, policy, worktree, changes, offences >>
  BY DEF GateReturns, Ran, captures, surroundings, history, IInv, Typed, WorkerTypeOK
<1>2. ProcessTypeOK' /\ runner' = "idle" /\ contained' = contained
  BY <1>1, TakeTyped
<1>3. gate \in Gates /\ ran[gate] \in Results
  BY <1>1 DEF IInv, Located
<1>4. new \in Results /\ new.file = ran[gate].file
  BY <1>3 DEF Results
<1>5. /\ ran' \in [Gates -> Results \cup {Nothing}]
      /\ ran'[gate] = new
      /\ \A g \in Gates : g # gate => ran'[g] = ran[g]
  BY <1>1, <1>3, <1>4 DEF Typed
<1>6. gate' \in 1 .. GateCount + 1
      /\ \A g \in Gates : g < gate' => g <= gate
  BY <1>1, <1>3, WorkerAssumption DEF Gates
<1>7. Typed'
  <2>1. WorkerTypeOK'
    BY <1>1, <1>2, <1>5, <1>6 DEF WorkerTypeOK, Results
  <2>2. QED  BY <1>1, <1>5, <2>1 DEF Typed, Steps
<1>8. Located' /\ Held'
  BY <1>1, <1>2 DEF IInv, Located, Settled, Held, Early, Sealing
<1>9. Tested'
  BY <1>1, <1>2, <1>4, <1>5, <1>6 DEF IInv, Tested, Begun, Sealing
<1>10. Based' /\ Undisturbed'
  BY <1>1 DEF IInv, Based, Undisturbed, Innocent, Sealing
<1>11. QED  BY <1>1, <1>7, <1>8, <1>9, <1>10, NothingPromisedNext DEF IInv, Typed

LEMMA FinishGatesIInv == IInv /\ FinishGates => IInv'
<1> SUFFICES ASSUME IInv, FinishGates  PROVE IInv'
  OBVIOUS
<1>1. step = "gate" /\ gate \notin Gates /\ Quiet
  BY DEF FinishGates, Quiet
<1>2. CASE ~SourceIsUnchanged
  <2>1. End("scope_violation")
    BY <1>2 DEF FinishGates
  <2>2. ~Innocent
    BY <1>2 DEF IInv, Undisturbed, SourceIsUnchanged
  <2>3. QED  BY <1>1, <2>1, <2>2, QuietFailure DEF Failures
<1>3. CASE SourceIsUnchanged /\ \A g \in Gates : ran[g].status = "ok"
  <2>1. /\ step' = "capture"
        /\ UNCHANGED << limit, attempt, gate, ran, projected, delta, sealed, outcome >>
        /\ UNCHANGED << origin, source, policy, worktree, changes, offences >>
        /\ UNCHANGED << contained, runner, result >>
    BY <1>1, <1>3 DEF FinishGates, Go, captures, Quiet, surroundings, history, processVars
  <2>2. Typed'
    BY <1>1, <2>1, QuietTypes DEF Steps
  <2>3. Located' /\ Held'
    BY <1>1, <1>3, <2>1 DEF IInv, Located, Settled, Held, Early, Sealing
  <2>4. Tested'
    <3>1. \A g \in Gates : g < gate
      BY <1>1, WorkerAssumption DEF Gates, IInv, Typed, WorkerTypeOK
    <3>2. QED  BY <1>1, <2>1, <3>1 DEF IInv, Tested, Begun, Sealing
  <2>5. Based' /\ Undisturbed'
    BY <1>1, <2>1 DEF IInv, Based, Undisturbed, Innocent, Sealing
  <2>6. QED  BY <2>1, <2>2, <2>3, <2>4, <2>5, NothingPromisedNext DEF IInv, Typed
<1>4. CASE /\ SourceIsUnchanged /\ ~\A g \in Gates : ran[g].status = "ok"
           /\ attempt >= limit
  <2>1. End("gate_failed")
    BY <1>4 DEF FinishGates
  <2>2. QED  BY <1>1, <2>1, QuietFailure DEF Failures
<1>5. CASE /\ SourceIsUnchanged /\ ~\A g \in Gates : ran[g].status = "ok"
           /\ ~(attempt >= limit)
  <2>1. limit \in Nat /\ attempt \in Nat
    BY WorkerAssumption DEF IInv, Typed, WorkerTypeOK
  <2>2. NextAttempt /\ attempt < limit
    BY <1>5, <2>1 DEF FinishGates
  <2>3. QED  BY <1>1, <2>2, NextAttemptIInv
<1>6. QED  BY <1>2, <1>3, <1>4, <1>5

LEMMA CaptureProjectedIInv == IInv /\ CaptureProjected => IInv'
<1> SUFFICES ASSUME IInv, CaptureProjected  PROVE IInv'
  OBVIOUS
<1> DEFINE tampered == \/ worktree.moved \/ worktree.private
                       \/ PathSnapshot(worktree.file).staged # Snapshot.staged
<1>1. step = "capture" /\ Quiet /\ Typed /\ WorkerTypeOK /\ worktree \in Worktrees
  BY DEF CaptureProjected, Quiet, IInv, Typed
<1>2. origin \in PathStates /\ worktree.file \in PathStates
  BY <1>1, OriginIsPath DEF Worktrees
<1>3. CASE tampered
  <2>1. End("scope_violation")
    BY <1>3 DEF CaptureProjected
  <2>2. ~Innocent
    <3>1. SUFFICES ASSUME Innocent  PROVE FALSE
      OBVIOUS
    <3>2. worktree = [file |-> [origin EXCEPT !.work = worktree.file.work],
                      moved |-> FALSE, private |-> FALSE]
      BY <1>1, <3>1 DEF IInv, Undisturbed
    <3>3. ~worktree.moved /\ ~worktree.private
          /\ worktree.file.head = origin.head /\ worktree.file.index = origin.index
      BY <1>2, <3>2 DEF PathStates
    <3>4. PathSnapshot(worktree.file).staged = Snapshot.staged
      BY <3>3 DEF PathSnapshot, Snapshot
    <3>5. QED  BY <1>3, <3>3, <3>4
  <2>3. QED  BY <1>1, <2>1, <2>2, QuietFailure DEF Failures
<1>4. CASE ~tampered
  <2>1. /\ step' = "records" /\ projected' = worktree.file
        /\ UNCHANGED << limit, attempt, gate, ran, delta, sealed, outcome >>
        /\ UNCHANGED << origin, source, policy, worktree, changes, offences >>
        /\ UNCHANGED << contained, runner, result >> /\ ProcessTypeOK'
    BY <1>1, <1>4 DEF CaptureProjected, Quiet, surroundings, history, processVars, WorkerTypeOK,
                      ProcessTypeOK
  <2>2. worktree.file.head = origin.head /\ ~worktree.moved /\ ~worktree.private
    BY <1>1, <1>4 DEF IInv, Based
  <2>3. worktree.file.index = origin.index
    BY <1>2, <1>4, <2>2, StagedIdentifies DEF Snapshot
  <2>4. worktree.file = [origin EXCEPT !.work = worktree.file.work]
    BY <1>2, <2>2, <2>3 DEF PathStates
  <2>5. worktree = [file |-> worktree.file, moved |-> FALSE, private |-> FALSE]
    BY <1>1, <2>2 DEF Worktrees
  <2>6. Typed'
    <3>1. WorkerTypeOK'
      BY <1>1, <1>2, <2>1 DEF WorkerTypeOK
    <3>2. QED  BY <1>1, <2>1, <3>1 DEF Typed, Steps, Sealing
  <2>7. Located' /\ Tested'
    BY <1>1, <2>1 DEF IInv, Located, Settled, Tested, Begun, Early, Sealing
  <2>8. Held'
    BY <2>1, <2>5 DEF Held
  <2>9. Based'
    BY <1>1, <1>2, <2>1, <2>4 DEF IInv, Based
  <2>10. Undisturbed'
    BY <1>1, <2>1 DEF IInv, Undisturbed, Innocent
  <2>11. QED
    BY <2>1, <2>6, <2>7, <2>8, <2>9, <2>10, NothingPromisedNext DEF IInv, Typed
<1>5. QED  BY <1>3, <1>4

LEMMA CaptureRecordsIInv == IInv /\ CaptureRecords => IInv'
<1> SUFFICES ASSUME IInv, CaptureRecords  PROVE IInv'
  OBVIOUS
<1>1. /\ step = "records" /\ step' = "recheck" /\ Quiet
      /\ Typed /\ WorkerTypeOK /\ worktree \in Worktrees
      /\ delta' = PathDelta(origin.work, worktree.file.work)
      /\ UNCHANGED << limit, attempt, gate, ran, projected, sealed, outcome >>
      /\ UNCHANGED << origin, source, policy, worktree, changes, offences >>
      /\ UNCHANGED << contained, runner, result >>
  BY DEF CaptureRecords, Quiet, surroundings, history, processVars, IInv, Typed
<1>2. worktree.file.work \in Entries
  BY <1>1 DEF Worktrees, PathStates
<1>3. Typed'
  BY <1>1, QuietTypes DEF Steps, Sealing
<1>4. Located' /\ Tested' /\ Held'
  BY <1>1 DEF IInv, Located, Settled, Tested, Held, Begun, Early, Sealing
<1>5. Based' /\ Undisturbed'
  BY <1>1, <1>2 DEF IInv, Based, Undisturbed, Innocent, Sealing
<1>6. QED  BY <1>1, <1>3, <1>4, <1>5, NothingPromisedNext DEF IInv, Typed

LEMMA RecheckSourceIInv == IInv /\ RecheckSource => IInv'
<1> SUFFICES ASSUME IInv, RecheckSource  PROVE IInv'
  OBVIOUS
<1>1. step = "recheck" /\ Quiet
  BY DEF RecheckSource, Quiet
<1>2. CASE ~SourceIsUnchanged
  <2>1. End("scope_violation")
    BY <1>2 DEF RecheckSource, Unless
  <2>2. ~Innocent
    BY <1>2 DEF IInv, Undisturbed, SourceIsUnchanged
  <2>3. QED  BY <1>1, <2>1, <2>2, QuietFailure DEF Failures
<1>3. CASE SourceIsUnchanged
  <2>1. /\ step' = "seal"
        /\ UNCHANGED << limit, attempt, gate, ran, projected, delta, sealed, outcome >>
        /\ UNCHANGED << origin, source, policy, worktree, changes, offences >>
        /\ UNCHANGED << contained, runner, result >>
    BY <1>1, <1>3 DEF RecheckSource, Unless, Go, captures, Quiet, surroundings, history,
                      processVars
  <2>2. Typed'
    BY <1>1, <2>1, QuietTypes DEF Steps, Sealing
  <2>3. Located' /\ Tested' /\ Held'
    BY <1>1, <2>1 DEF IInv, Located, Settled, Tested, Held, Begun, Early, Sealing
  <2>4. Based' /\ Undisturbed'
    BY <1>1, <2>1 DEF IInv, Based, Undisturbed, Innocent, Sealing
  <2>5. QED  BY <2>1, <2>2, <2>3, <2>4, NothingPromisedNext DEF IInv, Typed
<1>4. QED  BY <1>2, <1>3

\* A replay that equals the projection is the projection; without an offence there is one.
LEMMA SealIInv == IInv /\ Seal => IInv'
<1> SUFFICES ASSUME IInv, Seal  PROVE IInv'
  OBVIOUS
<1>1. step = "seal" /\ Quiet /\ Typed /\ WorkerTypeOK /\ worktree \in Worktrees
  BY DEF Seal, Quiet, IInv, Typed
<1>2. /\ origin \in PathStates /\ projected \in PathStates
      /\ projected = [origin EXCEPT !.work = projected.work]
  BY <1>1, OriginIsPath DEF IInv, Based, Sealing
<1>3. PICK e \in Entries : delta = PathDelta(origin.work, e)
  BY <1>1 DEF IInv, Based
<1>4. Replayed(origin.head, Snapshot, delta) = { [origin EXCEPT !.work = e] }
  BY <1>2, <1>3, DeltaIsReplayed DEF Snapshot
<1>5. \A f \in Replays : f = projected
  <2>1. SUFFICES ASSUME NEW f \in Replays  PROVE f = projected
    OBVIOUS
  <2>2. f = [origin EXCEPT !.work = e] /\ PathSnapshot(f) = PathSnapshot(projected)
    BY <1>4, <2>1 DEF Replays
  <2>3. f \in PathStates /\ f.head = origin.head /\ projected.head = origin.head
    BY <1>2, <2>2 DEF PathStates
  <2>4. QED  BY <1>2, <2>2, <2>3, SnapshotIdentifies
<1>6. CASE Replays = {}
  <2>1. End("needs_context")
    BY <1>6 DEF Seal
  <2>2. ~Innocent
    <3>1. SUFFICES ASSUME Innocent  PROVE FALSE
      OBVIOUS
    <3>2. source = "captured" /\ delta = PathDelta(origin.work, projected.work)
      BY <1>1, <3>1 DEF IInv, Undisturbed
    <3>3. projected.work \in Entries
      BY <1>2 DEF PathStates
    <3>4. Replayed(origin.head, Snapshot, delta) = {projected}
      BY <1>2, <3>2, <3>3, DeltaIsReplayed DEF Snapshot
    <3>5. projected \in Replays
      BY <3>2, <3>4 DEF Replays, SourceIsUnchanged
    <3>6. QED  BY <1>6, <3>5
  <2>3. QED  BY <1>1, <2>1, <2>2, QuietFailure DEF Failures
<1>7. CASE Replays # {}
  <2>1. /\ step' = "ended" /\ outcome' = "ok" /\ sealed' = projected.work
        /\ UNCHANGED << limit, attempt, gate, ran, projected, delta >>
        /\ UNCHANGED << origin, source, policy, worktree, changes, offences >>
        /\ UNCHANGED << contained, runner, result >> /\ ProcessTypeOK'
    BY <1>1, <1>5, <1>7 DEF Seal, captures, Quiet, surroundings, history, processVars,
                            WorkerTypeOK, ProcessTypeOK
  <2>2. sealed' \in Entries /\ sealed' # Nothing
    BY <1>2, <2>1, WorkerAssumption DEF PathStates
  <2>3. Typed'
    <3>1. WorkerTypeOK'
      BY <1>1, <2>1, <2>2 DEF WorkerTypeOK
    <3>2. QED  BY <1>1, <2>1, <3>1 DEF Typed, Steps
  <2>4. Located' /\ Tested' /\ Held'
    BY <1>1, <2>1 DEF IInv, Located, Settled, Tested, Held, Begun, Early, Sealing
  <2>5. Based' /\ Undisturbed'
    BY <2>1 DEF IInv, Based, Undisturbed, Innocent, Sealing
  <2>6. Promised'
    <3>1. contained => worktree = [file |-> projected, moved |-> FALSE, private |-> FALSE]
      BY <1>1 DEF IInv, Held, Sealing
    <3>2. OkIsTested'
      <4>1. \A g \in Gates : ran[g].status = "ok"
        BY <1>1 DEF IInv, Located, Sealing
      <4>2. contained /\ "gate" \notin offences =>
                \A g \in Gates : ran[g].file = worktree.file.work
        BY <1>1 DEF IInv, Tested, Begun, Sealing
      <4>3. contained => worktree.file.work = projected.work
        BY <3>1
      <4>4. QED  BY <2>1, <4>1, <4>2, <4>3 DEF OkIsTested
    <3>3. OkIsInScope'
      BY <1>2, <2>1, <3>1 DEF OkIsInScope
    <3>4. SealedAsProjected' /\ FailureJustified'
      BY <2>1 DEF SealedAsProjected, FailureJustified
    <3>5. QED  BY <3>2, <3>3, <3>4 DEF Promised
  <2>7. QED  BY <2>3, <2>4, <2>5, <2>6 DEF IInv
<1>8. QED  BY <1>6, <1>7

\* Whoever is alive was started, and a contained one lives while run_process runs only.
LEMMA WhoIsAlive ==
    ASSUME IInv, child = "running" \/ group \/ strays
    PROVE  step \notin Early /\ (contained => step \in {"worker", "gate_runs"})
BY DEF IInv, Located, Typed, WorkerTypeOK, ProcessTypeOK, Early

LEMMA RunIInv == IInv /\ Run => IInv'
<1> SUFFICES ASSUME IInv, Run  PROVE IInv'
  OBVIOUS
<1>1. /\ RunnerStep /\ Typed /\ WorkerTypeOK /\ ProcessTypeOK /\ Settled
      /\ UNCHANGED << step, limit, attempt, gate, ran, projected, delta, sealed, outcome >>
      /\ UNCHANGED << origin, source, policy, worktree, changes, offences >>
  BY DEF Run, progress, captures, surroundings, history, IInv, Typed, WorkerTypeOK, Located
<1>2. ProcessTypeOK' /\ Settled' /\ runner # "idle" /\ runner' # "idle"
      /\ contained' = contained
  BY <1>1, RunnerTyped
<1>3. step \in {"worker", "gate_runs"}
  BY <1>2 DEF IInv, Located
<1>4. Typed'
  <2>1. WorkerTypeOK'
    BY <1>1, <1>2 DEF WorkerTypeOK
  <2>2. QED  BY <1>1, <2>1 DEF Typed
<1>5. Located' /\ Tested' /\ Held'
  BY <1>1, <1>2, <1>3 DEF IInv, Located, Tested, Held, Begun, Early
<1>6. Based' /\ Undisturbed'
  BY <1>1 DEF IInv, Based, Undisturbed, Innocent
<1>7. QED  BY <1>1, <1>3, <1>4, <1>5, <1>6, NothingPromisedNext DEF IInv, Typed

LEMMA LiveIInv == IInv /\ Live => IInv'
<1> SUFFICES ASSUME IInv, Live  PROVE IInv'
  OBVIOUS
<1>1. /\ ChildStep /\ step # "ended" /\ Typed /\ WorkerTypeOK /\ ProcessTypeOK
      /\ UNCHANGED << step, limit, attempt, gate, ran, projected, delta, sealed, outcome >>
      /\ UNCHANGED << origin, source, policy, worktree, changes, offences >>
  BY DEF Live, progress, captures, surroundings, history, IInv, Typed, WorkerTypeOK
<1>2. ProcessTypeOK' /\ runner' = runner /\ contained' = contained
  BY <1>1, ChildTyped
<1>3. result' = result
  BY <1>1 DEF ChildStep, Fork, Consume, DescendantsEnd, Exit
<1>4. step \notin Early
  <2>1. child = "running" \/ group \/ strays
    BY <1>1 DEF ChildStep, Fork, Consume, DescendantsEnd, Exit
  <2>2. QED  BY <2>1, WhoIsAlive
<1>5. Typed'
  <2>1. WorkerTypeOK'
    BY <1>1, <1>2 DEF WorkerTypeOK
  <2>2. QED  BY <1>1, <2>1 DEF Typed
<1>6. Located' /\ Tested' /\ Held'
  BY <1>1, <1>2, <1>3, <1>4 DEF IInv, Located, Settled, Tested, Held, Begun
<1>7. Based' /\ Undisturbed'
  BY <1>1 DEF IInv, Based, Undisturbed, Innocent
<1>8. QED  BY <1>1, <1>5, <1>6, <1>7, NothingPromisedNext DEF IInv, Typed

LEMMA MisdeedsKeepFile ==
    ASSUME origin \in PathStates, worktree \in Worktrees, NEW w \in Misdeeds(worktree)
    PROVE  /\ w \in Worktrees /\ w.file.work = worktree.file.work
           /\ ~w.moved => ~worktree.moved /\ w.file.head = worktree.file.head
<1>1. worktree.file \in PathStates
  BY DEF Worktrees
<1>2. CASE w = [worktree EXCEPT !.private = ~@]
  BY <1>1, <1>2 DEF Worktrees, PathStates
<1>3. CASE w = [worktree EXCEPT !.file.index = worktree.file.work]
  BY <1>1, <1>3 DEF Worktrees, PathStates
<1>4. CASE w = [worktree EXCEPT !.file.index = origin.index]
  BY <1>1, <1>4 DEF Worktrees, PathStates
<1>5. CASE w = [worktree EXCEPT !.moved = TRUE, !.file.head = worktree.file.index]
  BY <1>1, <1>5 DEF Worktrees, PathStates
<1>6. QED  BY <1>2, <1>3, <1>4, <1>5 DEF Misdeeds

LEMMA WriteIInv == IInv /\ Write => IInv'
<1> SUFFICES ASSUME IInv, Write  PROVE IInv'
  OBVIOUS
<1>1. /\ step # "ended" /\ Typed /\ WorkerTypeOK /\ ProcessTypeOK
      /\ UNCHANGED processVars /\ UNCHANGED << contained, runner, result, group, strays >>
      /\ UNCHANGED << step, limit, attempt, gate, ran, projected, delta, sealed, outcome >>
      /\ UNCHANGED << origin, source, policy >>
  BY DEF Write, processVars, progress, captures, surroundings, IInv, Typed, WorkerTypeOK
<1>2. step \notin Early /\ (contained => step \in {"worker", "gate_runs"})
  BY WhoIsAlive DEF Write
<1>3. origin \in PathStates /\ worktree \in Worktrees /\ worktree.file \in PathStates
  BY <1>1, <1>2, OriginIsPath DEF Typed, Early, Worktrees
<1>4. \/ \E e \in Writes : worktree' = [worktree EXCEPT !.file.work = e]
      \/ worktree' \in Misdeeds(worktree)
  BY DEF Write
<1>5. /\ worktree' \in Worktrees
      /\ ~worktree'.moved => ~worktree.moved /\ worktree'.file.head = worktree.file.head
  <2>1. ASSUME NEW e \in Writes, worktree' = [worktree EXCEPT !.file.work = e]
        PROVE  /\ worktree' \in Worktrees
               /\ ~worktree'.moved => ~worktree.moved
                                      /\ worktree'.file.head = worktree.file.head
    BY <1>3, <2>1, WorkerAssumption DEF Worktrees, PathStates
  <2>2. QED  BY <1>3, <1>4, <2>1, MisdeedsKeepFile
<1>6. /\ offences \subseteq offences' /\ offences' \in SUBSET Offences
      /\ changes' \in 0 .. MaxChanges
  BY <1>1, WorkerAssumption DEF Write, Offences, WorkerTypeOK
<1>7. Typed'
  <2>1. ProcessTypeOK'
    BY <1>1 DEF ProcessTypeOK, processVars
  <2>2. WorkerTypeOK'
    BY <1>1, <1>5, <1>6, <2>1 DEF WorkerTypeOK, Worktrees
  <2>3. QED  BY <1>1, <1>5, <2>2 DEF Typed
<1>8. Located' /\ Held'
  BY <1>1, <1>2 DEF IInv, Located, Settled, Held, Early, Sealing
<1>9. Based'
  BY <1>1, <1>5 DEF IInv, Based
<1>10. Tested'
  <2>1. SUFFICES ASSUME contained, "gate" \notin offences'
                 PROVE  \A g \in Gates : ~Begun(g)'
    BY <1>1 DEF Tested
  <2>2. step # "gate_runs"
    BY <2>1 DEF Write
  <2>3. QED  BY <1>1, <1>2, <2>1, <2>2 DEF Begun, Sealing
<1>11. Undisturbed'
  <2>1. SUFFICES ASSUME Innocent'  PROVE Undisturbed'
    BY DEF Undisturbed
  <2>2. Innocent /\ "scope" \notin offences' /\ "late" \notin offences'
    BY <1>6, <2>1 DEF Innocent
  <2>3. step \in {"worker", "gate_runs"}
    BY <2>2 DEF Write
  <2>4. worktree'.file.work # worktree.file.work
    BY <2>2 DEF Write
  <2>5. PICK e \in Writes : worktree' = [worktree EXCEPT !.file.work = e]
    BY <1>3, <1>4, <2>4, MisdeedsKeepFile
  <2>6. worktree = [file |-> [origin EXCEPT !.work = worktree.file.work],
                    moved |-> FALSE, private |-> FALSE]
    BY <2>2, <2>3 DEF IInv, Undisturbed
  <2>7. worktree' = [file |-> [origin EXCEPT !.work = e], moved |-> FALSE, private |-> FALSE]
        /\ worktree'.file.work = e
    <3>1. [worktree EXCEPT !.file.work = e] =
              [file |-> [worktree.file EXCEPT !.work = e],
               moved |-> worktree.moved, private |-> worktree.private]
      BY <1>3 DEF Worktrees
    <3>2. /\ worktree.file = [origin EXCEPT !.work = worktree.file.work]
          /\ worktree.moved = FALSE /\ worktree.private = FALSE
      BY <2>6
    <3>3. [worktree.file EXCEPT !.work = e] = [origin EXCEPT !.work = e]
          /\ [origin EXCEPT !.work = e].work = e
      BY <1>3, <3>2 DEF PathStates
    <3>4. QED  BY <2>5, <3>1, <3>2, <3>3
  <2>8. QED  BY <1>1, <2>2, <2>3, <2>7 DEF IInv, Undisturbed
<1>12. QED
  BY <1>1, <1>7, <1>8, <1>9, <1>10, <1>11, NothingPromisedNext DEF IInv, Typed

LEMMA DisturbIInv == IInv /\ Disturb => IInv'
<1> SUFFICES ASSUME IInv, Disturb  PROVE IInv'
  OBVIOUS
<1>1. /\ step # "ended" /\ Typed /\ WorkerTypeOK /\ ProcessTypeOK
      /\ UNCHANGED processVars /\ UNCHANGED << contained, runner, result, group, strays >>
      /\ UNCHANGED << step, limit, attempt, gate, ran, projected, delta, sealed, outcome >>
      /\ UNCHANGED << origin, worktree >> /\ offences' = offences \cup {"disturbance"}
  BY DEF Disturb, processVars, progress, captures, IInv, Typed, WorkerTypeOK
<1>2. Typed'
  <2>1. ProcessTypeOK'
    BY <1>1 DEF ProcessTypeOK, processVars
  <2>2. source' \in Sources
    BY <1>1 DEF Disturb, WorkerTypeOK
  <2>3. policy' \in BOOLEAN
    BY <1>1 DEF Disturb, WorkerTypeOK
  <2>4. changes' \in 0 .. MaxChanges
    BY <1>1, WorkerAssumption DEF Disturb, WorkerTypeOK
  <2>5. WorkerTypeOK'
    BY <1>1, <2>1, <2>2, <2>3, <2>4 DEF WorkerTypeOK, Offences
  <2>6. QED  BY <1>1, <2>5 DEF Typed
<1>3. Located' /\ Tested' /\ Held'
  BY <1>1 DEF IInv, Located, Settled, Tested, Held, Begun
<1>4. Based' /\ Undisturbed'
  BY <1>1 DEF IInv, Based, Undisturbed, Innocent
<1>5. QED  BY <1>1, <1>2, <1>3, <1>4, NothingPromisedNext DEF IInv, Typed

LEMMA StutterIInv == IInv /\ UNCHANGED vars => IInv'
<1> SUFFICES ASSUME IInv, UNCHANGED vars  PROVE IInv'
  OBVIOUS
<1> USE DEF vars, processVars, progress, captures, surroundings, history
<1>1. Typed'
  BY DEF IInv, Typed, WorkerTypeOK, ProcessTypeOK
<1>2. Located' /\ Tested' /\ Held'
  BY DEF IInv, Located, Settled, Tested, Held, Begun
<1>3. Based' /\ Undisturbed'
  BY DEF IInv, Based, Undisturbed, Innocent
<1>4. Promised'
  BY DEF IInv, Promised, OkIsTested, OkIsInScope, SealedAsProjected, FailureJustified
<1>5. QED  BY <1>1, <1>2, <1>3, <1>4 DEF IInv

LEMMA NextIInv == IInv /\ [Next]_vars => IInv'
<1> SUFFICES ASSUME IInv, [Next]_vars  PROVE IInv'
  OBVIOUS
<1>1. CASE CommandStep
  BY <1>1, CreateWorktreeIInv, MaterializeIInv, PrepareIInv, CompareSourceIInv, LaunchIInv,
     WorkerReturnsIInv, BeginGateIInv, RefuseGateIInv, GateReturnsIInv, FinishGatesIInv,
     CaptureProjectedIInv, CaptureRecordsIInv, RecheckSourceIInv, SealIInv DEF CommandStep
<1>2. QED
  BY <1>1, RunIInv, LiveIInv, WriteIInv, DisturbIInv, StutterIInv DEF Next

LEMMA AlwaysIInv == Spec => []IInv
BY InitIInv, NextIInv, PTL DEF Spec

(***************************************************************************)
(* The theorems.                                                           *)
(***************************************************************************)
\* The types of the command, of its worktree and of run_process.
THEOREM TypeCorrect == Spec => []WorkerTypeOK
<1>1. IInv => WorkerTypeOK  BY DEF IInv, Typed
<1>2. QED  BY <1>1, AlwaysIInv, PTL

\* However many gates and attempts there are, what _run_worker_loop returns and the
\* command seals has passed every gate of the last attempt.
THEOREM SealedIsTested == Spec => []OkIsTested
<1>1. IInv => OkIsTested  BY DEF IInv, Promised
<1>2. QED  BY <1>1, AlwaysIInv, PTL

\* A contained worker has changed nothing but its path, when the command succeeds.
THEOREM SealedIsInScope == Spec => []OkIsInScope
<1>1. IInv => OkIsInScope  BY DEF IInv, Promised
<1>2. QED  BY <1>1, AlwaysIInv, PTL

\* The replay before the seal makes up for a worktree that changes between the captures.
THEOREM SealedIsProjected == Spec => []SealedAsProjected
<1>1. IInv => SealedAsProjected  BY DEF IInv, Promised
<1>2. QED  BY <1>1, AlwaysIInv, PTL

\* A worker that keeps to its path and reads its input, on a source that nobody changes,
\* is never refused for what it did or for want of context, whatever the source holds.
THEOREM CorrectWorkerNeverRefused == Spec => []FailureJustified
<1>1. IInv => FailureJustified  BY DEF IInv, Promised
<1>2. QED  BY <1>1, AlwaysIInv, PTL
================================================================================
