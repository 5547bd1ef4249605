------------------------------- MODULE Workflow --------------------------------
(***************************************************************************)
(* The commands plan-review, worker, review, integrate and cleanup, run by *)
(* the user in any order and at the same time.  Each is a process of its   *)
(* own; they share the invocations, whose evidence they read and seal, and *)
(* the user's tree.  Sealing a result and each phase of a cleanup are      *)
(* single steps here: Seal and Cleanup have their detail.                  *)
(***************************************************************************)
EXTENDS Naturals

CONSTANTS
    Processes,     \* each runs one command after the other
    Invocations,   \* the identities that new invocations can get
    Tasks,
    Models,        \* identities of main loops and reviewers
    Nothing,       \* an absent receipt, or an unused local
    MaxEvents      \* bound: edits of the tree, killed processes, rejected cleanups

VARIABLES
    source,     \* version of the user's tree: it never goes back to an older one
    stage,      \* how far each invocation has been created and consumed
    worktree,   \* the invocations with a worktree in place
    plan, result, final,   \* the sealed evidence of each invocation
    job,        \* the command that each process runs, and its locals
    integrated, \* history: the invocations whose result changed the tree
    left,       \* history: invocations left to the user by a stopped process
    events

evidence == << plan, result, final >>
vars == << source, stage, worktree, evidence, job, integrated, left, events >>

Stages == {"none", "active", "claimed", "emptied", "complete"}
Commands == {"plan_review", "lite", "max", "review", "integrate", "cleanup"}
Steps == {"review_plan", "read_plan", "create_worktree", "run", "seal_result",
          "review_result", "read_bundle", "compare", "write", "claim", "empty", "finish"}

\* The source is a version of the tree.
Plans == [inv : Invocations, task : Tasks, source : Nat,
          main : Models, reviewer : Models]
\* The task of a result is what its worker was told; no file records it.
Results == [inv : Invocations, mode : {"lite", "max"}, task : Tasks,
            source : Nat]
Approvals == [result : Results, main : Models, reviewer : Models]

\* Nothing differs from everything that can be in its place.
ASSUME WorkflowAssumption ==
    /\ Nothing \notin Invocations \cup Tasks \cup Models \cup Commands \cup Steps
    /\ Nothing \notin Nat /\ Nothing \notin Plans /\ Nothing \notin Results
    /\ MaxEvents \in Nat

Idle == [cmd |-> Nothing, step |-> Nothing, inv |-> Nothing, task |-> Nothing,
         main |-> Nothing, reviewer |-> Nothing, source |-> Nothing,
         result |-> Nothing]

Or(S) == S \cup {Nothing}

TypeOK ==
    /\ source \in Nat
    /\ stage \in [Invocations -> Stages]
    /\ worktree \subseteq Invocations
    /\ plan \in [Invocations -> Or(Plans)]
    /\ result \in [Invocations -> Or(Results)]
    /\ final \in [Invocations -> Or(Approvals)]
    /\ job \in [Processes -> [cmd : Or(Commands), step : Or(Steps),
                              inv : Or(Invocations), task : Or(Tasks),
                              main : Or(Models), reviewer : Or(Models),
                              source : Or(Nat), result : Or(Results)]]
    /\ integrated \subseteq Invocations /\ left \subseteq Invocations
    /\ events \in 0..MaxEvents

Init ==
    /\ source = 0
    /\ stage = [i \in Invocations |-> "none"]
    /\ worktree = {}
    /\ plan = [i \in Invocations |-> Nothing]
    /\ result = [i \in Invocations |-> Nothing]
    /\ final = [i \in Invocations |-> Nothing]
    /\ job = [p \in Processes |-> Idle]
    /\ integrated = {} /\ left = {} /\ events = 0

(***************************************************************************)
(* Control flow.                                                           *)
(***************************************************************************)
\* The layout is complete: the manifest loads and every read validates it.
Present(i) == stage[i] \in {"active", "claimed"}

Runs(p, step) == job[p].step = step
Go(p, step) == job' = [job EXCEPT ![p].step = step]
Return(p) == job' = [job EXCEPT ![p] = Idle]

\* The command fails, or is done, and cleans the invocation up.
CleanUp(p) == Go(p, "claim")

SameFiles == UNCHANGED << stage, worktree, evidence >>
SameRest == UNCHANGED << source, integrated, left, events >>

\* A step that only goes on, cleans up or returns.
Only(next) == next /\ SameFiles /\ SameRest

Start(p, c, i, step, locals) ==
    job' = [job EXCEPT ![p] = [locals EXCEPT !.cmd = c, !.inv = i, !.step = step]]

\* create_invocation_resources, then capture_source_snapshot.
Create(p, c, i, step, locals) ==
    /\ job[p] = Idle
    /\ stage[i] = "none"
    /\ stage' = [stage EXCEPT ![i] = "active"]
    /\ Start(p, c, i, step, [locals EXCEPT !.source = source])
    /\ UNCHANGED << worktree, evidence >> /\ SameRest

\* load_invocation_resources; a command that fails here has changed nothing.
Load(p, c, i, step, locals) ==
    /\ job[p] = Idle
    /\ Present(i)
    /\ Only(Start(p, c, i, step, locals))

(***************************************************************************)
(* plan-review                                                             *)
(***************************************************************************)
\* The preflight wants a reviewer that is not the main loop.
PlanReview(p, i, t, m, r) ==
    /\ r # m
    /\ Create(p, "plan_review", i, "review_plan",
              [Idle EXCEPT !.task = t, !.main = m, !.reviewer = r])

ApprovePlan(p) ==
    LET j == job[p]
        q == [inv |-> j.inv, task |-> j.task, source |-> j.source,
              main |-> j.main, reviewer |-> j.reviewer]
    IN /\ Present(j.inv) /\ plan[j.inv] = Nothing
       /\ plan' = [plan EXCEPT ![j.inv] = q]
       /\ Return(p)
       /\ UNCHANGED << stage, worktree, result, final >> /\ SameRest

\* Mutant: a plan that is not approved is forgotten, not cleaned up.
ForgetfulReviewPlan(p) ==
    /\ Runs(p, "review_plan")
    /\ ApprovePlan(p) \/ Only(Return(p))

\* The reviewer approves and the receipt is sealed; or it says revise, gives no
\* verdict, or the receipt cannot be sealed.
ReviewPlan(p) ==
    /\ Runs(p, "review_plan")
    /\ ApprovePlan(p) \/ Only(CleanUp(p))

(***************************************************************************)
(* worker                                                                  *)
(***************************************************************************)
LiteWorker(p, i, t) ==
    Create(p, "lite", i, "create_worktree", [Idle EXCEPT !.task = t])

MaxWorker(p, i, t) == Load(p, "max", i, "read_plan", [Idle EXCEPT !.task = t])

\* Mutant: the task is not compared with that of the plan.
AnyTaskReadPlan(p) ==
    /\ Runs(p, "read_plan")
    /\ LET q == plan[job[p].inv]
       IN \/ /\ Present(job[p].inv) /\ q # Nothing /\ q.source = source
             /\ Only(job' = [job EXCEPT ![p].step = "create_worktree",
                                        ![p].source = source])
          \/ Only(CleanUp(p))

\* The receipt, the task and the source that is captured now; the roots on the
\* command line may be wrong too.
ReadPlan(p) ==
    /\ Runs(p, "read_plan")
    /\ LET q == plan[job[p].inv]
       IN \/ /\ Present(job[p].inv) /\ q # Nothing
             /\ q.task = job[p].task /\ q.source = source
             /\ Only(job' = [job EXCEPT ![p].step = "create_worktree",
                                        ![p].source = source])
          \/ Only(CleanUp(p))

\* The worktree, which must not exist, the sandbox, which loads the manifest again,
\* and the comparison of the source before the launch.  After an error create_worktree
\* removes what is at the path, the worktree of another worker included.
CreateWorktree(p) ==
    /\ Runs(p, "create_worktree")
    /\ UNCHANGED << stage, evidence >> /\ SameRest
    /\ LET i == job[p].inv
       IN \/ /\ Present(i) /\ i \notin worktree
             /\ worktree' = worktree \cup {i}
             /\ \/ source = job[p].source /\ Go(p, "run")
                \/ CleanUp(p)
          \/ /\ worktree' \in {worktree, worktree \ {i}}
             /\ CleanUp(p)

\* The attempts and their gates; the source is compared after each.
RunWorker(p) ==
    /\ Runs(p, "run")
    /\ \/ /\ job[p].inv \in worktree /\ source = job[p].source
          /\ Only(Go(p, "seal_result"))
       \/ Only(CleanUp(p))

SealResult(p) ==
    /\ Runs(p, "seal_result")
    /\ LET j == job[p]
           r == [inv |-> j.inv, mode |-> j.cmd, task |-> j.task, source |-> j.source]
       IN \/ /\ Present(j.inv) /\ result[j.inv] = Nothing
             /\ result' = [result EXCEPT ![j.inv] = r]
             /\ Return(p)
             /\ UNCHANGED << stage, worktree, plan, final >> /\ SameRest
          \/ Only(CleanUp(p))

(***************************************************************************)
(* review                                                                  *)
(***************************************************************************)
\* May m, with the reviewer r, review the result of i?  In Lite only m itself.
Authorised(i, m, r) ==
    \/ result[i].mode = "lite" /\ r = m
    \/ /\ result[i].mode = "max" /\ plan[i] # Nothing
       /\ plan[i].source = result[i].source
       /\ m = plan[i].main /\ r = plan[i].reviewer /\ r # m

\* A review that is refused here has changed nothing.
Review(p, i, m, r) ==
    /\ result[i] # Nothing /\ Authorised(i, m, r)
    /\ Load(p, "review", i, "review_result",
            [Idle EXCEPT !.main = m, !.reviewer = r, !.result = result[i]])

\* The final receipt is created once, if ok.
ApproveResult(p, ok) ==
    LET j == job[p]
        a == [result |-> result[j.inv], main |-> j.main, reviewer |-> j.reviewer]
    IN /\ ok /\ final[j.inv] = Nothing
       /\ final' = [final EXCEPT ![j.inv] = a]
       /\ Return(p)
       /\ UNCHANGED << stage, worktree, plan, result >> /\ SameRest

\* The bundle and the plan are read again, and must be those that were reviewed.
StillReviewed(j) == /\ Present(j.inv) /\ result[j.inv] = j.result
                    /\ Authorised(j.inv, j.main, j.reviewer)

\* Mutant: the receipt is written for whatever result is found.
BlindReviewResult(p) ==
    /\ Runs(p, "review_result")
    /\ ApproveResult(p, TRUE) \/ Only(Return(p))

\* Mutant: a result that is not approved is cleaned up at once.
HarshReviewResult(p) ==
    /\ Runs(p, "review_result")
    /\ ApproveResult(p, StillReviewed(job[p])) \/ Only(CleanUp(p))

\* Approved by the reviewer, or inline in Lite.  A revise, no verdict, or a receipt
\* that cannot be sealed leaves the result for another review.
ReviewResult(p) ==
    /\ Runs(p, "review_result")
    /\ ApproveResult(p, StillReviewed(job[p])) \/ Only(Return(p))

(***************************************************************************)
(* integrate                                                               *)
(***************************************************************************)
\* The final receipt must bind the bundle, and in Max the plan; a command that
\* finds no such receipt has changed nothing.
Integrate(p, i) ==
    /\ final[i] # Nothing /\ final[i].result = result[i]
    /\ Authorised(i, final[i].main, final[i].reviewer)
    /\ Load(p, "integrate", i, "read_bundle", [Idle EXCEPT !.result = result[i]])

\* The bundle is read for a second time, and must be the approved one.
ReadBundle(p) ==
    /\ Runs(p, "read_bundle")
    /\ \/ /\ Present(job[p].inv) /\ result[job[p].inv] = job[p].result
          /\ Only(Go(p, "compare"))
       \/ Only(CleanUp(p))

\* Mutant: the source is not captured again before git apply.
TrustingCompare(p) ==
    /\ Runs(p, "compare")
    /\ Only(Go(p, "write")) \/ Only(CleanUp(p))

\* The checks of integrate_reviewed_delta, up to its last capture of the source.
Compare(p) ==
    /\ Runs(p, "compare")
    /\ \/ source = job[p].result.source /\ Only(Go(p, "write"))
       \/ Only(CleanUp(p))

\* git apply, on the tree as it now is; it may fail before or after it has written.
\* The command cleans up next.
Write(p) ==
    /\ Runs(p, "write")
    /\ CleanUp(p)
    /\ SameFiles
    /\ UNCHANGED << left, events >>
    /\ \/ UNCHANGED << source, integrated >>
       \/ source' = source + 1 /\ integrated' = integrated \cup {job[p].inv}

(***************************************************************************)
(* cleanup, and the end of other commands: the phases of Cleanup.          *)
(***************************************************************************)
CleanupCommand(p, i) == Load(p, "cleanup", i, "claim", Idle)

ClaimInvocation(p) ==
    /\ Runs(p, "claim")
    /\ LET i == job[p].inv
       IN /\ stage' = [stage EXCEPT ![i] = IF @ = "active" THEN "claimed" ELSE @]
          /\ \/ stage[i] \in {"active", "claimed"} /\ Go(p, "empty")
             \/ stage[i] = "emptied" /\ Go(p, "finish")
             \/ stage[i] = "complete" /\ Return(p)
    /\ UNCHANGED << worktree, evidence >> /\ SameRest

\* Worktree, receipts and bundle are gone.
EmptyInvocation(p) ==
    /\ Runs(p, "empty")
    /\ LET i == job[p].inv
       IN \/ /\ stage[i] = "claimed"
             /\ stage' = [stage EXCEPT ![i] = "emptied"]
             /\ worktree' = worktree \ {i}
             /\ plan' = [plan EXCEPT ![i] = Nothing]
             /\ result' = [result EXCEPT ![i] = Nothing]
             /\ final' = [final EXCEPT ![i] = Nothing]
             /\ Go(p, "finish")
          \/ stage[i] # "claimed" /\ Return(p) /\ SameFiles
    /\ SameRest

FinishInvocation(p) ==
    /\ Runs(p, "finish")
    /\ stage' = [stage EXCEPT ![job[p].inv] = "complete"]
    /\ Return(p)
    /\ UNCHANGED << worktree, evidence >> /\ SameRest

(***************************************************************************)
(* The environment.                                                        *)
(***************************************************************************)
\* A process is killed, or its cleanup is rejected and it says so.
Stop(p) ==
    /\ job[p] # Idle
    /\ events < MaxEvents
    /\ events' = events + 1
    /\ left' = left \cup {job[p].inv}
    /\ Return(p)
    /\ SameFiles
    /\ UNCHANGED << source, integrated >>

Edit ==
    /\ events < MaxEvents
    /\ events' = events + 1
    /\ source' = source + 1
    /\ SameFiles
    /\ UNCHANGED << job, integrated, left >>

Command(p) == \E i \in Invocations :
    \/ \E t \in Tasks : \/ LiteWorker(p, i, t) \/ MaxWorker(p, i, t)
                        \/ \E m, r \in Models : PlanReview(p, i, t, m, r)
    \/ \E m, r \in Models : Review(p, i, m, r)
    \/ Integrate(p, i)
    \/ CleanupCommand(p, i)

Step(p) ==
    \/ ReviewPlan(p)
    \/ ReadPlan(p) \/ CreateWorktree(p) \/ RunWorker(p) \/ SealResult(p)
    \/ ReviewResult(p)
    \/ ReadBundle(p) \/ Compare(p) \/ Write(p)
    \/ ClaimInvocation(p) \/ EmptyInvocation(p) \/ FinishInvocation(p)

Next == Edit \/ \E p \in Processes : Command(p) \/ Step(p) \/ Stop(p)

Spec == Init /\ [][Next]_vars

(***************************************************************************)
(* What the workflow promises.                                             *)
(***************************************************************************)
\* Whatever commands the user runs, in whatever order and overlap, and wherever
\* they stop: a result is only sealed for the task and the source of its plan and
\* only approved by the authority of that plan; the user's tree is only changed by
\* a result that was approved, and that its integration then found to be made for
\* the tree as it was; and a result that has changed the tree, in whole or in part,
\* is never found so again.  The tree may change between the finding and the write
\* (see Integration): nothing is said of that gap, and of the user only that an
\* edit never restores an older version of the tree.
Authority == INSTANCE Authority WITH
    tree <- source,
    hand <- [ p \in Processes |-> IF job[p].step \in {"read_bundle", "compare", "write"}
                                    THEN job[p].result ELSE Nothing ],
    fits <- { p \in Processes : job[p].step = "write" },
    gone <- { i \in Invocations : stage[i] \in {"emptied", "complete"} }
ImplementsAuthority == Authority!AuthoritySpec

\* No command that has returned leaves an invocation behind, except for one with
\* an approved plan or a sealed result, which the next command is to be given,
\* and those of a stopped process.
NothingAbandoned == \A i \in Invocations :
    \/ stage[i] \in {"none", "complete"}
    \/ i \in left
    \/ plan[i] # Nothing \/ result[i] # Nothing
    \/ \E p \in Processes : job[p].inv = i

\* A sealed result is there for another review until it is integrated or cleaned
\* up: neither a plan review nor a refused or failed review ever removes it.
ReviewsKeepResults == [][ \A i \in Invocations :
    result[i] # Nothing /\ result'[i] = Nothing =>
        \E p \in Processes : /\ job[p].inv = i /\ Runs(p, "empty")
                             /\ job[p].cmd \notin {"plan_review", "review"} ]_vars
================================================================================
