---------------------------- MODULE WorkflowProofs -----------------------------
(***************************************************************************)
(* Proofs about Workflow, for any number of processes, invocations, edits  *)
(* and stops: no command leaves an invocation behind, no review of any     *)
(* kind removes a sealed result, and the commands implement Authority.     *)
(***************************************************************************)
EXTENDS Workflow, TLAPS

(***************************************************************************)
(* The inductive invariant.                                                *)
(***************************************************************************)
Jobs == [cmd : Or(Commands), step : Or(Steps), inv : Or(Invocations),
         task : Or(Tasks), main : Or(Models), reviewer : Or(Models),
         source : Or(Nat), result : Or(Results)]

\* The locals that the receipts are made of.
Loaded(j) ==
    \/ j = Idle
    \/ /\ j.cmd \in Commands /\ j.step \in Steps /\ j.inv \in Invocations
       /\ j.cmd = "plan_review" => /\ j.task \in Tasks /\ j.source \in Nat
                                   /\ j.main \in Models /\ j.reviewer \in Models
       /\ j.cmd \in {"lite", "max"} => j.task \in Tasks
       /\ j.step \in {"create_worktree", "run", "seal_result"} =>
              j.cmd \in {"lite", "max"} /\ j.source \in Nat

WideTypes ==
    /\ source \in Nat
    /\ stage \in [Invocations -> Stages]
    /\ plan \in [Invocations -> Or(Plans)]
    /\ result \in [Invocations -> Or(Results)]
    /\ job \in [Processes -> Jobs]
    /\ \A p \in Processes : Loaded(job[p])

\* Some process is at one of these steps with i.
At(i, steps) == \E p \in Processes : job[p].inv = i /\ job[p].step \in steps

\* Where a process is still to take an active invocation further.  Not at
\* "review_result", from where it may just return.
Caring == {"review_plan", "read_plan", "create_worktree", "run", "seal_result",
           "read_bundle", "compare", "write", "claim"}

\* Somebody is to take i further, or the user knows of it.
Attended(i) ==
    \/ i \in left
    \/ stage[i] = "active" /\ (plan[i] # Nothing \/ result[i] # Nothing \/ At(i, Caring))
    \/ stage[i] = "claimed" /\ At(i, {"empty"})
    \/ stage[i] = "emptied" /\ At(i, {"finish"})
    \/ stage[i] \in {"none", "complete"}

AllAttended == \A i \in Invocations : Attended(i)

Creators == {"plan_review", "lite"}

\* An invocation is used by nobody before it is created, and created once.
OneCreator ==
    /\ \A p \in Processes : job[p] # Idle => stage[job[p].inv] # "none"
    /\ \A p, q \in Processes :
           /\ job[p].cmd \in Creators /\ job[q].cmd \in Creators
           /\ job[p].inv = job[q].inv
           => p = q

\* Until its plan is approved, no worker gets anywhere with an invocation.
Unplanned ==
    /\ \A i \in Invocations :
           stage[i] = "none" => plan[i] = Nothing /\ result[i] = Nothing
    /\ \A p \in Processes : job[p].cmd = "plan_review" =>
           plan[job[p].inv] = Nothing /\ result[job[p].inv] = Nothing
    /\ \A p, q \in Processes :
           job[p].cmd = "plan_review" /\ job[q].cmd = "max" /\ job[p].inv = job[q].inv
           => job[q].step \notin {"create_worktree", "run", "seal_result"}

\* Which command a step belongs to.
OwnStep(j) ==
    /\ j.step = "review_plan" => j.cmd = "plan_review"
    /\ j.step = "read_plan" => j.cmd = "max"
    /\ j.step = "review_result" <=> j.cmd = "review"

OwnSteps == \A p \in Processes : OwnStep(job[p])

IInv == WideTypes /\ AllAttended /\ OneCreator /\ Unplanned /\ OwnSteps

(***************************************************************************)
(* How an action changes the jobs.                                         *)
(***************************************************************************)
Others(p) == \A q \in Processes : q # p => job'[q] = job[q]

LEMMA GoFacts ==
    ASSUME NEW p \in Processes, NEW s \in Steps, WideTypes, job[p] # Idle, Go(p, s)
    PROVE  /\ job' \in [Processes -> Jobs]
           /\ Others(p)
           /\ job'[p].step = s /\ job'[p].inv = job[p].inv
           /\ job'[p].cmd = job[p].cmd /\ job'[p].task = job[p].task
           /\ job'[p].source = job[p].source /\ job'[p].main = job[p].main
           /\ job'[p].reviewer = job[p].reviewer
           /\ job'[p] # Idle
  <1>1. /\ job[p] \in Jobs
        /\ job' = [job EXCEPT ![p] = [job[p] EXCEPT !.step = s]]
    BY DEF WideTypes, Go
  <1>2. s # Nothing /\ s \in Or(Steps)
    BY WorkflowAssumption DEF Or
  <1>3. /\ [job[p] EXCEPT !.step = s] \in Jobs
        /\ [job[p] EXCEPT !.step = s].step = s
    BY <1>1, <1>2 DEF Jobs
  <1>4. [job[p] EXCEPT !.step = s] # Idle
    BY <1>2, <1>3 DEF Idle
  <1>5. job'[p] = [job[p] EXCEPT !.step = s] /\ Others(p) /\ job' \in [Processes -> Jobs]
    BY <1>1, <1>3 DEF WideTypes, Others
  <1> QED
    BY <1>1, <1>3, <1>4, <1>5 DEF Jobs

LEMMA ReturnFacts ==
    ASSUME NEW p \in Processes, WideTypes, Return(p)
    PROVE  job' \in [Processes -> Jobs] /\ Others(p) /\ job'[p] = Idle
  <1>1. Idle \in Jobs
    BY DEF Idle, Jobs, Or
  <1> QED
    BY <1>1 DEF WideTypes, Return, Others

\* An idle process is at no step, and has no invocation and no command.
LEMMA IdleFacts ==
    /\ Idle.cmd = Nothing /\ Idle.step = Nothing /\ Idle.inv = Nothing
    /\ Nothing \notin Invocations /\ Nothing \notin Commands /\ Nothing \notin Steps
    /\ \A s \in Steps : s # Nothing
    /\ \A c \in Commands : c # Nothing
  BY WorkflowAssumption DEF Idle

LEMMA IdleIsOwn == OwnStep(Idle) /\ Loaded(Idle)
  BY WorkflowAssumption DEF Idle, OwnStep, Loaded, Commands, Steps

(***************************************************************************)
(* What a step of one process has to show.  It is about one invocation and *)
(* keeps to the command, or returns.                                       *)
(***************************************************************************)
Keeps(p) == /\ job'[p].inv = job[p].inv /\ job'[p].cmd = job[p].cmd
            /\ job'[p] # Idle /\ Loaded(job'[p]) /\ OwnStep(job'[p])

\* Nothing but the evidence and the stage of i changes.
About(i) ==
    /\ source' \in Nat
    /\ stage' \in [Invocations -> Stages]
    /\ plan' \in [Invocations -> Or(Plans)]
    /\ result' \in [Invocations -> Or(Results)]
    /\ left \subseteq left'
    /\ \A k \in Invocations \ {i} :
           stage'[k] = stage[k] /\ plan'[k] = plan[k] /\ result'[k] = result[k]

Work == {"create_worktree", "run", "seal_result"}

LEMMA MoveSafe ==
    ASSUME IInv, NEW p \in Processes, job[p] # Idle, NEW i \in Invocations,
           i = job[p].inv,
           job' \in [Processes -> Jobs], Others(p), job'[p] = Idle \/ Keeps(p),
           About(i), stage'[i] # "none", Attended(i)',
           \A q \in Processes : job'[q].cmd = "plan_review" /\ job'[q].inv = i =>
               plan'[i] = Nothing /\ result'[i] = Nothing,
           job'[p].cmd = "max" /\ job'[p].step \in Work =>
               \A q \in Processes :
                   ~(job[q].cmd = "plan_review" /\ job[q].inv = i)
    PROVE  IInv'
  <1>1. WideTypes'
    <2>1. \A q \in Processes : Loaded(job'[q])
      BY IdleIsOwn DEF IInv, WideTypes, Others, Keeps
    <2> QED
      BY <2>1 DEF About, WideTypes, Loaded
  <1>2. AllAttended'
    <2> SUFFICES ASSUME NEW k \in Invocations, k # i PROVE Attended(k)'
      BY DEF AllAttended
    <2>1. Attended(k)
      BY DEF IInv, AllAttended
    <2>2. ASSUME NEW steps, At(k, steps) PROVE \E q \in Processes :
              job'[q].inv = k /\ job'[q].step \in steps
      <3>1. PICK q \in Processes : job[q].inv = k /\ job[q].step \in steps
        BY <2>2 DEF At
      <3>2. job'[q] = job[q]
        BY <3>1 DEF Others
      <3> QED
        BY <3>1, <3>2
    <2>3. /\ stage'[k] = stage[k] /\ plan'[k] = plan[k] /\ result'[k] = result[k]
          /\ k \in left => k \in left'
      BY DEF About
    <2> QED
      BY <2>1, <2>2, <2>3 DEF Attended, At
  <1>3. OneCreator'
    <2>1. \A q \in Processes : job'[q] # Idle => stage'[job'[q].inv] # "none"
      <3> SUFFICES ASSUME NEW q \in Processes, job'[q] # Idle
                   PROVE  stage'[job'[q].inv] # "none"
        OBVIOUS
      <3>1. CASE q = p
        BY <3>1 DEF Keeps
      <3>2. CASE q # p
        <4>1. job'[q] = job[q] /\ job[q].inv \in Invocations
          BY <3>2 DEF Others, IInv, WideTypes, Loaded
        <4>2. stage[job[q].inv] # "none"
          BY <4>1 DEF IInv, OneCreator
        <4> QED
          BY <4>1, <4>2 DEF About
      <3> QED
        BY <3>1, <3>2
    <2>2. \A q \in Processes : job'[q].cmd \in Creators =>
              job[q].cmd = job'[q].cmd /\ job[q].inv = job'[q].inv
      BY IdleFacts DEF Others, Keeps, Creators, Commands
    <2> QED
      BY <2>1, <2>2 DEF IInv, OneCreator
  <1>4. Unplanned'
    <2>1. \A q \in Processes : job'[q].cmd \in Commands =>
              job[q].cmd = job'[q].cmd /\ job[q].inv = job'[q].inv
      BY IdleFacts DEF Others, Keeps
    <2>2. \A k \in Invocations :
              stage'[k] = "none" => plan'[k] = Nothing /\ result'[k] = Nothing
      BY DEF About, IInv, Unplanned
    <2>3. ASSUME NEW q \in Processes, job'[q].cmd = "plan_review"
          PROVE  plan'[job'[q].inv] = Nothing /\ result'[job'[q].inv] = Nothing
      <3>1. job[q].cmd = "plan_review" /\ job[q].inv = job'[q].inv
        BY <2>1, <2>3 DEF Commands
      <3>2. job[q].inv \in Invocations
        BY <3>1, IdleFacts DEF IInv, WideTypes, Loaded, Commands
      <3> QED
        BY <2>3, <3>1, <3>2 DEF About, IInv, Unplanned
    <2>4. ASSUME NEW q \in Processes, NEW r \in Processes,
                 job'[q].cmd = "plan_review", job'[r].cmd = "max",
                 job'[q].inv = job'[r].inv
          PROVE  job'[r].step \notin Work
      <3>1. /\ job[q].cmd = "plan_review" /\ job[q].inv = job'[q].inv
            /\ job[r].cmd = "max" /\ job[r].inv = job'[r].inv
        BY <2>1, <2>4 DEF Commands
      <3>2. CASE r = p
        BY <2>4, <3>1, <3>2
      <3>3. CASE r # p
        <4>1. job'[r] = job[r]
          BY <3>3 DEF Others
        <4> QED
          BY <2>4, <3>1, <4>1 DEF IInv, Unplanned, Work
      <3> QED
        BY <3>2, <3>3
    <2> QED
      BY <2>2, <2>3, <2>4 DEF Unplanned, Work
  <1>5. OwnSteps'
    <2>1. \A q \in Processes : OwnStep(job'[q])
      BY IdleIsOwn DEF IInv, OwnSteps, Others, Keeps
    <2> QED
      BY <2>1 DEF OwnSteps, OwnStep
  <1> QED
    BY <1>1, <1>2, <1>3, <1>4, <1>5 DEF IInv

\* A process that is at a step is not idle, and has its locals.
LEMMA RunFacts ==
    ASSUME IInv, NEW p \in Processes, NEW s \in Steps, Runs(p, s)
    PROVE  /\ job[p] # Idle /\ job[p].inv \in Invocations /\ job[p].cmd \in Commands
           /\ Loaded(job[p]) /\ OwnStep(job[p])
           /\ stage[job[p].inv] \in Stages \ {"none"}
  <1>1. job[p] # Idle
    BY IdleFacts DEF Runs
  <1>2. Loaded(job[p]) /\ OwnStep(job[p])
    BY DEF IInv, WideTypes, OwnSteps
  <1>3. job[p].inv \in Invocations /\ job[p].cmd \in Commands
    BY <1>1, <1>2 DEF Loaded
  <1>4. stage[job[p].inv] # "none"
    BY <1>1 DEF IInv, OneCreator
  <1> QED
    BY <1>1, <1>2, <1>3, <1>4 DEF IInv, WideTypes

\* A step that changes neither evidence nor stages.
Quiet == source' \in Nat /\ left' = left /\ UNCHANGED << stage, plan, result >>

LEMMA OnlyIsQuiet ==
    ASSUME IInv, SameFiles, SameRest
    PROVE  Quiet
  BY DEF IInv, WideTypes, Quiet, SameFiles, SameRest, evidence

LEMMA QuietIsAbout ==
    ASSUME IInv, NEW i \in Invocations, Quiet
    PROVE  About(i)
  BY DEF IInv, WideTypes, About, Quiet

\* A step that only takes its command further.
LEMMA GoSafe ==
    ASSUME IInv, NEW p \in Processes, NEW s \in Steps, NEW t \in Caring, Runs(p, s),
           s \in Caring, Go(p, t), Quiet,
           t \in {"claim", "compare", "write"} \/ (s \in Work /\ t \in Work),
           s # "review_result"
    PROVE  IInv'
  <1> DEFINE i == job[p].inv
  <1> Caring \subseteq Steps
    BY DEF Caring, Steps
  <1>1. /\ job[p] # Idle /\ i \in Invocations /\ job[p].cmd \in Commands
        /\ Loaded(job[p]) /\ OwnStep(job[p]) /\ stage[i] \in Stages \ {"none"}
    BY RunFacts
  <1>2. /\ job' \in [Processes -> Jobs] /\ Others(p)
        /\ job'[p].step = t /\ job'[p].inv = i
        /\ job'[p].cmd = job[p].cmd /\ job'[p].task = job[p].task
        /\ job'[p].source = job[p].source /\ job'[p].main = job[p].main
        /\ job'[p].reviewer = job[p].reviewer
        /\ job'[p] # Idle
    <2>1. WideTypes
      BY DEF IInv
    <2> QED
      BY <1>1, <2>1, GoFacts
  <1>3. Keeps(p)
    <2>1. Loaded(job'[p])
      BY <1>1, <1>2 DEF Loaded, Work, Runs
    <2>2. OwnStep(job'[p])
      BY <1>1, <1>2 DEF OwnStep, Work, Runs, Caring
    <2> QED
      BY <1>2, <2>1, <2>2 DEF Keeps
  <1>4. About(i) /\ stage'[i] # "none"
    BY <1>1, QuietIsAbout DEF Quiet
  <1>5. Attended(i)'
    <2>1. Attended(i)
      BY <1>1 DEF IInv, AllAttended
    <2>2. ASSUME NEW steps, At(i, steps), s \notin steps
          PROVE  \E q \in Processes : job'[q].inv = i /\ job'[q].step \in steps
      <3>1. PICK q \in Processes : job[q].inv = i /\ job[q].step \in steps
        BY <2>2 DEF At
      <3>2. job'[q] = job[q]
        BY <1>2, <2>2, <3>1 DEF Others, Runs
      <3> QED
        BY <3>1, <3>2
    <2>3. s \notin {"empty"} /\ s \notin {"finish"}
      BY DEF Caring
    <2> QED
      BY <1>1, <1>2, <2>1, <2>2, <2>3 DEF Attended, At, Quiet
  <1>6. \A q \in Processes : job'[q].cmd = "plan_review" /\ job'[q].inv = i =>
            plan'[i] = Nothing /\ result'[i] = Nothing
    <2>1. \A q \in Processes : job'[q].cmd = job[q].cmd /\ job'[q].inv = job[q].inv
      BY <1>2 DEF Others
    <2> QED
      BY <2>1 DEF IInv, Unplanned, Quiet
  <1>7. job'[p].cmd = "max" /\ job'[p].step \in Work =>
            \A q \in Processes : ~(job[q].cmd = "plan_review" /\ job[q].inv = i)
    BY <1>2 DEF IInv, Unplanned, Work, Runs
  <1> QED
    BY <1>1, <1>2, <1>3, <1>4, <1>5, <1>6, <1>7, MoveSafe

\* A step that ends its command.
LEMMA ReturnSafe ==
    ASSUME IInv, NEW p \in Processes, NEW i \in Invocations,
           job[p] # Idle, i = job[p].inv, Return(p),
           About(i), stage'[i] # "none",
           \/ i \in left'
           \/ stage'[i] = stage[i] /\ plan'[i] = plan[i] /\ result'[i] = result[i]
              /\ job[p].step \notin Caring
              /\ (stage[i] = "claimed" => job[p].step # "empty")
              /\ (stage[i] = "emptied" => job[p].step # "finish")
           \/ stage'[i] = "complete"
           \/ /\ stage[i] = "claimed" => job[p].step # "empty"
              /\ stage[i] = "emptied" => job[p].step # "finish"
              /\ stage'[i] = stage[i]
              /\ plan'[i] # Nothing \/ result'[i] # Nothing,
           \A q \in Processes : q # p /\ job[q].cmd = "plan_review" /\ job[q].inv = i =>
               plan'[i] = Nothing /\ result'[i] = Nothing
    PROVE  IInv'
  <1>1. job' \in [Processes -> Jobs] /\ Others(p) /\ job'[p] = Idle
    BY ReturnFacts DEF IInv
  <1>2. Attended(i)'
    <2>1. Attended(i)
      BY DEF IInv, AllAttended
    <2>2. ASSUME NEW steps, At(i, steps), job[p].step \notin steps
          PROVE  \E q \in Processes : job'[q].inv = i /\ job'[q].step \in steps
      <3>1. PICK q \in Processes : job[q].inv = i /\ job[q].step \in steps
        BY <2>2 DEF At
      <3>2. job'[q] = job[q]
        BY <1>1, <2>2, <3>1 DEF Others
      <3> QED
        BY <3>1, <3>2
    <2>3. At(i, {"empty"}) /\ job[p].step # "empty" => At(i, {"empty"})'
      BY <2>2 DEF At
    <2>4. At(i, {"finish"}) /\ job[p].step # "finish" => At(i, {"finish"})'
      BY <2>2 DEF At
    <2>5. At(i, Caring) /\ job[p].step \notin Caring => At(i, Caring)'
      BY <2>2 DEF At
    <2>6. i \in left => i \in left'
      BY DEF About
    <2> QED
      BY <2>1, <2>3, <2>4, <2>5, <2>6 DEF Attended
  <1>3. \A q \in Processes : job'[q].cmd = "plan_review" /\ job'[q].inv = i =>
            plan'[i] = Nothing /\ result'[i] = Nothing
    BY <1>1, IdleFacts DEF Others
  <1>4. ~(job'[p].cmd = "max" /\ job'[p].step \in Work)
    BY <1>1, IdleFacts DEF Commands
  <1> QED
    BY <1>1, <1>2, <1>3, <1>4, MoveSafe

(***************************************************************************)
(* The steps of the commands.                                              *)
(***************************************************************************)
LEMMA Names ==
    /\ Caring \subseteq Steps /\ Work \subseteq Caring
    /\ {"review_result", "empty", "finish"} \subseteq Steps \ Caring
    /\ {"review_plan", "read_plan", "read_bundle", "compare", "write", "claim"}
         \subseteq Caring
  BY DEF Caring, Steps, Work

\* A command that gives up at one of its steps.
LEMMA CleanUpSafe ==
    ASSUME IInv, NEW p \in Processes, NEW s \in Caring, Runs(p, s), CleanUp(p), Quiet
    PROVE  IInv'
  <1>1. s \in Steps /\ "claim" \in Caring /\ s # "review_result"
    BY Names
  <1>2. Go(p, "claim")
    BY DEF CleanUp
  <1> QED
    BY <1>1, <1>2, GoSafe

LEMMA ReviewPlanSafe ==
    ASSUME IInv, NEW p \in Processes, ReviewPlan(p)
    PROVE  IInv'
  <1> DEFINE i == job[p].inv
  <1> USE DEF ReviewPlan
  <1>1. "review_plan" \in Steps /\ Runs(p, "review_plan")
    BY Names
  <1>2. /\ job[p] # Idle /\ i \in Invocations /\ Loaded(job[p]) /\ OwnStep(job[p])
        /\ stage[i] # "none"
    BY <1>1, RunFacts
  <1>3. job[p].cmd = "plan_review"
    BY <1>1, <1>2 DEF OwnStep, Runs
  <1>4. CASE ApprovePlan(p)
    <2> DEFINE q == [inv |-> i, task |-> job[p].task, source |-> job[p].source,
                     main |-> job[p].main, reviewer |-> job[p].reviewer]
    <2>1. plan' = [plan EXCEPT ![i] = q] /\ Return(p) /\ Present(i)
          /\ UNCHANGED << stage, result, source, left >>
      BY <1>4 DEF ApprovePlan, SameRest
    <2>2. q \in Plans /\ q # Nothing
      BY <1>2, <1>3, WorkflowAssumption DEF Loaded, Plans
    <2>3. About(i)
      BY <2>1, <2>2, <1>2 DEF IInv, WideTypes, About, Or
    <2>4. plan'[i] # Nothing
      BY <1>2, <2>1, <2>2 DEF IInv, WideTypes
    <2>5. \A r \in Processes : ~(r # p /\ job[r].cmd = "plan_review" /\ job[r].inv = i)
      BY <1>3 DEF IInv, OneCreator, Creators
    <2>6. job[p].step # "empty" /\ job[p].step # "finish"
      BY <1>1 DEF Runs
    <2>7. stage'[i] = stage[i] /\ stage'[i] # "none"
      BY <1>2, <2>1
    <2> QED
      BY <1>2, <2>1, <2>3, <2>4, <2>5, <2>6, <2>7, ReturnSafe
  <1>5. CASE Only(CleanUp(p))
    BY <1>1, <1>5, Names, OnlyIsQuiet, CleanUpSafe DEF Only
  <1> QED
    BY <1>4, <1>5

LEMMA ReadPlanSafe ==
    ASSUME IInv, NEW p \in Processes, ReadPlan(p)
    PROVE  IInv'
  <1> DEFINE i == job[p].inv
  <1>1. Runs(p, "read_plan") /\ "read_plan" \in Steps /\ "read_plan" \in Caring
    BY Names DEF ReadPlan
  <1>2. /\ job[p] # Idle /\ i \in Invocations /\ Loaded(job[p]) /\ OwnStep(job[p])
        /\ stage[i] # "none"
    BY <1>1, RunFacts
  <1>3. job[p].cmd = "max" /\ job[p].task \in Tasks
    BY <1>1, <1>2 DEF OwnStep, Runs, Loaded
  <1>4. CASE Only(CleanUp(p))
    BY <1>1, <1>4, OnlyIsQuiet, CleanUpSafe DEF Only
  <1>5. CASE /\ Present(i) /\ plan[i] # Nothing
             /\ Only(job' = [job EXCEPT ![p].step = "create_worktree",
                                        ![p].source = source])
    <2> DEFINE j == [job[p] EXCEPT !.step = "create_worktree", !.source = source]
    <2>1. Quiet /\ source \in Nat /\ job' = [job EXCEPT ![p] = j]
      BY <1>5, OnlyIsQuiet DEF Only, IInv, WideTypes
    <2>2. job[p] \in Jobs
      BY DEF IInv, WideTypes
    <2>3. /\ j \in Jobs /\ j.step = "create_worktree" /\ j.source = source
          /\ j.inv = i /\ j.cmd = "max" /\ j.task \in Tasks
      BY <1>3, <2>1, <2>2 DEF Jobs, Or, Steps
    <2>4. job' \in [Processes -> Jobs] /\ Others(p) /\ job'[p] = j
      BY <2>1, <2>3 DEF IInv, WideTypes, Others
    <2>5. j # Idle
      BY <2>3, IdleFacts, Names DEF Work
    <2>6. Keeps(p)
      <3>1. Loaded(j)
        BY <1>2, <1>3, <2>1, <2>3 DEF Loaded, Commands, Steps
      <3>2. OwnStep(j)
        BY <1>3, <2>3 DEF OwnStep
      <3> QED
        BY <1>3, <2>3, <2>4, <2>5, <3>1, <3>2 DEF Keeps
    <2>7. About(i) /\ stage'[i] # "none"
      BY <1>2, <2>1, QuietIsAbout DEF Quiet
    <2>8. Attended(i)'
      <3>1. Attended(i)
        BY <1>2 DEF IInv, AllAttended
      <3>2. plan'[i] # Nothing /\ stage'[i] = stage[i]
        BY <1>5, <2>1 DEF Quiet
      <3>3. stage[i] = "claimed" /\ At(i, {"empty"}) => At(i, {"empty"})'
        <4>1. ASSUME At(i, {"empty"})
              PROVE  \E q \in Processes : job'[q].inv = i /\ job'[q].step \in {"empty"}
          <5>1. PICK q \in Processes : job[q].inv = i /\ job[q].step = "empty"
            BY <4>1 DEF At
          <5>2. job'[q] = job[q]
            BY <1>1, <2>4, <5>1 DEF Others, Runs
          <5> QED
            BY <5>1, <5>2
        <4> QED
          BY <2>3, <2>4, <4>1 DEF At
      <3> QED
        BY <1>5, <2>1, <2>3, <2>4, <3>1, <3>2, <3>3 DEF Attended, Present, Quiet
    <2>9. \A q \in Processes : ~(job[q].cmd = "plan_review" /\ job[q].inv = i)
      BY <1>5 DEF IInv, Unplanned
    <2>10. \A q \in Processes : ~(job'[q].cmd = "plan_review" /\ job'[q].inv = i)
      BY <2>3, <2>4, <2>9 DEF Others
    <2> QED
      BY <1>2, <2>4, <2>6, <2>7, <2>8, <2>9, <2>10, MoveSafe
  <1> QED
    BY <1>4, <1>5 DEF ReadPlan

LEMMA CreateWorktreeSafe ==
    ASSUME IInv, NEW p \in Processes, CreateWorktree(p)
    PROVE  IInv'
  <1>1. /\ Runs(p, "create_worktree") /\ "create_worktree" \in Steps
        /\ "create_worktree" \in Caring /\ "create_worktree" \in Work
        /\ "run" \in Caring /\ "run" \in Work
    BY Names DEF CreateWorktree, Work
  <1>2. Quiet
    BY DEF CreateWorktree, SameRest, IInv, WideTypes, Quiet, evidence
  <1>3. Go(p, "run") \/ CleanUp(p)
    BY DEF CreateWorktree
  <1> QED
    BY <1>1, <1>2, <1>3, CleanUpSafe, GoSafe

LEMMA RunWorkerSafe ==
    ASSUME IInv, NEW p \in Processes, RunWorker(p)
    PROVE  IInv'
  <1>1. /\ Runs(p, "run") /\ "run" \in Steps /\ "run" \in Caring /\ "run" \in Work
        /\ "seal_result" \in Caring /\ "seal_result" \in Work
    BY Names DEF RunWorker, Work
  <1>2. Quiet /\ (Go(p, "seal_result") \/ CleanUp(p))
    BY OnlyIsQuiet DEF RunWorker, Only
  <1> QED
    BY <1>1, <1>2, CleanUpSafe, GoSafe

LEMMA SealResultSafe ==
    ASSUME IInv, NEW p \in Processes, SealResult(p)
    PROVE  IInv'
  <1> DEFINE i == job[p].inv
             r == [inv |-> i, mode |-> job[p].cmd, task |-> job[p].task,
                   source |-> job[p].source]
  <1>1. /\ Runs(p, "seal_result") /\ "seal_result" \in Steps
        /\ "seal_result" \in Caring /\ "seal_result" \in Work
    BY Names DEF SealResult, Work
  <1>2. /\ job[p] # Idle /\ i \in Invocations /\ Loaded(job[p]) /\ stage[i] # "none"
    BY <1>1, RunFacts
  <1>3. CASE Only(CleanUp(p))
    BY <1>1, <1>3, OnlyIsQuiet, CleanUpSafe DEF Only
  <1>4. CASE /\ result' = [result EXCEPT ![i] = r] /\ Return(p)
             /\ UNCHANGED << stage, worktree, plan, final >> /\ SameRest
    <2>1. job[p].cmd \in {"lite", "max"}
      BY <1>1, <1>2 DEF Loaded, Runs, Work
    <2>2. r \in Results /\ r # Nothing
      BY <1>1, <1>2, <2>1, WorkflowAssumption DEF Loaded, Results, Runs
    <2>3. About(i)
      BY <1>2, <1>4, <2>2 DEF IInv, WideTypes, About, Or, SameRest
    <2>4. result'[i] # Nothing /\ stage'[i] = stage[i]
      BY <1>2, <1>4, <2>2 DEF IInv, WideTypes
    <2>5. \A q \in Processes : ~(q # p /\ job[q].cmd = "plan_review" /\ job[q].inv = i)
      BY <1>1, <2>1 DEF IInv, OneCreator, Creators, Unplanned, Runs
    <2>6. job[p].step # "empty" /\ job[p].step # "finish"
      BY <1>1 DEF Runs
    <2> QED
      BY <1>2, <1>4, <2>3, <2>4, <2>5, <2>6, ReturnSafe
  <1> QED
    BY <1>3, <1>4 DEF SealResult

LEMMA ReadBundleSafe ==
    ASSUME IInv, NEW p \in Processes, ReadBundle(p)
    PROVE  IInv'
  <1>1. /\ Runs(p, "read_bundle") /\ "read_bundle" \in Steps
        /\ "read_bundle" \in Caring /\ "compare" \in Caring
    BY Names DEF ReadBundle
  <1>2. Quiet /\ (Go(p, "compare") \/ CleanUp(p))
    BY OnlyIsQuiet DEF ReadBundle, Only
  <1> QED
    BY <1>1, <1>2, CleanUpSafe, GoSafe

LEMMA CompareSafe ==
    ASSUME IInv, NEW p \in Processes, Compare(p)
    PROVE  IInv'
  <1>1. /\ Runs(p, "compare") /\ "compare" \in Steps
        /\ "compare" \in Caring /\ "write" \in Caring
    BY Names DEF Compare
  <1>2. Quiet /\ (Go(p, "write") \/ CleanUp(p))
    BY OnlyIsQuiet DEF Compare, Only
  <1> QED
    BY <1>1, <1>2, CleanUpSafe, GoSafe

LEMMA WriteSafe ==
    ASSUME IInv, NEW p \in Processes, Write(p)
    PROVE  IInv'
  <1>1. Runs(p, "write") /\ "write" \in Caring /\ CleanUp(p)
    BY Names DEF Write
  <1>2. Quiet
    BY DEF Write, SameFiles, Quiet, IInv, WideTypes, evidence
  <1> QED
    BY <1>1, <1>2, CleanUpSafe

LEMMA ReviewResultSafe ==
    ASSUME IInv, NEW p \in Processes, ReviewResult(p)
    PROVE  IInv'
  <1> DEFINE i == job[p].inv
  <1>1. Runs(p, "review_result") /\ "review_result" \in Steps /\ "review_result" \notin Caring
    BY Names DEF ReviewResult
  <1>2. job[p] # Idle /\ i \in Invocations /\ stage[i] # "none"
    BY <1>1, RunFacts
  <1>3. Return(p) /\ Quiet
    BY DEF ReviewResult, ApproveResult, Only, SameFiles, SameRest, Quiet, IInv,
           WideTypes, evidence
  <1>4. About(i) /\ stage'[i] = stage[i] /\ plan'[i] = plan[i] /\ result'[i] = result[i]
    BY <1>2, <1>3, QuietIsAbout DEF Quiet
  <1>5. \A q \in Processes : q # p /\ job[q].cmd = "plan_review" /\ job[q].inv = i =>
            plan'[i] = Nothing /\ result'[i] = Nothing
    BY <1>4 DEF IInv, Unplanned
  <1>6. job[p].step \notin Caring /\ job[p].step # "empty" /\ job[p].step # "finish"
    BY <1>1 DEF Runs
  <1> QED
    BY <1>2, <1>3, <1>4, <1>5, <1>6, ReturnSafe

LEMMA FinishInvocationSafe ==
    ASSUME IInv, NEW p \in Processes, FinishInvocation(p)
    PROVE  IInv'
  <1> DEFINE i == job[p].inv
  <1>1. Runs(p, "finish") /\ "finish" \in Steps
    BY Names DEF FinishInvocation
  <1>2. job[p] # Idle /\ i \in Invocations
    BY <1>1, RunFacts
  <1>3. /\ Return(p) /\ stage' = [stage EXCEPT ![i] = "complete"]
        /\ UNCHANGED << plan, result, left, source >>
    BY DEF FinishInvocation, SameRest, evidence
  <1>4. About(i) /\ stage'[i] = "complete"
    BY <1>2, <1>3 DEF IInv, WideTypes, About, Stages
  <1>5. \A q \in Processes : q # p /\ job[q].cmd = "plan_review" /\ job[q].inv = i =>
            plan'[i] = Nothing /\ result'[i] = Nothing
    BY <1>3 DEF IInv, Unplanned
  <1> QED
    BY <1>2, <1>3, <1>4, <1>5, ReturnSafe

LEMMA StopSafe ==
    ASSUME IInv, NEW p \in Processes, Stop(p)
    PROVE  IInv'
  <1> DEFINE i == job[p].inv
  <1>1. job[p] # Idle /\ Return(p) /\ UNCHANGED << stage, plan, result, source >>
        /\ left' = left \cup {i}
    BY DEF Stop, SameFiles, evidence
  <1>2. i \in Invocations /\ stage[i] # "none"
    BY <1>1 DEF IInv, WideTypes, Loaded, OneCreator
  <1>3. About(i) /\ i \in left' /\ stage'[i] # "none"
    BY <1>1, <1>2 DEF IInv, WideTypes, About
  <1>4. \A q \in Processes : q # p /\ job[q].cmd = "plan_review" /\ job[q].inv = i =>
            plan'[i] = Nothing /\ result'[i] = Nothing
    BY <1>1 DEF IInv, Unplanned
  <1> QED
    BY <1>1, <1>2, <1>3, <1>4, ReturnSafe

\* A cleanup, of whatever command, that goes on to its next phase.
LEMMA PhaseSafe ==
    ASSUME IInv, NEW p \in Processes, NEW s \in {"claim", "empty"}, Runs(p, s),
           NEW i \in Invocations, i = job[p].inv,
           NEW t \in {"empty", "finish"}, Go(p, t), About(i), left' = left,
           t = "empty" => stage'[i] = "claimed" /\ s = "claim",
           t = "finish" => stage'[i] = "emptied",
           \A q \in Processes : job[q].cmd = "plan_review" /\ job[q].inv = i =>
               plan'[i] = Nothing /\ result'[i] = Nothing
    PROVE  IInv'
  <1>1. s \in Steps /\ t \in Steps /\ t \notin Work /\ t \notin Caring
    BY Names DEF Work, Caring
  <1>2. job[p] # Idle /\ Loaded(job[p]) /\ OwnStep(job[p]) /\ WideTypes
    BY <1>1, RunFacts DEF IInv
  <1>3. /\ job' \in [Processes -> Jobs] /\ Others(p)
        /\ job'[p].step = t /\ job'[p].inv = i
        /\ job'[p].cmd = job[p].cmd /\ job'[p].task = job[p].task
        /\ job'[p].source = job[p].source /\ job'[p].main = job[p].main
        /\ job'[p].reviewer = job[p].reviewer
        /\ job'[p] # Idle
    BY <1>1, <1>2, GoFacts
  <1>4. Loaded(job'[p])
    BY <1>1, <1>2, <1>3 DEF Loaded, Work
  <1>5. OwnStep(job'[p])
    BY <1>2, <1>3 DEF OwnStep, Runs
  <1>6. Keeps(p)
    BY <1>3, <1>4, <1>5 DEF Keeps
  <1>7. Attended(i)' /\ stage'[i] # "none"
    BY <1>3 DEF Attended, At
  <1>8. \A q \in Processes : job'[q].cmd = "plan_review" /\ job'[q].inv = i =>
            plan'[i] = Nothing /\ result'[i] = Nothing
    BY <1>3 DEF Others
  <1> QED
    BY <1>1, <1>2, <1>3, <1>6, <1>7, <1>8, MoveSafe

LEMMA ClaimInvocationSafe ==
    ASSUME IInv, NEW p \in Processes, ClaimInvocation(p)
    PROVE  IInv'
  <1> DEFINE i == job[p].inv
  <1>1. Runs(p, "claim") /\ "claim" \in Steps
    BY Names DEF ClaimInvocation
  <1>2. job[p] # Idle /\ i \in Invocations /\ stage[i] \in Stages \ {"none"}
    BY <1>1, RunFacts
  <1>3. /\ stage' = [stage EXCEPT ![i] = IF @ = "active" THEN "claimed" ELSE @]
        /\ UNCHANGED << plan, result, left, source >>
    BY DEF ClaimInvocation, SameRest, evidence
  <1>4. About(i)
    BY <1>2, <1>3 DEF IInv, WideTypes, About, Stages
  <1>5. \A q \in Processes : job[q].cmd = "plan_review" /\ job[q].inv = i =>
            plan'[i] = Nothing /\ result'[i] = Nothing
    BY <1>3 DEF IInv, Unplanned
  <1>6. stage'[i] = IF stage[i] = "active" THEN "claimed" ELSE stage[i]
    BY <1>2, <1>3 DEF IInv, WideTypes
  <1>7. CASE stage[i] \in {"active", "claimed"} /\ Go(p, "empty")
    BY <1>1, <1>2, <1>3, <1>4, <1>5, <1>6, <1>7, PhaseSafe
  <1>8. CASE stage[i] = "emptied" /\ Go(p, "finish")
    BY <1>1, <1>2, <1>3, <1>4, <1>5, <1>6, <1>8, PhaseSafe
  <1>9. CASE stage[i] = "complete" /\ Return(p)
    BY <1>2, <1>4, <1>5, <1>6, <1>9, ReturnSafe
  <1> QED
    BY <1>7, <1>8, <1>9 DEF ClaimInvocation

LEMMA EmptyInvocationSafe ==
    ASSUME IInv, NEW p \in Processes, EmptyInvocation(p)
    PROVE  IInv'
  <1> DEFINE i == job[p].inv
  <1>1. Runs(p, "empty") /\ "empty" \in Steps /\ "empty" \notin Caring
    BY Names DEF EmptyInvocation
  <1>2. job[p] # Idle /\ i \in Invocations /\ stage[i] # "none"
    BY <1>1, RunFacts
  <1>3. CASE /\ stage' = [stage EXCEPT ![i] = "emptied"]
             /\ plan' = [plan EXCEPT ![i] = Nothing]
             /\ result' = [result EXCEPT ![i] = Nothing]
             /\ Go(p, "finish") /\ SameRest
    <2>1. About(i) /\ left' = left
      BY <1>2, <1>3 DEF IInv, WideTypes, About, Stages, Or, SameRest
    <2>2. stage'[i] = "emptied" /\ plan'[i] = Nothing /\ result'[i] = Nothing
      BY <1>2, <1>3 DEF IInv, WideTypes
    <2> QED
      BY <1>1, <1>2, <1>3, <2>1, <2>2, PhaseSafe
  <1>4. CASE stage[i] # "claimed" /\ Return(p) /\ SameFiles /\ SameRest
    <2>1. About(i) /\ stage'[i] = stage[i] /\ plan'[i] = plan[i] /\ result'[i] = result[i]
      BY <1>2, <1>4, OnlyIsQuiet, QuietIsAbout DEF Quiet
    <2>2. \A q \in Processes : q # p /\ job[q].cmd = "plan_review" /\ job[q].inv = i =>
              plan'[i] = Nothing /\ result'[i] = Nothing
      BY <2>1 DEF IInv, Unplanned
    <2>3. job[p].step \notin Caring /\ job[p].step # "finish"
      BY <1>1 DEF Runs
    <2> QED
      BY <1>2, <1>4, <2>1, <2>2, <2>3, ReturnSafe
  <1> QED
    BY <1>3, <1>4 DEF EmptyInvocation

(***************************************************************************)
(* The start of a command.                                                 *)
(***************************************************************************)
LEMMA StartSafe ==
    ASSUME IInv, NEW p \in Processes, job[p] = Idle, NEW i \in Invocations,
           NEW r \in Jobs, r # Idle, r.inv = i, Loaded(r), OwnStep(r),
           r.cmd = "max" => r.step \notin Work,
           job' = [job EXCEPT ![p] = r],
           source' \in Nat, UNCHANGED << plan, result, left >>,
           \/ /\ stage[i] = "none" /\ stage' = [stage EXCEPT ![i] = "active"]
              /\ r.step \in Caring
           \/ stage[i] # "none" /\ UNCHANGED stage /\ r.cmd \notin Creators
    PROVE  IInv'
  <1>1. job' \in [Processes -> Jobs] /\ Others(p) /\ job'[p] = r
    BY DEF IInv, WideTypes, Others
  <1>2. /\ \A k \in Invocations : k # i => stage'[k] = stage[k]
        /\ stage' \in [Invocations -> Stages] /\ stage'[i] # "none"
    BY DEF IInv, WideTypes, Stages
  <1>3. /\ \A q \in Processes : Loaded(job'[q]) /\ OwnStep(job'[q])
        /\ \A q \in Processes : job[q] # Idle => q # p /\ job[q].inv \in Invocations
    BY <1>1 DEF IInv, WideTypes, OwnSteps, Others, Loaded
  <1>4. WideTypes'
    BY <1>1, <1>2, <1>3 DEF IInv, WideTypes, Loaded
  <1>5. AllAttended'
    <2> SUFFICES ASSUME NEW k \in Invocations PROVE Attended(k)'
      BY DEF AllAttended
    <2>1. Attended(k)
      BY DEF IInv, AllAttended
    <2>2. ASSUME NEW steps \in SUBSET Steps, At(k, steps)
          PROVE  \E q \in Processes : job'[q].inv = k /\ job'[q].step \in steps
      <3>1. PICK q \in Processes : job[q].inv = k /\ job[q].step \in steps
        BY <2>2 DEF At
      <3>2. job'[q] = job[q]
        BY <1>1, <3>1, IdleFacts DEF Others
      <3> QED
        BY <3>1, <3>2
    <2>3. /\ At(k, {"empty"}) => At(k, {"empty"})'
          /\ At(k, {"finish"}) => At(k, {"finish"})'
          /\ At(k, Caring) => At(k, Caring)'
      <3>1. {"empty"} \in SUBSET Steps /\ {"finish"} \in SUBSET Steps
            /\ Caring \in SUBSET Steps
        BY Names
      <3> QED
        BY <2>2, <3>1 DEF At
    <2>4. CASE stage'[k] = stage[k]
      BY <2>1, <2>3, <2>4 DEF Attended
    <2>5. CASE stage'[k] # stage[k]
      <3>1. k = i /\ stage'[k] = "active" /\ r.step \in Caring
        BY <1>2, <2>5 DEF IInv, WideTypes
      <3> QED
        BY <1>1, <3>1 DEF Attended, At
    <2> QED
      BY <2>4, <2>5
  <1>6. OneCreator'
    <2>1. \A q \in Processes : job'[q] # Idle => stage'[job'[q].inv] # "none"
      BY <1>1, <1>2, <1>3 DEF IInv, OneCreator, Others
    <2>2. ASSUME NEW q \in Processes, job[q].cmd \in Creators, job[q].inv = i, q # p
          PROVE  r.cmd \notin Creators
      <3>1. job[q] # Idle
        BY <2>2, IdleFacts DEF Creators, Commands
      <3> QED
        BY <2>2, <3>1 DEF IInv, OneCreator
    <2>3. \A q \in Processes : q # p => job'[q] = job[q]
      BY <1>1 DEF Others
    <2> QED
      BY <1>1, <2>1, <2>2, <2>3 DEF IInv, OneCreator
  <1>7. Unplanned'
    <2>1. \A q \in Processes : q # p => job'[q] = job[q]
      BY <1>1 DEF Others
    <2>2. \A k \in Invocations :
              stage'[k] = "none" => plan'[k] = Nothing /\ result'[k] = Nothing
      BY <1>2 DEF IInv, Unplanned
    <2>3. r.cmd = "plan_review" => /\ plan[i] = Nothing /\ result[i] = Nothing
                                   /\ \A q \in Processes : job[q] # Idle => job[q].inv # i
      BY DEF IInv, Unplanned, OneCreator, Creators
    <2>4. \A q \in Processes : job'[q].cmd = "plan_review" =>
              plan'[job'[q].inv] = Nothing /\ result'[job'[q].inv] = Nothing
      BY <1>1, <2>1, <2>3 DEF IInv, Unplanned
    <2>5. ASSUME NEW q \in Processes, NEW s \in Processes,
                 job'[q].cmd = "plan_review", job'[s].cmd = "max",
                 job'[q].inv = job'[s].inv
          PROVE  job'[s].step \notin Work
      <3>1. CASE s = p
        BY <1>1, <2>5, <3>1
      <3>2. CASE s # p /\ q = p
        <4>1. job[s] # Idle
          BY <2>1, <2>5, <3>2, IdleFacts DEF Commands
        <4> QED
          BY <1>1, <2>1, <2>3, <2>5, <3>2, <4>1
      <3>3. CASE s # p /\ q # p
        BY <2>1, <2>5, <3>3 DEF IInv, Unplanned, Work
      <3> QED
        BY <3>1, <3>2, <3>3
    <2> QED
      BY <2>2, <2>4, <2>5 DEF Unplanned, Work
  <1>8. OwnSteps'
    BY <1>3 DEF OwnSteps, OwnStep
  <1> QED
    BY <1>4, <1>5, <1>6, <1>7, <1>8 DEF IInv

\* The locals of a command that starts.
LEMMA StartLocals ==
    ASSUME IInv, NEW p \in Processes, NEW c \in Commands, NEW i \in Invocations,
           NEW step \in Steps, NEW locals \in Jobs, Start(p, c, i, step, locals)
    PROVE  \E r \in Jobs :
               /\ job' = [job EXCEPT ![p] = r] /\ r # Idle
               /\ r.cmd = c /\ r.inv = i /\ r.step = step
               /\ r.task = locals.task /\ r.main = locals.main
               /\ r.reviewer = locals.reviewer /\ r.source = locals.source
  <1> DEFINE r == [locals EXCEPT !.cmd = c, !.inv = i, !.step = step]
  <1>1. job' = [job EXCEPT ![p] = r]
    BY DEF Start
  <1>2. /\ r \in Jobs /\ r.cmd = c /\ r.inv = i /\ r.step = step
        /\ r.task = locals.task /\ r.main = locals.main
        /\ r.reviewer = locals.reviewer /\ r.source = locals.source
    BY DEF Jobs, Or
  <1>3. r # Idle
    BY <1>2, IdleFacts
  <1> QED
    BY <1>1, <1>2, <1>3

\* plan-review and a Lite worker create an invocation.
LEMMA CreateSafe ==
    ASSUME IInv, NEW p \in Processes, NEW c \in Creators, NEW i \in Invocations,
           NEW step, NEW locals \in Jobs, Create(p, c, i, step, locals),
           locals.task \in Tasks,
           c = "plan_review" => /\ step = "review_plan"
                                /\ locals.main \in Models /\ locals.reviewer \in Models,
           c = "lite" => step = "create_worktree"
    PROVE  IInv'
  <1> DEFINE l == [locals EXCEPT !.source = source]
  <1>1. /\ job[p] = Idle /\ stage[i] = "none" /\ stage' = [stage EXCEPT ![i] = "active"]
        /\ Start(p, c, i, step, l) /\ UNCHANGED << plan, result, left, source >>
    BY DEF Create, SameRest, evidence
  <1>2. source \in Nat /\ c \in Commands /\ step \in Caring /\ step \in Steps
    BY Names DEF IInv, WideTypes, Creators, Commands, Work
  <1>3. /\ l \in Jobs /\ l.task = locals.task /\ l.main = locals.main
        /\ l.reviewer = locals.reviewer /\ l.source = source
    BY <1>2 DEF Jobs, Or
  <1> HIDE DEF l
  <1>4. PICK r \in Jobs : /\ job' = [job EXCEPT ![p] = r] /\ r # Idle
                          /\ r.cmd = c /\ r.inv = i /\ r.step = step
                          /\ r.task = l.task /\ r.main = l.main
                          /\ r.reviewer = l.reviewer /\ r.source = l.source
    BY <1>1, <1>2, <1>3, StartLocals
  <1>5. Loaded(r)
    BY <1>2, <1>3, <1>4 DEF Loaded, Creators
  <1>6. OwnStep(r) /\ r.cmd # "max"
    BY <1>4 DEF OwnStep, Creators
  <1> QED
    BY <1>1, <1>2, <1>4, <1>5, <1>6, StartSafe

\* The other commands load one.
LEMMA LoadSafe ==
    ASSUME IInv, NEW p \in Processes, NEW c \in Commands \ Creators,
           NEW i \in Invocations, NEW step \in Steps \ Work, NEW locals \in Jobs,
           Load(p, c, i, step, locals),
           c = "max" => locals.task \in Tasks /\ step = "read_plan",
           c = "review" => step = "review_result",
           c \in {"integrate", "cleanup"} => step \in {"read_bundle", "claim"}
    PROVE  IInv'
  <1>1. /\ job[p] = Idle /\ stage[i] # "none" /\ Start(p, c, i, step, locals) /\ Quiet
    BY OnlyIsQuiet DEF Load, Only, Present
  <1>2. PICK r \in Jobs : /\ job' = [job EXCEPT ![p] = r] /\ r # Idle
                          /\ r.cmd = c /\ r.inv = i /\ r.step = step
                          /\ r.task = locals.task
    BY <1>1, StartLocals
  <1>3. Loaded(r)
    BY <1>2 DEF Loaded, Creators, Commands, Work
  <1>4. OwnStep(r)
    BY <1>2 DEF OwnStep, Creators, Commands
  <1> QED
    BY <1>1, <1>2, <1>3, <1>4, StartSafe DEF Quiet

LEMMA CommandSafe ==
    ASSUME IInv, NEW p \in Processes, Command(p)
    PROVE  IInv'
  <1>1. PICK i \in Invocations :
            \/ \E t \in Tasks : \/ LiteWorker(p, i, t) \/ MaxWorker(p, i, t)
                                \/ \E m, r \in Models : PlanReview(p, i, t, m, r)
            \/ \E m, r \in Models : Review(p, i, m, r)
            \/ Integrate(p, i)
            \/ CleanupCommand(p, i)
    BY DEF Command
  <1>2. /\ Creators = {"plan_review", "lite"} /\ Creators \subseteq Commands
        /\ {"max", "review", "integrate", "cleanup"} \subseteq Commands \ Creators
        /\ {"read_plan", "review_result", "read_bundle", "claim"} \subseteq Steps \ Work
    BY DEF Creators, Commands, Steps, Work
  <1>3. ASSUME NEW t \in Tasks, LiteWorker(p, i, t) PROVE IInv'
    <2>1. [Idle EXCEPT !.task = t] \in Jobs /\ [Idle EXCEPT !.task = t].task = t
      BY DEF Idle, Jobs, Or
    <2> QED
      BY <1>2, <1>3, <2>1, CreateSafe DEF LiteWorker
  <1>4. ASSUME NEW t \in Tasks, MaxWorker(p, i, t) PROVE IInv'
    <2>1. [Idle EXCEPT !.task = t] \in Jobs /\ [Idle EXCEPT !.task = t].task = t
      BY DEF Idle, Jobs, Or
    <2> QED
      BY <1>2, <1>4, <2>1, LoadSafe DEF MaxWorker
  <1>5. ASSUME NEW t \in Tasks, NEW m \in Models, NEW r \in Models, PlanReview(p, i, t, m, r)
        PROVE  IInv'
    <2> DEFINE l == [Idle EXCEPT !.task = t, !.main = m, !.reviewer = r]
    <2>1. l \in Jobs /\ l.task = t /\ l.main = m /\ l.reviewer = r
      BY DEF Idle, Jobs, Or
    <2>2. Create(p, "plan_review", i, "review_plan", l)
      BY <1>5 DEF PlanReview
    <2> HIDE DEF l
    <2> QED
      BY <1>2, <2>1, <2>2, CreateSafe
  <1>6. ASSUME NEW m \in Models, NEW r \in Models, Review(p, i, m, r) PROVE IInv'
    <2>1. result[i] \in Or(Results)
      BY DEF IInv, WideTypes
    <2>2. [Idle EXCEPT !.main = m, !.reviewer = r, !.result = result[i]] \in Jobs
      BY <2>1 DEF Idle, Jobs, Or
    <2> QED
      BY <1>2, <1>6, <2>2, LoadSafe DEF Review
  <1>7. ASSUME Integrate(p, i) PROVE IInv'
    <2>1. result[i] \in Or(Results)
      BY DEF IInv, WideTypes
    <2>2. [Idle EXCEPT !.result = result[i]] \in Jobs
      BY <2>1 DEF Idle, Jobs, Or
    <2> QED
      BY <1>2, <1>7, <2>2, LoadSafe DEF Integrate
  <1>8. ASSUME CleanupCommand(p, i) PROVE IInv'
    <2>1. Idle \in Jobs
      BY DEF Idle, Jobs, Or
    <2> QED
      BY <1>2, <1>8, <2>1, LoadSafe DEF CleanupCommand
  <1> QED
    BY <1>1, <1>3, <1>4, <1>5, <1>6, <1>7, <1>8

(***************************************************************************)
(* The theorems.                                                           *)
(***************************************************************************)
LEMMA InitSafe == Init => IInv
  <1> SUFFICES ASSUME Init PROVE IInv
    OBVIOUS
  <1>1. WideTypes
    <2>1. Idle \in Jobs
      BY DEF Idle, Jobs, Or
    <2> QED
      BY <2>1, IdleIsOwn DEF Init, WideTypes, Stages, Or
  <1>2. \A p \in Processes : /\ job[p] = Idle /\ job[p].cmd \notin Commands
                             /\ OwnStep(job[p])
    BY IdleFacts, IdleIsOwn DEF Init
  <1>3. AllAttended
    BY DEF Init, AllAttended, Attended
  <1>4. OneCreator /\ Unplanned
    BY <1>2 DEF Init, OneCreator, Unplanned, Creators, Commands
  <1> QED
    BY <1>1, <1>2, <1>3, <1>4 DEF IInv, OwnSteps

LEMMA StepSafe == IInv /\ [Next]_vars => IInv'
  <1> SUFFICES ASSUME IInv, [Next]_vars PROVE IInv'
    OBVIOUS
  <1>1. CASE Edit
    <2>1. Quiet /\ UNCHANGED job
      BY <1>1 DEF Edit, SameFiles, Quiet, IInv, WideTypes, evidence
    <2> QED
      BY <2>1 DEF Quiet, IInv, WideTypes, AllAttended, Attended, At, OneCreator,
                  Unplanned, OwnSteps, OwnStep, Loaded
  <1>2. ASSUME NEW p \in Processes, Command(p) PROVE IInv'
    BY <1>2, CommandSafe
  <1>3. ASSUME NEW p \in Processes, Step(p) PROVE IInv'
    BY <1>3, ReviewPlanSafe, ReadPlanSafe, CreateWorktreeSafe, RunWorkerSafe,
       SealResultSafe, ReviewResultSafe, ReadBundleSafe, CompareSafe, WriteSafe,
       ClaimInvocationSafe, EmptyInvocationSafe, FinishInvocationSafe DEF Step
  <1>4. ASSUME NEW p \in Processes, Stop(p) PROVE IInv'
    BY <1>4, StopSafe
  <1>5. CASE UNCHANGED vars
    BY <1>5 DEF vars, evidence, IInv, WideTypes, AllAttended, Attended, At,
                OneCreator, Unplanned, OwnSteps, OwnStep, Loaded
  <1> QED
    BY <1>1, <1>2, <1>3, <1>4, <1>5 DEF Next

\* The inductive invariant holds.
THEOREM Inductive == Spec => []IInv
  BY InitSafe, StepSafe, PTL DEF Spec

\* No command that has returned leaves an invocation behind, unless it has an
\* approved plan or a sealed result, or a stopped process is to blame: for any
\* number of commands, in any order and overlap, of cli.py.
THEOREM NobodyAbandons == Spec => []NothingAbandoned
  <1>1. IInv => NothingAbandoned
    <2> SUFFICES ASSUME IInv, NEW i \in Invocations, stage[i] \notin {"none", "complete"},
                        i \notin left, plan[i] = Nothing, result[i] = Nothing
                 PROVE  \E p \in Processes : job[p].inv = i
      BY DEF NothingAbandoned
    <2>1. Attended(i)
      BY DEF IInv, AllAttended
    <2> QED
      BY <2>1 DEF Attended, At
  <1> QED
    BY <1>1, Inductive, PTL

\* A result that disappears is removed by the cleanup of another command than a
\* plan review or a review, whatever verdicts, failures and overlaps there are.
THEOREM ResultsSurviveReviews == Spec => ReviewsKeepResults
  <1> DEFINE Keep == \A i \in Invocations :
                 result[i] # Nothing /\ result'[i] = Nothing =>
                     \E p \in Processes : /\ job[p].inv = i /\ Runs(p, "empty")
                                          /\ job[p].cmd \notin {"plan_review", "review"}
  <1>1. IInv /\ [Next]_vars => [Keep]_vars
    <2> SUFFICES ASSUME IInv, Next, NEW i \in Invocations,
                        result[i] # Nothing, result'[i] = Nothing
                 PROVE  \E p \in Processes : /\ job[p].inv = i /\ Runs(p, "empty")
                                             /\ job[p].cmd \notin {"plan_review", "review"}
      OBVIOUS
    <2>1. PICK p \in Processes : Step(p)
      <3>1. ~Edit
        BY DEF Edit, SameFiles, evidence
      <3>2. ASSUME NEW p \in Processes, Command(p) PROVE FALSE
        BY <3>2 DEF Command, LiteWorker, MaxWorker, PlanReview, Review, Integrate,
                    CleanupCommand, Create, Load, Only, SameFiles, evidence
      <3>3. ASSUME NEW p \in Processes, Stop(p) PROVE FALSE
        BY <3>3 DEF Stop, SameFiles, evidence
      <3> QED
        BY <3>1, <3>2, <3>3 DEF Next
    <2>2. EmptyInvocation(p)
      <3>1. ~SealResult(p)
        <4>1. ASSUME SealResult(p) PROVE FALSE
          <5>1. CASE Only(CleanUp(p))
            BY <5>1 DEF Only, SameFiles, evidence
          <5>2. CASE \E r : /\ result[job[p].inv] = Nothing
                            /\ result' = [result EXCEPT ![job[p].inv] = r]
            BY <5>2 DEF IInv, WideTypes
          <5> QED
            BY <4>1, <5>1, <5>2 DEF SealResult
        <4> QED
          BY <4>1
      <3>2. ~(ReviewPlan(p) \/ ReadPlan(p) \/ RunWorker(p) \/ ReviewResult(p)
              \/ ReadBundle(p) \/ Compare(p))
        BY DEF ReviewPlan, ApprovePlan, ReadPlan, RunWorker, ReviewResult,
               ApproveResult, ReadBundle, Compare, Only, SameFiles, evidence
      <3>3. ~(CreateWorktree(p) \/ Write(p) \/ ClaimInvocation(p) \/ FinishInvocation(p))
        BY DEF CreateWorktree, Write, ClaimInvocation, FinishInvocation, SameFiles,
               evidence
      <3> QED
        BY <2>1, <3>1, <3>2, <3>3 DEF Step
    <2>3. Runs(p, "empty") /\ job[p].inv = i
      BY <2>2 DEF EmptyInvocation, SameFiles, evidence, IInv, WideTypes
    <2>4. job[p].cmd # "plan_review"
      BY <2>3 DEF IInv, Unplanned
    <2>5. job[p].cmd # "review"
      BY <2>3 DEF IInv, OwnSteps, OwnStep, Runs
    <2> QED
      BY <2>3, <2>4, <2>5
  <1> QED
    BY <1>1, Inductive, PTL DEF Spec, ReviewsKeepResults

(***************************************************************************)
(* The evidence and what the commands hold of it: a second invariant, on   *)
(* top of the first.                                                       *)
(***************************************************************************)
\* An integration has a result in hand.
Taking == {"read_bundle", "compare", "write"}

\* And has not yet found it to fit the tree.
Seeking == {"read_bundle", "compare"}

Gone(i) == stage[i] \in {"emptied", "complete"}

\* The receipts of an invocation fit together.
Evident(i) ==
    /\ Gone(i) => plan[i] = Nothing /\ result[i] = Nothing
    /\ stage[i] = "none" \/ Gone(i) => final[i] = Nothing
    /\ plan[i] # Nothing => plan[i].source <= source
    /\ result[i] # Nothing =>
           /\ result[i].inv = i /\ result[i].source <= source
           /\ result[i].mode = "lite" <=> plan[i] = Nothing
    /\ final[i] # Nothing => final[i].result = result[i]

\* What a command holds is of its invocation, and of no later source than now.
Dated(p) ==
    /\ job[p].source # Nothing => job[p].source <= source
    /\ job[p].result # Nothing =>
           job[p].result.inv = job[p].inv /\ job[p].result.source <= source

\* What a command is to seal is what the receipts allow it.
Entitled(p) ==
    LET j == job[p]
    IN /\ j.cmd = "plan_review" => j.reviewer # j.main
       /\ j.cmd = "lite" => plan[j.inv] = Nothing
       /\ j.cmd = "max" /\ j.step \in Work /\ Present(j.inv) =>
              /\ plan[j.inv] # Nothing
              /\ plan[j.inv].task = j.task /\ plan[j.inv].source = j.source
       /\ j.cmd = "review" =>
              j.main \in Models /\ j.reviewer \in Models /\ j.result # Nothing

\* An integration has the result that was sealed, until somebody discards it.
Holding(p) ==
    LET j == job[p]
    IN /\ j.step \in Taking =>
              j.result # Nothing /\ (Gone(j.inv) \/ result[j.inv] = j.result)
       /\ j.step = "finish" => Gone(j.inv)

Honest(p) == Dated(p) /\ Entitled(p) /\ Holding(p)

\* No result of i is found to fit the tree any more.
Spent(i) ==
    /\ Gone(i) \/ result[i] # Nothing
    /\ result[i] # Nothing => result[i].source < source
    /\ \A p \in Processes : job[p].inv = i /\ job[p].step \in Seeking =>
           job[p].result.source < source

Rightful ==
    /\ final \in [Invocations -> Or(Approvals)]
    /\ \A i \in Invocations : Evident(i)
    /\ \A p \in Processes : Honest(p)
    /\ integrated \subseteq Invocations
    /\ \A i \in integrated : Spent(i)

(***************************************************************************)
(* What every step does: the tree and the stages go forward, and evidence  *)
(* is added to an invocation that lacks it, or discarded with all the rest *)
(* of it.                                                                  *)
(***************************************************************************)
Onward ==
    /\ source' \in Nat /\ source <= source'
    /\ \A i \in Invocations :
           /\ Gone(i) => Gone(i)'
           /\ Present(i)' => Present(i) \/ stage[i] = "none"
           /\ \/ plan'[i] = plan[i] \/ Gone(i)'
              \/ /\ Present(i) /\ plan[i] = Nothing
                 /\ \A q \in Processes : ~(job[q].cmd = "lite" /\ job[q].inv = i)
           /\ \/ result'[i] = result[i] \/ Gone(i)'
              \/ Present(i) /\ result[i] = Nothing

\* A process keeps what it holds when it goes on, or another one takes a step.
LEMMA StayHonest ==
    ASSUME IInv, Rightful, Onward, NEW q \in Processes, job[q].inv \in Invocations,
           job'[q].cmd = job[q].cmd, job'[q].inv = job[q].inv,
           job'[q].task = job[q].task, job'[q].main = job[q].main,
           job'[q].reviewer = job[q].reviewer, job'[q].source = job[q].source,
           job'[q].result = job[q].result,
           job[q] # Idle,
           job'[q].step \in Work => job[q].step \in Work,
           job'[q].step \in Taking => job[q].step \in Taking,
           job'[q].step = "finish" => Gone(job[q].inv)',
           job[q].cmd = "lite" => plan'[job[q].inv] = plan[job[q].inv] \/ Gone(job[q].inv)',
           \A i \in Invocations : Gone(i)' => plan'[i] = Nothing
    PROVE  Honest(q)'
  <1> DEFINE i == job[q].inv
  <1>1. Honest(q) /\ Loaded(job[q]) /\ job[q] \in Jobs /\ stage[i] # "none"
    BY DEF Rightful, IInv, WideTypes, OneCreator
  <1>2. Dated(q)'
    <2>1. job[q].source # Nothing => job[q].source \in Nat
      BY <1>1 DEF Jobs, Or
    <2>2. job[q].result # Nothing => job[q].result.source \in Nat
      BY <1>1 DEF Jobs, Or, Results
    <2> QED
      BY <1>1, <2>1, <2>2 DEF Honest, Dated, Onward, IInv, WideTypes
  <1>3. Entitled(q)'
    <2>1. ASSUME job[q].cmd = "max", job'[q].step \in Work, Present(i)'
          PROVE  plan'[i] = plan[i] /\ plan[i] # Nothing
                 /\ plan[i].task = job[q].task /\ plan[i].source = job[q].source
      <3>1. Present(i) /\ ~Gone(i)'
        BY <1>1, <2>1 DEF Onward, Present, Gone
      <3>2. plan[i] # Nothing /\ plan[i].task = job[q].task /\ plan[i].source = job[q].source
        BY <1>1, <2>1, <3>1 DEF Honest, Entitled
      <3> QED
        BY <3>1, <3>2 DEF Onward
    <2> QED
      BY <1>1, <2>1 DEF Honest, Entitled
  <1>4. Holding(q)'
    <2>1. ASSUME job'[q].step \in Taking
          PROVE  job[q].result # Nothing /\ (Gone(i)' \/ result'[i] = job[q].result)
      <3>1. job[q].result # Nothing /\ (Gone(i) \/ result[i] = job[q].result)
        BY <1>1, <2>1 DEF Honest, Holding
      <3> QED
        BY <3>1 DEF Onward
    <2>2. Gone(i)' <=> stage'[i] \in {"emptied", "complete"}
      BY DEF Gone
    <2> QED
      BY <2>1, <2>2 DEF Holding, Gone
  <1> QED
    BY <1>2, <1>3, <1>4 DEF Honest

\* So does an idle process.
LEMMA IdleHonest ==
    ASSUME NEW q \in Processes, job'[q] = Idle
    PROVE  Honest(q)'
  <1>1. /\ Idle.source = Nothing /\ Idle.result = Nothing /\ Idle.cmd = Nothing
        /\ Idle.step = Nothing
    BY DEF Idle
  <1>2. Nothing \notin Commands /\ Nothing \notin Steps
    BY WorkflowAssumption
  <1> QED
    BY <1>1, <1>2 DEF Honest, Dated, Entitled, Holding, Commands, Steps, Taking, Work

LEMMA OthersHonest ==
    ASSUME IInv, Rightful, Onward, NEW p \in Processes, Others(p),
           \A i \in Invocations : Gone(i)' => plan'[i] = Nothing
    PROVE  \A q \in Processes : q # p => Honest(q)'
  <1> SUFFICES ASSUME NEW q \in Processes, q # p PROVE Honest(q)'
    OBVIOUS
  <1>1. job'[q] = job[q] /\ Loaded(job[q])
    BY DEF Others, IInv, WideTypes
  <1>2. CASE job[q] = Idle
    BY <1>1, <1>2, IdleHonest
  <1>3. CASE job[q] # Idle
    <2>1. job[q].inv \in Invocations
      BY <1>1, <1>3 DEF Loaded
    <2>2. job[q].step = "finish" => Gone(job[q].inv)'
      BY <1>1, <2>1 DEF Rightful, Honest, Holding, Onward, Gone
    <2>3. job[q].cmd = "lite" => plan'[job[q].inv] = plan[job[q].inv] \/ Gone(job[q].inv)'
      BY <1>1, <2>1 DEF Onward, Gone
    <2> QED
      BY <1>1, <1>3, <2>1, <2>2, <2>3, StayHonest
  <1> QED
    BY <1>2, <1>3

\* What does not fit the tree any more never does again.
LEMMA SpentStays ==
    ASSUME IInv, Rightful, Onward, NEW p \in Processes, Others(p),
           NEW i \in Invocations, Spent(i),
           Gone(i)' => result'[i] = Nothing,
           job'[p].inv = i /\ job'[p].step \in Seeking =>
               \/ /\ job[p].inv = i /\ job[p].step \in Seeking
                  /\ job'[p].result = job[p].result
               \/ result[i] # Nothing /\ job'[p].result = result[i]
    PROVE  Spent(i)'
  <1>1. Gone(i) => Gone(i)'
    BY DEF Onward
  <1>2. result'[i] = result[i] \/ Gone(i)'
    BY DEF Onward, Spent, Gone, Present
  <1>3. result[i] # Nothing => result[i].source \in Nat
    BY DEF IInv, WideTypes, Or, Results
  <1>4. source \in Nat /\ source' \in Nat /\ source <= source'
    BY DEF Onward, IInv, WideTypes
  <1>5. ASSUME NEW q \in Processes, job'[q].inv = i, job'[q].step \in Seeking
        PROVE  job'[q].result.source < source'
    <2>1. CASE job[q].inv = i /\ job[q].step \in Seeking /\ job'[q].result = job[q].result
      <3>1. job[q].result.source < source
        BY <2>1 DEF Spent
      <3>2. job[q].result \in Results
        BY <2>1 DEF Rightful, Honest, Holding, IInv, WideTypes, Jobs, Or, Taking, Seeking
      <3> QED
        BY <1>4, <2>1, <3>1, <3>2 DEF Results
    <2>2. CASE result[i] # Nothing /\ job'[q].result = result[i]
      BY <1>3, <1>4, <2>2 DEF Spent
    <2> QED
      BY <1>5, <2>1, <2>2 DEF Others
  <1>6. Gone(i)' \/ result'[i] # Nothing
    BY <1>1, <1>2 DEF Spent
  <1>7. result'[i] # Nothing => result'[i].source < source'
    BY <1>2, <1>3, <1>4 DEF Spent
  <1> QED
    BY <1>5, <1>6, <1>7 DEF Spent

(***************************************************************************)
(* What a step has to show, and what it then is to Authority.              *)
(***************************************************************************)
\* What p takes in hand is the result that is sealed.
TakesSealed(p) ==
    job'[p].step \in Seeking =>
        \/ /\ job[p].step \in Seeking /\ job'[p].inv = job[p].inv
           /\ job'[p].result = job[p].result
        \/ result[job'[p].inv] # Nothing /\ job'[p].result = result[job'[p].inv]

\* The invariant holds again, and no result fits the tree that did not before.
Righted == Rightful' /\ \A i \in Invocations : Spent(i) => Spent(i)'

LEMMA Settle ==
    ASSUME IInv, IInv', Rightful, Onward, NEW p \in Processes, Others(p), Honest(p)',
           TakesSealed(p), final' \in [Invocations -> Or(Approvals)],
           \A i \in Invocations : Evident(i)',
           integrated' \subseteq Invocations,
           \A i \in integrated' : i \in integrated \/ Spent(i)'
    PROVE  Righted
  <1>1. \A i \in Invocations : Gone(i)' => plan'[i] = Nothing /\ result'[i] = Nothing
    BY DEF Evident
  <1>2. \A q \in Processes : Honest(q)'
    BY <1>1, OthersHonest
  <1>3. ASSUME NEW i \in Invocations, Spent(i) PROVE Spent(i)'
    <2>1. Gone(i)' => result'[i] = Nothing
      BY <1>1
    <2>2. job'[p].inv = i /\ job'[p].step \in Seeking =>
              \/ /\ job[p].inv = i /\ job[p].step \in Seeking
                 /\ job'[p].result = job[p].result
              \/ result[i] # Nothing /\ job'[p].result = result[i]
      BY DEF TakesSealed
    <2> QED
      BY <1>3, <2>1, <2>2, SpentStays
  <1>4. \A i \in integrated' : Spent(i)'
    BY <1>3 DEF Rightful
  <1> QED
    BY <1>2, <1>3, <1>4 DEF Rightful, Righted

\* The evidence stays, and nothing is discarded.
Still ==
    /\ source' \in Nat /\ source <= source'
    /\ UNCHANGED evidence
    /\ \A i \in Invocations : /\ Gone(i)' <=> Gone(i)
                              /\ stage'[i] = "none" => stage[i] = "none"

LEMMA StillOnward ==
    ASSUME IInv, IInv', Rightful, Still
    PROVE  /\ Onward /\ \A i \in Invocations : Evident(i)'
           /\ final' \in [Invocations -> Or(Approvals)]
  <1>1. Onward
    BY DEF IInv, WideTypes, Stages, Still, Onward, evidence, Gone, Present
  <1>2. ASSUME NEW i \in Invocations PROVE Evident(i)'
    <2>1. /\ plan[i] # Nothing => plan[i].source \in Nat
          /\ result[i] # Nothing => result[i].source \in Nat
      BY DEF IInv, WideTypes, Or, Plans, Results
    <2>2. Evident(i) /\ source \in Nat
      BY DEF Rightful, IInv, WideTypes
    <2>3. /\ plan'[i] = plan[i] /\ result'[i] = result[i] /\ final'[i] = final[i]
          /\ Gone(i)' <=> Gone(i)
          /\ stage'[i] = "none" => stage[i] = "none"
          /\ source' \in Nat /\ source <= source'
      BY DEF Still, evidence
    <2> QED
      BY <2>1, <2>2, <2>3 DEF Evident
  <1>3. final' = final
    BY DEF Still, evidence
  <1> QED
    BY <1>1, <1>2, <1>3 DEF Rightful

\* A process that only goes on.
LEMMA GoHonest ==
    ASSUME IInv, Rightful, Onward, NEW p \in Processes, NEW s \in Steps, NEW t \in Steps,
           Runs(p, s), Go(p, t),
           t \in Work => s \in Work, t \in Taking => s \in Taking,
           t \in Seeking => s \in Seeking,
           t = "finish" => stage'[job[p].inv] \in {"emptied", "complete"},
           \A i \in Invocations : Gone(i)' => plan'[i] = Nothing
    PROVE  Honest(p)' /\ Others(p) /\ TakesSealed(p) /\ job'[p].step = t
  <1>1. job[p] # Idle /\ job[p].inv \in Invocations
    BY RunFacts
  <1>2. job[p] \in Jobs /\ job' = [job EXCEPT ![p] = [job[p] EXCEPT !.step = t]]
    BY DEF IInv, WideTypes, Go
  <1>3. /\ job'[p] = [job[p] EXCEPT !.step = t]
        /\ Others(p)
    BY <1>2 DEF IInv, WideTypes, Others
  <1>4. /\ job'[p].cmd = job[p].cmd /\ job'[p].inv = job[p].inv
        /\ job'[p].task = job[p].task /\ job'[p].main = job[p].main
        /\ job'[p].reviewer = job[p].reviewer /\ job'[p].source = job[p].source
        /\ job'[p].result = job[p].result /\ job'[p].step = t
    BY <1>2, <1>3 DEF Jobs
  <1>5. job[p].cmd = "lite" => plan'[job[p].inv] = plan[job[p].inv]
                               \/ stage'[job[p].inv] \in {"emptied", "complete"}
    BY <1>1 DEF Onward, Gone
  <1>6. Honest(p)'
    BY <1>1, <1>4, <1>5, StayHonest DEF Runs, Gone
  <1> QED
    BY <1>3, <1>4, <1>6 DEF TakesSealed, Runs

(***************************************************************************)
(* The mapping.                                                            *)
(***************************************************************************)
Hand == [ p \in Processes |-> IF job[p].step \in Taking THEN job[p].result ELSE Nothing ]
Fitting == { p \in Processes : job[p].step = "write" }
GoneSet == { i \in Invocations : Gone(i) }

Promised == [Authority!AuthorityNext]_<< source, Authority!kept, Authority!integrations,
                                         integrated >>

LEMMA HandSame ==
    ASSUME NEW p \in Processes, Others(p),
           job'[p].step \in Taking <=> job[p].step \in Taking,
           job'[p].step = "write" <=> job[p].step = "write",
           job[p].step \in Taking => job'[p].result = job[p].result
    PROVE  Hand' = Hand /\ Fitting' = Fitting
  <1>1. ASSUME NEW q \in Processes
        PROVE  /\ job'[q].step \in Taking <=> job[q].step \in Taking
               /\ job'[q].step = "write" <=> job[q].step = "write"
               /\ job[q].step \in Taking => job'[q].result = job[q].result
    BY DEF Others
  <1> QED
    BY <1>1 DEF Hand, Fitting

LEMMA HandDrops ==
    ASSUME NEW p \in Processes, Others(p), job'[p].step \notin Taking
    PROVE  Hand' = [Hand EXCEPT ![p] = Nothing] /\ Fitting' = Fitting \ {p}
  <1>1. job'[p].step # "write"
    BY DEF Taking
  <1> QED
    BY <1>1 DEF Hand, Fitting, Others

LEMMA HandTakes ==
    ASSUME NEW p \in Processes, Others(p),
           job[p].step \notin Taking, job'[p].step = "read_bundle"
    PROVE  /\ Hand[p] = Nothing /\ Hand' = [Hand EXCEPT ![p] = job'[p].result]
           /\ Fitting' = Fitting
  BY DEF Hand, Fitting, Others, Taking

LEMMA HandFits ==
    ASSUME NEW p \in Processes, Others(p), job'[p].result = job[p].result,
           job[p].step = "compare", job'[p].step = "write"
    PROVE  /\ Hand[p] = job[p].result /\ Hand' = Hand
           /\ p \notin Fitting /\ Fitting' = Fitting \cup {p}
  BY DEF Hand, Fitting, Others, Taking

\* A step that gives evidence to nobody is nothing to Authority, or leaves a result.
LEMMA StillPromised ==
    ASSUME IInv, Still, UNCHANGED << source, integrated >>,
           NEW p \in Processes, Others(p),
           job'[p].step \in Taking =>
               /\ job[p].step \in Seeking /\ job'[p].step \in Seeking
               /\ job'[p].result = job[p].result
    PROVE  Promised
  <1>1. GoneSet' = GoneSet
    BY DEF GoneSet, Still
  <1>2. UNCHANGED Authority!kept
    BY <1>1 DEF Authority!kept, GoneSet, Gone, Still, evidence
  <1>3. CASE job'[p].step \in Taking
    <2>1. Hand' = Hand /\ Fitting' = Fitting
      BY <1>3, HandSame DEF Seeking, Taking
    <2> QED
      BY <1>2, <2>1 DEF Promised, Authority!integrations, Hand, Fitting, Taking
  <1>4. CASE job'[p].step \notin Taking
    <2>1. Hand' = [Hand EXCEPT ![p] = Nothing] /\ Fitting' = Fitting \ {p}
      BY <1>4, HandDrops
    <2>2. Authority!LeaveResult(p)
      BY <1>2, <2>1 DEF Authority!LeaveResult, Authority!Drop, Hand, Fitting, Taking
    <2> QED
      BY <2>2 DEF Promised, Authority!AuthorityNext
  <1> QED
    BY <1>3, <1>4

Fixed == Still /\ UNCHANGED << source, integrated >>

LEMMA FixedSafe ==
    ASSUME IInv, IInv', Rightful, Fixed, NEW p \in Processes, Others(p), Honest(p)',
           TakesSealed(p)
    PROVE  Righted
  <1>1. /\ Onward /\ \A i \in Invocations : Evident(i)'
        /\ final' \in [Invocations -> Or(Approvals)]
    BY StillOnward DEF Fixed
  <1>2. integrated' = integrated /\ integrated \subseteq Invocations
    BY DEF Fixed, Rightful
  <1> QED
    BY <1>1, <1>2, Settle

LEMMA GoesOn ==
    ASSUME IInv, IInv', Rightful, Fixed, NEW p \in Processes,
           NEW s \in Steps, NEW t \in Steps, Runs(p, s), Go(p, t),
           t \in Work => s \in Work, t \in Taking => s \in Seeking /\ t \in Seeking,
           t = "finish" => stage'[job[p].inv] \in {"emptied", "complete"}
    PROVE  Righted /\ Promised
  <1>1. Onward /\ \A i \in Invocations : Gone(i)' => plan'[i] = Nothing
    BY StillOnward DEF Evident, Fixed
  <1>2. Honest(p)' /\ Others(p) /\ TakesSealed(p) /\ job'[p].step = t
    BY <1>1, GoHonest DEF Seeking, Taking
  <1>3. job'[p].result = job[p].result
    BY DEF Go, IInv, WideTypes, Jobs
  <1>4. Righted
    BY <1>2, FixedSafe
  <1>5. Promised
    BY <1>2, <1>3, StillPromised DEF Fixed, Runs
  <1> QED
    BY <1>4, <1>5

LEMMA Returns ==
    ASSUME IInv, IInv', Rightful, Fixed, NEW p \in Processes, Return(p)
    PROVE  Righted /\ Promised
  <1>1. Others(p) /\ job'[p] = Idle
    BY ReturnFacts DEF IInv
  <1>2. Honest(p)'
    BY <1>1, IdleHonest
  <1>3. job'[p].step \notin Taking
    BY <1>1, WorkflowAssumption DEF Idle, Taking, Steps
  <1> QED
    BY <1>1, <1>2, <1>3, FixedSafe, StillPromised DEF Fixed, TakesSealed, Seeking, Taking

\* A step that leaves stages, evidence and the tree alone.
LEMMA OnlyIsFixed ==
    ASSUME IInv, UNCHANGED << stage, evidence, source, integrated >>
    PROVE  Fixed
  BY DEF Fixed, Still, IInv, WideTypes, Gone

LEMMA StepNames ==
    /\ Work \subseteq Steps /\ Taking \subseteq Steps /\ Taking \cap Work = {}
    /\ {"review_plan", "read_plan", "review_result", "claim", "empty", "finish"}
         \subseteq Steps \ (Work \cup Taking)
    /\ "create_worktree" \in Work /\ "run" \in Work /\ "seal_result" \in Work
    /\ "read_bundle" \in Seeking /\ "compare" \in Seeking
    /\ Seeking \subseteq Taking /\ "write" \in Taking \ Seeking
  BY DEF Work, Taking, Seeking, Steps

LEMMA GivesUp ==
    ASSUME IInv, IInv', Rightful, Fixed, NEW p \in Processes, NEW s \in Steps,
           Runs(p, s), CleanUp(p)
    PROVE  Righted /\ Promised
  <1>1. "claim" \in Steps \ (Work \cup Taking) /\ "claim" # "finish"
    BY StepNames
  <1> QED
    BY <1>1, GoesOn DEF CleanUp

(***************************************************************************)
(* The steps that Authority does not see, or sees as a result that is left.*)
(***************************************************************************)
LEMMA RunWorkerRight ==
    ASSUME IInv, IInv', Rightful, NEW p \in Processes, RunWorker(p)
    PROVE  Righted /\ Promised
  <1>1. Runs(p, "run") /\ Fixed
    BY OnlyIsFixed DEF RunWorker, Only, SameFiles, SameRest
  <1>2. CASE Go(p, "seal_result")
    BY <1>1, <1>2, StepNames, GoesOn
  <1>3. CASE CleanUp(p)
    BY <1>1, <1>3, StepNames, GivesUp
  <1> QED
    BY <1>2, <1>3 DEF RunWorker, Only

LEMMA CreateWorktreeRight ==
    ASSUME IInv, IInv', Rightful, NEW p \in Processes, CreateWorktree(p)
    PROVE  Righted /\ Promised
  <1>1. Runs(p, "create_worktree") /\ Fixed
    BY OnlyIsFixed DEF CreateWorktree, SameRest
  <1>2. CASE Go(p, "run")
    BY <1>1, <1>2, StepNames, GoesOn
  <1>3. CASE CleanUp(p)
    BY <1>1, <1>3, StepNames, GivesUp
  <1> QED
    BY <1>2, <1>3 DEF CreateWorktree

LEMMA ReadBundleRight ==
    ASSUME IInv, IInv', Rightful, NEW p \in Processes, ReadBundle(p)
    PROVE  Righted /\ Promised
  <1>1. Runs(p, "read_bundle") /\ Fixed
    BY OnlyIsFixed DEF ReadBundle, Only, SameFiles, SameRest
  <1>2. CASE Go(p, "compare")
    BY <1>1, <1>2, StepNames, GoesOn
  <1>3. CASE CleanUp(p)
    BY <1>1, <1>3, StepNames, GivesUp
  <1> QED
    BY <1>2, <1>3 DEF ReadBundle, Only

LEMMA ClaimInvocationRight ==
    ASSUME IInv, IInv', Rightful, NEW p \in Processes, ClaimInvocation(p)
    PROVE  Righted /\ Promised
  <1> DEFINE i == job[p].inv
  <1>1. Runs(p, "claim") /\ UNCHANGED << evidence, source, integrated >>
    BY DEF ClaimInvocation, SameRest
  <1>2. i \in Invocations
    BY <1>1, StepNames, RunFacts
  <1>3. stage' = [stage EXCEPT ![i] = IF @ = "active" THEN "claimed" ELSE @]
    BY DEF ClaimInvocation
  <1>4. Fixed
    BY <1>1, <1>2, <1>3 DEF Fixed, Still, IInv, WideTypes, Gone
  <1>5. CASE Go(p, "empty")
    BY <1>1, <1>4, <1>5, StepNames, GoesOn
  <1>6. CASE stage[i] = "emptied" /\ Go(p, "finish")
    <2>1. stage'[i] = "emptied"
      BY <1>2, <1>3, <1>6 DEF IInv, WideTypes
    <2> QED
      BY <1>1, <1>4, <1>6, <2>1, StepNames, GoesOn
  <1>7. CASE Return(p)
    BY <1>4, <1>7, Returns
  <1> QED
    BY <1>5, <1>6, <1>7 DEF ClaimInvocation

LEMMA FinishInvocationRight ==
    ASSUME IInv, IInv', Rightful, NEW p \in Processes, FinishInvocation(p)
    PROVE  Righted /\ Promised
  <1> DEFINE i == job[p].inv
  <1>1. Runs(p, "finish") /\ UNCHANGED << evidence, source, integrated >> /\ Return(p)
    BY DEF FinishInvocation, SameRest
  <1>2. i \in Invocations
    BY <1>1, StepNames, RunFacts
  <1>3. Gone(i)
    BY <1>1 DEF Rightful, Honest, Holding, Runs
  <1>4. Fixed
    BY <1>1, <1>2, <1>3 DEF FinishInvocation, Fixed, Still, IInv, WideTypes, Gone
  <1> QED
    BY <1>1, <1>4, Returns

LEMMA StopRight ==
    ASSUME IInv, IInv', Rightful, NEW p \in Processes, Stop(p)
    PROVE  Righted /\ Promised
  <1>1. Return(p) /\ Fixed
    BY OnlyIsFixed DEF Stop, SameFiles
  <1> QED
    BY <1>1, Returns

\* Max goes on with what the receipt of its plan says.
LEMMA ReadPlanRight ==
    ASSUME IInv, IInv', Rightful, NEW p \in Processes, ReadPlan(p)
    PROVE  Righted /\ Promised
  <1> DEFINE i == job[p].inv
             q == plan[i]
  <1>1. Runs(p, "read_plan") /\ Fixed
    BY OnlyIsFixed DEF ReadPlan, Only, SameFiles, SameRest
  <1>2. /\ job[p] # Idle /\ i \in Invocations /\ OwnStep(job[p]) /\ job[p] \in Jobs
        /\ job[p].cmd = "max"
    BY <1>1, StepNames, RunFacts DEF OwnStep, Runs, IInv, WideTypes
  <1>3. CASE /\ Present(i) /\ q # Nothing /\ q.task = job[p].task /\ q.source = source
             /\ job' = [job EXCEPT ![p].step = "create_worktree", ![p].source = source]
             /\ UNCHANGED << stage, plan >>
    <2>1. /\ job'[p] = [job[p] EXCEPT !.step = "create_worktree", !.source = source]
          /\ Others(p)
      BY <1>3 DEF IInv, WideTypes, Others
    <2>2. /\ job'[p].cmd = "max" /\ job'[p].inv = i /\ job'[p].task = job[p].task
          /\ job'[p].source = source /\ job'[p].result = job[p].result
          /\ job'[p].step = "create_worktree"
      BY <1>2, <2>1 DEF Jobs
    <2>3. source' = source /\ source \in Nat
      BY <1>1 DEF Fixed, IInv, WideTypes
    <2>4. Dated(p)'
      BY <2>2, <2>3 DEF Rightful, Honest, Dated
    <2>5. Entitled(p)'
      BY <1>3, <2>2 DEF Entitled
    <2>6. Holding(p)'
      BY <2>2 DEF Holding, Taking
    <2>7. job'[p].step \notin Taking
      BY <2>2 DEF Taking
    <2> QED
      BY <1>1, <2>1, <2>4, <2>5, <2>6, <2>7, FixedSafe, StillPromised
         DEF Honest, TakesSealed, Fixed, Seeking, Taking
  <1>4. CASE CleanUp(p)
    BY <1>1, <1>4, StepNames, GivesUp
  <1> QED
    BY <1>3, <1>4 DEF ReadPlan, Only, SameFiles, evidence

LEMMA EditRight ==
    ASSUME IInv, IInv', Rightful, Edit
    PROVE  Promised
  <1>1. source' = source + 1 /\ UNCHANGED << stage, evidence, job, integrated >>
    BY DEF Edit, SameFiles
  <1>2. Hand' = Hand /\ Fitting' = Fitting /\ GoneSet' = GoneSet
    BY <1>1 DEF Hand, Fitting, GoneSet, Gone
  <1>3. Authority!Change
    BY <1>1, <1>2
       DEF Authority!Change, Authority!kept, Authority!integrations, evidence, GoneSet,
           Gone, Hand, Fitting, Taking
  <1> QED
    BY <1>3 DEF Promised, Authority!AuthorityNext

LEMMA EditStaysRight ==
    ASSUME IInv, IInv', Rightful, Edit
    PROVE  Righted
  <1>1. source' = source + 1 /\ UNCHANGED << stage, evidence, job, integrated >>
    BY DEF Edit, SameFiles
  <1>2. Still
    BY <1>1 DEF Still, IInv, WideTypes, Gone
  <1>3. /\ Onward /\ \A i \in Invocations : Evident(i)'
        /\ final' \in [Invocations -> Or(Approvals)]
    BY <1>2, StillOnward
  <1>4. ASSUME NEW q \in Processes PROVE Honest(q)'
    <2>1. job' = [job EXCEPT ![q] = @] /\ Others(q)
      BY <1>1 DEF IInv, WideTypes, Others
    <2>2. CASE job[q] = Idle
      BY <1>1, <2>2, IdleHonest
    <2>3. CASE job[q] # Idle
      <3>1. job[q].inv \in Invocations /\ Honest(q)
        BY <2>3 DEF IInv, WideTypes, Loaded, Rightful
      <3>2. job[q].step = "finish" => Gone(job[q].inv)'
        BY <1>1, <3>1 DEF Honest, Holding, Gone
      <3>3. plan'[job[q].inv] = plan[job[q].inv]
        BY <1>1 DEF evidence
      <3> QED
        BY <1>1, <1>3, <2>3, <3>1, <3>2, <3>3, StayHonest DEF Evident
    <2> QED
      BY <2>2, <2>3
  <1>5. ASSUME NEW i \in Invocations, Spent(i) PROVE Spent(i)'
    <2>1. Spent(i) /\ i \in Invocations
      BY <1>5
    <2>2. result[i] # Nothing => result[i].source \in Nat
      BY <2>1 DEF IInv, WideTypes, Or, Results
    <2>3. \A q \in Processes : job[q].step \in Seeking => job[q].result.source \in Nat
      BY StepNames DEF Rightful, Honest, Holding, IInv, WideTypes, Jobs, Or, Results
    <2>4. source \in Nat
      BY DEF IInv, WideTypes
    <2> QED
      BY <1>1, <2>1, <2>2, <2>3, <2>4 DEF Spent, Gone, evidence
  <1>6. integrated' = integrated /\ integrated \subseteq Invocations
    BY <1>1 DEF Rightful
  <1> QED
    BY <1>3, <1>4, <1>5, <1>6 DEF Rightful, Righted

(***************************************************************************)
(* The steps that seal something.                                          *)
(***************************************************************************)
LEMMA ApprovePlanRight ==
    ASSUME IInv, IInv', Rightful, NEW p \in Processes, Runs(p, "review_plan"),
           ApprovePlan(p)
    PROVE  Righted /\ Promised
  <1>1. PICK i : i = job[p].inv
    OBVIOUS
  <1>2. /\ job[p] # Idle /\ i \in Invocations /\ OwnStep(job[p]) /\ Loaded(job[p])
        /\ job[p].cmd = "plan_review" /\ Honest(p)
    BY <1>1, StepNames, RunFacts DEF OwnStep, Runs, Rightful
  <1>3. PICK t \in Tasks, v \in Nat, m \in Models, r \in Models :
            t = job[p].task /\ v = job[p].source /\ m = job[p].main /\ r = job[p].reviewer
    BY <1>2, IdleFacts DEF Loaded
  <1>4. source \in Nat /\ v \in 0..source /\ r # m
    <2>1. v # Nothing => v <= source
      BY <1>2, <1>3 DEF Honest, Dated
    <2> QED
      BY <1>2, <1>3, <2>1, WorkflowAssumption DEF Honest, Entitled, IInv, WideTypes
  <1> DEFINE q == [inv |-> i, task |-> t, source |-> v, main |-> m, reviewer |-> r]
  <1>5. /\ Present(i) /\ plan[i] = Nothing /\ result[i] = Nothing
        /\ plan' = [plan EXCEPT ![i] = q] /\ plan'[i] = q /\ q # Nothing
        /\ \A k \in Invocations : k # i => plan'[k] = plan[k]
        /\ Return(p)
        /\ UNCHANGED << stage, result, final, source, integrated >>
    <2>1. q \in Plans
      BY <1>2, <1>3 DEF Plans
    <2>2. q # Nothing
      BY <2>1, WorkflowAssumption DEF Plans
    <2>3. result[i] = Nothing
      BY <1>1, <1>2 DEF IInv, Unplanned
    <2>4. Present(i) /\ plan[i] = Nothing /\ plan' = [plan EXCEPT ![i] = q]
      BY <1>1, <1>3 DEF ApprovePlan
    <2> QED
      BY <1>2, <2>2, <2>3, <2>4 DEF ApprovePlan, SameRest, IInv, WideTypes
  <1>6. Others(p) /\ job'[p] = Idle
    BY <1>5, ReturnFacts DEF IInv
  <1>7. ~Gone(i) /\ stage[i] # "none"
    BY <1>5 DEF Gone, Present
  <1>8. Onward
    <2>1. \A u \in Processes : ~(job[u].cmd = "lite" /\ job[u].inv = i)
      BY <1>1, <1>2 DEF IInv, OneCreator, Creators
    <2> QED
      BY <1>4, <1>5, <2>1 DEF Onward, Gone, Present
  <1>9. Righted
    <2>1. ASSUME NEW k \in Invocations PROVE Evident(k)'
      <3>1. Evident(k)
        BY DEF Rightful
      <3> QED
        BY <1>4, <1>5, <1>7, <3>1 DEF Evident, Gone
    <2>2. Honest(p)' /\ TakesSealed(p)
      BY <1>6, IdleHonest, WorkflowAssumption DEF TakesSealed, Idle, Seeking, Steps
    <2>3. integrated' \subseteq Invocations /\ integrated' = integrated
      BY <1>5 DEF Rightful
    <2>4. final' \in [Invocations -> Or(Approvals)]
      BY <1>5 DEF Rightful
    <2> QED
      BY <1>6, <1>8, <2>1, <2>2, <2>3, <2>4, Settle
  <1>10. Authority!ApprovePlan(i, t, v, m, r)
    <2>1. Hand' = Hand /\ Fitting' = Fitting
      BY <1>6, HandSame, WorkflowAssumption DEF Runs, Idle, Taking, Steps
    <2> QED
      BY <1>4, <1>5, <1>7, <2>1
         DEF Authority!ApprovePlan, Authority!integrations, Gone, Hand, Fitting, Taking
  <1>11. Authority!AuthorityNext
    BY <1>2, <1>4, <1>10 DEF Authority!AuthorityNext
  <1> QED
    BY <1>9, <1>11 DEF Promised

LEMMA ReviewPlanRight ==
    ASSUME IInv, IInv', Rightful, NEW p \in Processes, ReviewPlan(p)
    PROVE  Righted /\ Promised
  <1>1. Runs(p, "review_plan")
    BY DEF ReviewPlan
  <1>2. CASE ApprovePlan(p)
    BY <1>1, <1>2, ApprovePlanRight
  <1>3. CASE Only(CleanUp(p))
    BY <1>1, <1>3, StepNames, GivesUp, OnlyIsFixed DEF Only, SameFiles, SameRest
  <1> QED
    BY <1>2, <1>3 DEF ReviewPlan

LEMMA SealResultRight ==
    ASSUME IInv, IInv', Rightful, NEW p \in Processes, SealResult(p)
    PROVE  Righted /\ Promised
  <1>1. PICK i : i = job[p].inv
    OBVIOUS
  <1>2. Runs(p, "seal_result")
    BY DEF SealResult
  <1>3. /\ job[p] # Idle /\ i \in Invocations /\ OwnStep(job[p]) /\ Loaded(job[p])
        /\ job[p].cmd \in {"lite", "max"} /\ Honest(p)
        /\ job[p].task \in Tasks /\ job[p].source \in Nat
    BY <1>1, <1>2, StepNames, RunFacts DEF Runs, Rightful, Loaded
  <1>4. PICK c \in {"lite", "max"}, t \in Tasks, v \in Nat :
            c = job[p].cmd /\ t = job[p].task /\ v = job[p].source
    BY <1>3
  <1> DEFINE r == [inv |-> i, mode |-> c, task |-> t, source |-> v]
  <1>5. CASE /\ Present(i) /\ result[i] = Nothing
             /\ result' = [result EXCEPT ![i] = r]
             /\ Return(p)
             /\ UNCHANGED << stage, plan, final, source, integrated >>
    <2>1. r \in Results /\ r # Nothing
      BY <1>3, <1>4, WorkflowAssumption DEF Results
    <2>2. result'[i] = r /\ \A k \in Invocations : k # i => result'[k] = result[k]
      BY <1>3, <1>5 DEF IInv, WideTypes
    <2>3. source \in Nat /\ v \in 0..source
      <3>1. v # Nothing => v <= source
        BY <1>3, <1>4 DEF Honest, Dated
      <3> QED
        BY <3>1, WorkflowAssumption DEF IInv, WideTypes
    <2>4. \/ c = "lite" /\ plan[i] = Nothing
          \/ /\ c = "max" /\ plan[i] # Nothing
             /\ plan[i].task = t /\ plan[i].source = v
      <3>1. job[p].step \in Work
        BY <1>2, StepNames DEF Runs
      <3> QED
        BY <1>1, <1>3, <1>4, <1>5, <3>1 DEF Honest, Entitled
    <2>5. ~Gone(i) /\ stage[i] # "none"
      BY <1>5 DEF Gone, Present
    <2>6. Others(p) /\ job'[p] = Idle
      BY <1>5, ReturnFacts DEF IInv
    <2>7. Onward
      BY <1>5, <2>2, <2>3 DEF Onward, Gone, Present
    <2>8. Righted
      <3>1. ASSUME NEW k \in Invocations PROVE Evident(k)'
        <4>1. Evident(k)
          BY DEF Rightful
        <4>2. final[k] # Nothing => final[k] \in Approvals
          BY DEF Rightful, Or
        <4>3. k = i => final[k] = Nothing
          BY <1>5, <4>1, <4>2, <2>1, WorkflowAssumption DEF Evident, Approvals, Results
        <4> QED
          BY <1>5, <2>2, <2>3, <2>4, <2>5, <4>1, <4>3 DEF Evident, Gone
      <3>2. Honest(p)' /\ TakesSealed(p)
        BY <2>6, IdleHonest, WorkflowAssumption DEF TakesSealed, Idle, Seeking, Steps
      <3>3. integrated' \subseteq Invocations /\ integrated' = integrated
        BY <1>5 DEF Rightful
      <3>4. final' \in [Invocations -> Or(Approvals)]
        BY <1>5 DEF Rightful
      <3> QED
        BY <2>6, <2>7, <3>1, <3>2, <3>3, <3>4, Settle
    <2>9. Authority!SealResult(i, c, t, v)
      <3>1. Hand' = Hand /\ Fitting' = Fitting
        BY <1>2, <2>6, HandSame, WorkflowAssumption DEF Runs, Idle, Taking, Steps
      <3> QED
        BY <1>5, <2>4, <2>5, <3>1
           DEF Authority!SealResult, Authority!integrations, Gone, Hand, Fitting, Taking
    <2>10. Authority!AuthorityNext
      BY <1>3, <2>3, <2>9 DEF Authority!AuthorityNext
    <2> QED
      BY <2>8, <2>10 DEF Promised
  <1>6. CASE Only(CleanUp(p))
    BY <1>2, <1>6, StepNames, GivesUp, OnlyIsFixed DEF Only, SameFiles, SameRest
  <1> QED
    BY <1>1, <1>4, <1>5, <1>6 DEF SealResult, SameRest

LEMMA ReviewResultRight ==
    ASSUME IInv, IInv', Rightful, NEW p \in Processes, ReviewResult(p)
    PROVE  Righted /\ Promised
  <1>1. PICK i : i = job[p].inv
    OBVIOUS
  <1>2. Runs(p, "review_result")
    BY DEF ReviewResult
  <1>3. /\ job[p] # Idle /\ i \in Invocations /\ OwnStep(job[p]) /\ Honest(p)
        /\ job[p].cmd = "review"
    BY <1>1, <1>2, StepNames, RunFacts DEF OwnStep, Runs, Rightful
  <1>4. PICK m \in Models, r \in Models : m = job[p].main /\ r = job[p].reviewer
    BY <1>3 DEF Honest, Entitled
  <1> DEFINE a == [result |-> result[i], main |-> m, reviewer |-> r]
  <1>5. CASE /\ StillReviewed(job[p]) /\ final[i] = Nothing
             /\ final' = [final EXCEPT ![i] = a]
             /\ Return(p)
             /\ UNCHANGED << stage, plan, result, source, integrated >>
    <2>1. /\ Present(i) /\ result[i] # Nothing /\ result[i] \in Results
          /\ Authorised(i, m, r)
      BY <1>1, <1>3, <1>4, <1>5
         DEF StillReviewed, Honest, Entitled, IInv, WideTypes, Or
    <2>2. a \in Approvals
      BY <2>1 DEF Approvals
    <2>3. /\ final' \in [Invocations -> Or(Approvals)] /\ final'[i] = a
          /\ \A k \in Invocations : k # i => final'[k] = final[k]
      BY <1>3, <1>5, <2>2 DEF Rightful, Or
    <2>4. IF plan[i] = Nothing THEN r = m
            ELSE r = plan[i].reviewer /\ m = plan[i].main
      BY <1>3, <2>1 DEF Authorised, Rightful, Evident, Results
    <2>5. ~Gone(i) /\ stage[i] # "none"
      BY <2>1 DEF Gone, Present
    <2>6. Others(p) /\ job'[p] = Idle
      BY <1>5, ReturnFacts DEF IInv
    <2>7. Onward
      BY <1>5 DEF Onward, Gone, Present, IInv, WideTypes
    <2>8. Righted
      <3>1. ASSUME NEW k \in Invocations PROVE Evident(k)'
        <4>1. Evident(k)
          BY DEF Rightful
        <4> QED
          BY <1>5, <2>3, <2>5, <4>1 DEF Evident, Gone
      <3>2. Honest(p)' /\ TakesSealed(p)
        BY <2>6, IdleHonest, WorkflowAssumption DEF TakesSealed, Idle, Seeking, Steps
      <3>3. integrated' \subseteq Invocations /\ integrated' = integrated
        BY <1>5 DEF Rightful
      <3> QED
        BY <2>3, <2>6, <2>7, <3>1, <3>2, <3>3, Settle
    <2>9. Authority!ApproveResult(i, m, r)
      <3>1. Hand' = Hand /\ Fitting' = Fitting
        BY <1>2, <2>6, HandSame, WorkflowAssumption DEF Runs, Idle, Taking, Steps
      <3> QED
        BY <1>5, <2>1, <2>4, <3>1
           DEF Authority!ApproveResult, Authority!integrations, Hand, Fitting, Taking
    <2>10. Authority!AuthorityNext
      BY <1>3, <2>9 DEF Authority!AuthorityNext
    <2> QED
      BY <2>8, <2>10 DEF Promised
  <1>6. CASE Only(Return(p))
    BY <1>6, Returns, OnlyIsFixed DEF Only, SameFiles, SameRest
  <1> QED
    BY <1>1, <1>4, <1>5, <1>6 DEF ReviewResult, ApproveResult, SameRest

(***************************************************************************)
(* The integration.                                                        *)
(***************************************************************************)
\* An integration that finds its result to fit the tree found none that did before.
LEMMA CompareRight ==
    ASSUME IInv, IInv', Rightful, NEW p \in Processes, Compare(p)
    PROVE  Righted /\ Promised
  <1>1. PICK i, r : i = job[p].inv /\ r = job[p].result
    OBVIOUS
  <1>2. Runs(p, "compare") /\ Fixed
    BY OnlyIsFixed DEF Compare, Only, SameFiles, SameRest
  <1>3. job[p] # Idle /\ i \in Invocations /\ Honest(p)
    BY <1>1, <1>2, StepNames, RunFacts DEF Rightful
  <1>4. r # Nothing /\ r \in Results /\ r.inv = i
    BY <1>1, <1>2, <1>3, StepNames
       DEF Honest, Dated, Holding, Runs, IInv, WideTypes, Jobs, Or
  <1>5. CASE CleanUp(p)
    BY <1>2, <1>5, StepNames, GivesUp
  <1>6. CASE source = r.source /\ Go(p, "write")
    <2>1. Onward /\ \A k \in Invocations : Gone(k)' => plan'[k] = Nothing
      BY <1>2, StillOnward DEF Evident, Fixed
    <2>2. Honest(p)' /\ Others(p) /\ TakesSealed(p) /\ job'[p].step = "write"
      BY <1>2, <1>6, <2>1, StepNames, GoHonest
    <2>3. job'[p].result = job[p].result
      BY <1>6 DEF Go, IInv, WideTypes, Jobs
    <2>4. Righted
      BY <1>2, <2>2, FixedSafe
    <2>5. i \notin integrated
      <3>1. ~Spent(i)
        <4>1. ASSUME Spent(i) PROVE r.source < source
          BY <1>1, <1>2, <4>1, StepNames DEF Spent, Runs
        <4> QED
          BY <1>4, <1>6, <4>1 DEF Results
      <3> QED
        BY <1>3, <3>1 DEF Rightful
    <2>6. GoneSet' = GoneSet
      BY <1>2 DEF GoneSet, Fixed, Still
    <2>7. UNCHANGED Authority!kept
      BY <1>2, <2>6 DEF Authority!kept, GoneSet, Gone, Fixed, Still, evidence
    <2>8. /\ Hand[p] = r /\ Hand' = Hand
          /\ p \notin Fitting /\ Fitting' = Fitting \cup {p}
      BY <1>1, <1>2, <2>2, <2>3, HandFits DEF Runs
    <2>9. Authority!FitResult(p)
      BY <1>2, <1>4, <1>6, <2>5, <2>7, <2>8
         DEF Authority!FitResult, Hand, Fitting, Taking, Fixed
    <2>10. Authority!AuthorityNext
      BY <2>9 DEF Authority!AuthorityNext
    <2> QED
      BY <2>4, <2>10 DEF Promised
  <1> QED
    BY <1>1, <1>5, <1>6 DEF Compare, Only

\* A result that changed the tree is older than the tree, whatever the tree was.
LEMMA WriteSpends ==
    ASSUME IInv, Rightful, NEW p \in Processes, Write(p), NEW i, i = job[p].inv,
           source' = source + 1
    PROVE  i \in Invocations /\ Spent(i)'
  <1>1. /\ Runs(p, "write") /\ CleanUp(p) /\ UNCHANGED << stage, evidence >>
        /\ source \in Nat
    BY DEF Write, SameFiles, IInv, WideTypes
  <1>2. /\ job[p] # Idle /\ i \in Invocations /\ Honest(p)
    BY <1>1, StepNames, RunFacts DEF Rightful
  <1>3. Gone(i) \/ result[i] # Nothing
    BY <1>1, <1>2, StepNames DEF Honest, Holding, Runs
  <1>4. job'[p].step = "claim" /\ Others(p)
    BY <1>1 DEF CleanUp, Go, Others, IInv, WideTypes, Jobs
  <1>5. ASSUME NEW q \in Processes, job'[q].inv = i, job'[q].step \in Seeking
        PROVE  job'[q].result.source < source'
    <2>1. job'[q] = job[q]
      BY <1>4, <1>5, StepNames DEF Others
    <2>2. Honest(q) /\ job[q].result # Nothing /\ job[q].result \in Results
      BY <1>5, <2>1, StepNames
         DEF Rightful, Honest, Holding, IInv, WideTypes, Jobs, Or
    <2>3. job[q].result.source <= source
      BY <2>2 DEF Honest, Dated
    <2> QED
      BY <1>1, <2>1, <2>2, <2>3 DEF Results
  <1>6. Gone(i)' \/ result'[i] # Nothing
    BY <1>1, <1>3 DEF Gone, evidence
  <1>7. result'[i] # Nothing => result'[i].source < source'
    <2>1. Evident(i) /\ (result[i] # Nothing => result[i] \in Results)
      BY <1>2 DEF Rightful, IInv, WideTypes, Or
    <2>2. result[i] # Nothing => result[i].source <= source /\ result[i].source \in Nat
      BY <2>1 DEF Evident, Results
    <2> QED
      BY <1>1, <2>2 DEF evidence
  <1> QED
    BY <1>2, <1>5, <1>6, <1>7 DEF Spent

LEMMA WriteRight ==
    ASSUME IInv, IInv', Rightful, NEW p \in Processes, Write(p)
    PROVE  Righted /\ Promised
  <1>1. PICK i, r : i = job[p].inv /\ r = job[p].result
    OBVIOUS
  <1>2. Runs(p, "write") /\ CleanUp(p) /\ UNCHANGED << stage, evidence >>
    BY DEF Write, SameFiles
  <1>3. /\ job[p] # Idle /\ i \in Invocations /\ Honest(p)
    BY <1>1, <1>2, StepNames, RunFacts DEF Rightful
  <1>4. r.inv = i
    BY <1>1, <1>2, <1>3, StepNames DEF Honest, Dated, Holding, Runs
  <1>5. CASE UNCHANGED << source, integrated >>
    BY <1>2, <1>5, StepNames, GivesUp, OnlyIsFixed
  <1>6. CASE source' = source + 1 /\ integrated' = integrated \cup {i}
    <2>1. Still
      BY <1>2, <1>6 DEF Still, IInv, WideTypes, Gone
    <2>2. /\ Onward /\ \A k \in Invocations : Evident(k)'
          /\ final' \in [Invocations -> Or(Approvals)]
      BY <2>1, StillOnward
    <2>3. /\ Honest(p)' /\ Others(p) /\ TakesSealed(p) /\ job'[p].step = "claim"
      <3>1. /\ "claim" \in Steps \ (Work \cup Taking) /\ "claim" # "finish"
            /\ "claim" \notin Seeking /\ "write" \in Steps
        BY StepNames
      <3> QED
        BY <1>2, <2>2, <3>1, GoHonest DEF CleanUp, Evident
    <2>4. Righted
      <3>1. Spent(i)'
        BY <1>1, <1>6, WriteSpends
      <3>2. /\ integrated' \subseteq Invocations
            /\ \A k \in integrated' : k \in integrated \/ Spent(k)'
        BY <1>3, <1>6, <3>1 DEF Rightful
      <3> QED
        BY <2>2, <2>3, <3>2, Settle
    <2>5. UNCHANGED Authority!kept
      BY <1>2 DEF Authority!kept, evidence, Gone
    <2>6. /\ Hand[p] = r /\ p \in Fitting
          /\ Hand' = [Hand EXCEPT ![p] = Nothing] /\ Fitting' = Fitting \ {p}
      <3>1. job'[p].step \notin Taking /\ job[p].step \in Taking
        BY <1>2, <2>3, StepNames DEF Runs
      <3> QED
        BY <1>1, <1>2, <2>3, <3>1, HandDrops DEF Hand, Fitting, Runs
    <2>7. Authority!IntegrateResult(p)
      BY <1>4, <1>6, <2>5, <2>6
         DEF Authority!IntegrateResult, Authority!Drop, Hand, Fitting, Taking
    <2>8. Authority!AuthorityNext
      BY <2>7 DEF Authority!AuthorityNext
    <2> QED
      BY <2>4, <2>8 DEF Promised
  <1> QED
    BY <1>1, <1>5, <1>6 DEF Write

(***************************************************************************)
(* The cleanup.                                                            *)
(***************************************************************************)
LEMMA EmptyInvocationRight ==
    ASSUME IInv, IInv', Rightful, NEW p \in Processes, EmptyInvocation(p)
    PROVE  Righted /\ Promised
  <1>1. PICK i : i = job[p].inv
    OBVIOUS
  <1>2. Runs(p, "empty") /\ UNCHANGED << source, integrated >>
    BY DEF EmptyInvocation, SameRest
  <1>3. job[p] # Idle /\ i \in Invocations
    BY <1>1, <1>2, StepNames, RunFacts
  <1>4. CASE /\ stage[i] = "claimed"
             /\ stage' = [stage EXCEPT ![i] = "emptied"]
             /\ plan' = [plan EXCEPT ![i] = Nothing]
             /\ result' = [result EXCEPT ![i] = Nothing]
             /\ final' = [final EXCEPT ![i] = Nothing]
             /\ Go(p, "finish")
    <2>1. /\ stage'[i] = "emptied" /\ plan'[i] = Nothing
          /\ result'[i] = Nothing /\ final'[i] = Nothing
          /\ \A k \in Invocations : k # i =>
                 /\ stage'[k] = stage[k] /\ plan'[k] = plan[k]
                 /\ result'[k] = result[k] /\ final'[k] = final[k]
          /\ final' \in [Invocations -> Or(Approvals)]
      BY <1>3, <1>4 DEF IInv, WideTypes, Rightful, Or
    <2>2. Onward
      BY <1>2, <2>1 DEF Onward, Gone, Present, IInv, WideTypes
    <2>3. ASSUME NEW k \in Invocations PROVE Evident(k)'
      <3>1. Evident(k)
        BY DEF Rightful
      <3> QED
        BY <1>2, <2>1, <3>1 DEF Evident, Gone
    <2>4. Honest(p)' /\ Others(p) /\ TakesSealed(p) /\ job'[p].step = "finish"
      <3>1. /\ "finish" \in Steps \ (Work \cup Taking) /\ "finish" \notin Seeking
            /\ "empty" \in Steps
        BY StepNames
      <3>2. stage'[job[p].inv] \in {"emptied", "complete"}
        BY <1>1, <2>1
      <3> QED
        BY <1>2, <1>4, <2>2, <2>3, <3>1, <3>2, GoHonest DEF Evident
    <2>5. integrated' = integrated /\ integrated \subseteq Invocations
      BY <1>2 DEF Rightful
    <2>6. Righted
      BY <2>1, <2>2, <2>3, <2>4, <2>5, Settle
    <2>7. Hand' = Hand /\ Fitting' = Fitting
      BY <1>2, <2>4, HandSame DEF Runs, Taking
    <2>8. GoneSet' = GoneSet \cup {i}
      BY <1>3, <2>1 DEF GoneSet, Gone
    <2>9. Authority!Discard(i)
      BY <1>2, <1>4, <2>7, <2>8
         DEF Authority!Discard, Authority!integrations, Hand, Fitting, Taking, GoneSet, Gone
    <2>10. Authority!AuthorityNext
      BY <1>3, <2>9 DEF Authority!AuthorityNext
    <2> QED
      BY <2>6, <2>10 DEF Promised
  <1>5. CASE Return(p) /\ SameFiles
    BY <1>2, <1>5, Returns, OnlyIsFixed DEF SameFiles
  <1> QED
    BY <1>1, <1>4, <1>5 DEF EmptyInvocation

(***************************************************************************)
(* The start of a command.                                                 *)
(***************************************************************************)
\* What create_invocation_resources gives a command.
LEMMA CreateFacts ==
    ASSUME IInv, IInv', NEW p \in Processes, NEW c \in Commands, NEW i \in Invocations,
           NEW s \in Steps, NEW l \in Jobs, Create(p, c, i, s, l)
    PROVE  /\ job[p] = Idle /\ Fixed /\ Others(p) /\ plan'[i] = Nothing
           /\ source' = source /\ source \in Nat
           /\ job'[p].cmd = c /\ job'[p].inv = i /\ job'[p].step = s
           /\ job'[p].main = l.main /\ job'[p].reviewer = l.reviewer
           /\ job'[p].source = source /\ job'[p].result = l.result
  <1>1. /\ job[p] = Idle /\ stage[i] = "none" /\ stage' = [stage EXCEPT ![i] = "active"]
        /\ UNCHANGED << evidence, source, integrated >>
        /\ job' = [job EXCEPT ![p] = [[l EXCEPT !.source = source]
                                         EXCEPT !.cmd = c, !.inv = i, !.step = s]]
    BY DEF Create, SameRest, evidence, Start
  <1>2. Fixed
    BY <1>1 DEF Fixed, Still, Gone, IInv, WideTypes
  <1>3. plan'[i] = Nothing
    BY <1>1 DEF IInv, Unplanned, evidence
  <1>4. source \in Nat
    BY DEF IInv, WideTypes
  <1>5. /\ job'[p] = [[l EXCEPT !.source = source]
                         EXCEPT !.cmd = c, !.inv = i, !.step = s]
        /\ Others(p)
    BY <1>1 DEF IInv, WideTypes, Others
  <1>6. /\ job'[p].cmd = c /\ job'[p].inv = i /\ job'[p].step = s
        /\ job'[p].main = l.main /\ job'[p].reviewer = l.reviewer
        /\ job'[p].source = source /\ job'[p].result = l.result
    BY <1>5 DEF Jobs
  <1> QED
    BY <1>1, <1>2, <1>3, <1>4, <1>5, <1>6

\* What load_invocation_resources gives a command.
LEMMA LoadFacts ==
    ASSUME IInv, IInv', NEW p \in Processes, NEW c \in Commands, NEW i \in Invocations,
           NEW s \in Steps, NEW l \in Jobs, Load(p, c, i, s, l)
    PROVE  /\ job[p] = Idle /\ Fixed /\ Others(p)
           /\ UNCHANGED << source, stage, evidence, integrated >>
           /\ job'[p].cmd = c /\ job'[p].inv = i /\ job'[p].step = s
           /\ job'[p].main = l.main /\ job'[p].reviewer = l.reviewer
           /\ job'[p].source = l.source /\ job'[p].result = l.result
  <1>1. /\ job[p] = Idle
        /\ UNCHANGED << stage, evidence, source, integrated >>
        /\ job' = [job EXCEPT ![p] = [l EXCEPT !.cmd = c, !.inv = i, !.step = s]]
    BY DEF Load, Only, SameFiles, SameRest, Start
  <1>2. Fixed
    BY <1>1, OnlyIsFixed
  <1>3. /\ job'[p] = [l EXCEPT !.cmd = c, !.inv = i, !.step = s]
        /\ Others(p)
    BY <1>1 DEF IInv, WideTypes, Others
  <1>4. /\ job'[p].cmd = c /\ job'[p].inv = i /\ job'[p].step = s
        /\ job'[p].main = l.main /\ job'[p].reviewer = l.reviewer
        /\ job'[p].source = l.source /\ job'[p].result = l.result
    BY <1>3 DEF Jobs
  <1> QED
    BY <1>1, <1>2, <1>3, <1>4

LEMMA LiteWorkerRight ==
    ASSUME IInv, IInv', Rightful, NEW p \in Processes, NEW i \in Invocations,
           NEW t \in Tasks, LiteWorker(p, i, t)
    PROVE  Righted /\ Promised
  <1> DEFINE l == [Idle EXCEPT !.task = t]
  <1>1. l \in Jobs /\ l.result = Nothing
    BY DEF Idle, Jobs, Or
  <1>2. "lite" \in Commands /\ "create_worktree" \in Steps
    BY DEF Commands, Steps
  <1>3. Create(p, "lite", i, "create_worktree", l)
    BY DEF LiteWorker
  <1> HIDE DEF l
  <1>4. /\ job[p] = Idle /\ Fixed /\ Others(p) /\ plan'[i] = Nothing
        /\ source' = source /\ source \in Nat
        /\ job'[p].cmd = "lite" /\ job'[p].inv = i /\ job'[p].step = "create_worktree"
        /\ job'[p].source = source /\ job'[p].result = Nothing
    BY <1>1, <1>2, <1>3, CreateFacts
  <1>5. Honest(p)' /\ job'[p].step \notin Taking
    BY <1>4 DEF Honest, Dated, Entitled, Holding, Taking
  <1> QED
    BY <1>4, <1>5, FixedSafe, StillPromised
       DEF Fixed, TakesSealed, Seeking, Taking

LEMMA PlanReviewRight ==
    ASSUME IInv, IInv', Rightful, NEW p \in Processes, NEW i \in Invocations,
           NEW t \in Tasks, NEW m \in Models, NEW r \in Models, PlanReview(p, i, t, m, r)
    PROVE  Righted /\ Promised
  <1> DEFINE l == [Idle EXCEPT !.task = t, !.main = m, !.reviewer = r]
  <1>1. l \in Jobs /\ l.result = Nothing /\ l.main = m /\ l.reviewer = r
    BY DEF Idle, Jobs, Or
  <1>2. "plan_review" \in Commands /\ "review_plan" \in Steps
    BY DEF Commands, Steps
  <1>3. Create(p, "plan_review", i, "review_plan", l) /\ r # m
    BY DEF PlanReview
  <1> HIDE DEF l
  <1>4. /\ job[p] = Idle /\ Fixed /\ Others(p) /\ source' = source /\ source \in Nat
        /\ job'[p].cmd = "plan_review" /\ job'[p].inv = i /\ job'[p].step = "review_plan"
        /\ job'[p].main = m /\ job'[p].reviewer = r
        /\ job'[p].source = source /\ job'[p].result = Nothing
    BY <1>1, <1>2, <1>3, CreateFacts
  <1>5. Honest(p)' /\ job'[p].step \notin Taking
    BY <1>3, <1>4 DEF Honest, Dated, Entitled, Holding, Taking
  <1> QED
    BY <1>4, <1>5, FixedSafe, StillPromised
       DEF Fixed, TakesSealed, Seeking, Taking

LEMMA MaxWorkerRight ==
    ASSUME IInv, IInv', Rightful, NEW p \in Processes, NEW i \in Invocations,
           NEW t \in Tasks, MaxWorker(p, i, t)
    PROVE  Righted /\ Promised
  <1> DEFINE l == [Idle EXCEPT !.task = t]
  <1>1. l \in Jobs /\ l.source = Nothing /\ l.result = Nothing
    BY DEF Idle, Jobs, Or
  <1>2. "max" \in Commands /\ "read_plan" \in Steps
    BY DEF Commands, Steps
  <1>3. Load(p, "max", i, "read_plan", l)
    BY DEF MaxWorker
  <1> HIDE DEF l
  <1>4. /\ job[p] = Idle /\ Fixed /\ Others(p)
        /\ job'[p].cmd = "max" /\ job'[p].step = "read_plan"
        /\ job'[p].source = Nothing /\ job'[p].result = Nothing
    BY <1>1, <1>2, <1>3, LoadFacts
  <1>5. Honest(p)' /\ job'[p].step \notin Taking
    BY <1>4 DEF Honest, Dated, Entitled, Holding, Taking, Work
  <1> QED
    BY <1>4, <1>5, FixedSafe, StillPromised
       DEF Fixed, TakesSealed, Seeking, Taking

LEMMA ReviewRight ==
    ASSUME IInv, IInv', Rightful, NEW p \in Processes, NEW i \in Invocations,
           NEW m \in Models, NEW r \in Models, Review(p, i, m, r)
    PROVE  Righted /\ Promised
  <1>1. PICK l \in Jobs :
            l = [Idle EXCEPT !.main = m, !.reviewer = r, !.result = result[i]]
    <2>1. result[i] \in Or(Results)
      BY DEF IInv, WideTypes
    <2> QED
      BY <2>1 DEF Idle, Jobs, Or
  <1>2. l.source = Nothing /\ l.result = result[i] /\ l.main = m /\ l.reviewer = r
    BY <1>1 DEF Idle
  <1>3. "review" \in Commands /\ "review_result" \in Steps
    BY DEF Commands, Steps
  <1>4. Load(p, "review", i, "review_result", l)
    BY <1>1 DEF Review, Load, Start
  <1>5. /\ job[p] = Idle /\ Fixed /\ Others(p) /\ UNCHANGED source
        /\ job'[p].cmd = "review" /\ job'[p].step = "review_result" /\ job'[p].inv = i
        /\ job'[p].source = Nothing /\ job'[p].result = result[i]
        /\ job'[p].main = m /\ job'[p].reviewer = r
    BY <1>2, <1>3, <1>4, LoadFacts
  <1>6. Evident(i) /\ result[i] # Nothing
    BY DEF Rightful, Review
  <1>7. Honest(p)' /\ job'[p].step \notin Taking
    BY <1>5, <1>6 DEF Honest, Dated, Entitled, Holding, Taking, Evident
  <1> QED
    BY <1>5, <1>7, FixedSafe, StillPromised
       DEF Fixed, TakesSealed, Seeking, Taking

LEMMA IntegrateRight ==
    ASSUME IInv, IInv', Rightful, NEW p \in Processes, NEW i \in Invocations,
           Integrate(p, i)
    PROVE  Righted /\ Promised
  <1>1. PICK l \in Jobs : l = [Idle EXCEPT !.result = result[i]]
    <2>1. result[i] \in Or(Results)
      BY DEF IInv, WideTypes
    <2> QED
      BY <2>1 DEF Idle, Jobs, Or
  <1>2. "integrate" \in Commands /\ "read_bundle" \in Steps
        /\ l.source = Nothing /\ l.result = result[i]
    BY <1>1 DEF Commands, Steps, Idle
  <1>3. /\ job[p] = Idle /\ Fixed /\ Others(p)
        /\ UNCHANGED << source, stage, evidence, integrated >>
        /\ job'[p].cmd = "integrate" /\ job'[p].step = "read_bundle"
        /\ job'[p].inv = i /\ job'[p].source = Nothing /\ job'[p].result = result[i]
    <2>1. Load(p, "integrate", i, "read_bundle", l)
      BY <1>1 DEF Integrate, Load, Start
    <2> QED
      BY <1>2, <2>1, LoadFacts
  <1>4. Evident(i) /\ final[i] # Nothing /\ final[i].result = result[i]
    BY DEF Rightful, Integrate
  <1>5. result[i] # Nothing
    <2>1. final[i] \in Approvals
      BY <1>4 DEF Rightful, Or
    <2> QED
      BY <1>4, <2>1, WorkflowAssumption DEF Approvals, Results
  <1>6. Honest(p)'
    BY <1>3, <1>4, <1>5
       DEF Honest, Dated, Entitled, Holding, Evident, evidence, Gone
  <1>7. Righted
    BY <1>3, <1>5, <1>6, FixedSafe DEF TakesSealed, evidence
  <1>8. job[p].step \notin Taking
    BY <1>3, WorkflowAssumption DEF Idle, Taking, Steps
  <1>9. /\ Hand[p] = Nothing /\ Hand' = [Hand EXCEPT ![p] = final[i].result]
        /\ Fitting' = Fitting
    BY <1>3, <1>4, <1>8, HandTakes
  <1>10. Authority!TakeResult(p, i)
    BY <1>3, <1>4, <1>9
       DEF Authority!TakeResult, Authority!kept, evidence, Gone, Hand, Fitting, Taking
  <1>11. Authority!AuthorityNext
    BY <1>10 DEF Authority!AuthorityNext
  <1> QED
    BY <1>7, <1>11 DEF Promised

LEMMA CleanupCommandRight ==
    ASSUME IInv, IInv', Rightful, NEW p \in Processes, NEW i \in Invocations,
           CleanupCommand(p, i)
    PROVE  Righted /\ Promised
  <1>1. "cleanup" \in Commands /\ "claim" \in Steps
    BY DEF Commands, Steps
  <1>2. Idle \in Jobs /\ Idle.source = Nothing /\ Idle.result = Nothing
    BY DEF Idle, Jobs, Or
  <1>3. /\ job[p] = Idle /\ Fixed /\ Others(p)
        /\ job'[p].cmd = "cleanup" /\ job'[p].step = "claim"
        /\ job'[p].source = Nothing /\ job'[p].result = Nothing
    BY <1>1, <1>2, LoadFacts DEF CleanupCommand
  <1>4. Honest(p)' /\ job'[p].step \notin Taking
    BY <1>3 DEF Honest, Dated, Entitled, Holding, Taking, Work
  <1> QED
    BY <1>3, <1>4, FixedSafe, StillPromised
       DEF Fixed, TakesSealed, Seeking, Taking

(***************************************************************************)
(* The refinement.                                                         *)
(***************************************************************************)
LEMMA InitRight == Init => Rightful /\ Authority!AuthorityInit
  <1> SUFFICES ASSUME Init PROVE Rightful /\ Authority!AuthorityInit
    OBVIOUS
  <1>1. /\ Idle.source = Nothing /\ Idle.result = Nothing /\ Idle.cmd = Nothing
        /\ Idle.step = Nothing
        /\ Nothing \notin Commands /\ Nothing \notin Steps
    BY WorkflowAssumption DEF Idle
  <1>2. \A p \in Processes : Honest(p) /\ job[p].step \notin Taking
    BY <1>1 DEF Init, Honest, Dated, Entitled, Holding, Commands, Steps, Taking, Work
  <1>3. Rightful
    BY <1>2 DEF Init, Rightful, Or, Evident, Gone
  <1>4. Authority!AuthorityInit
    BY <1>2 DEF Init, Authority!AuthorityInit, Taking
  <1> QED
    BY <1>3, <1>4

LEMMA StepRight == IInv /\ IInv' /\ Rightful /\ [Next]_vars => Righted /\ Promised
  <1> SUFFICES ASSUME IInv, IInv', Rightful, [Next]_vars PROVE Righted /\ Promised
    OBVIOUS
  <1>1. CASE Edit
    BY <1>1, EditRight, EditStaysRight
  <1>2. ASSUME NEW p \in Processes, Command(p) PROVE Righted /\ Promised
    BY <1>2, LiteWorkerRight, MaxWorkerRight, PlanReviewRight, ReviewRight,
       IntegrateRight, CleanupCommandRight DEF Command
  <1>3. ASSUME NEW p \in Processes, Step(p) PROVE Righted /\ Promised
    BY <1>3, ReviewPlanRight, ReadPlanRight, CreateWorktreeRight, RunWorkerRight,
       SealResultRight, ReviewResultRight, ReadBundleRight, CompareRight, WriteRight,
       ClaimInvocationRight, EmptyInvocationRight, FinishInvocationRight DEF Step
  <1>4. ASSUME NEW p \in Processes, Stop(p) PROVE Righted /\ Promised
    BY <1>4, StopRight
  <1>5. CASE UNCHANGED vars
    <2>1. Righted
      BY <1>5 DEF Righted, vars, evidence, Rightful, Evident, Gone, Honest, Dated, Entitled,
                  Holding, Spent, Present
    <2>2. Promised
      BY <1>5 DEF vars, evidence, Promised, Authority!kept, Authority!integrations, Gone
    <2> QED
      BY <2>1, <2>2
  <1> QED
    BY <1>1, <1>2, <1>3, <1>4, <1>5 DEF Next

LEMMA AlwaysRightful == Spec => [](IInv /\ Rightful)
  <1>1. Init => IInv /\ Rightful
    BY InitSafe, InitRight
  <1>2. IInv /\ Rightful /\ [Next]_vars => (IInv /\ Rightful)'
    BY StepSafe, StepRight DEF Righted
  <1> QED
    BY <1>1, <1>2, PTL DEF Spec

\* Whatever commands run, in whatever order and overlap, and wherever they stop:
\* each change that cli.py makes to receipts, bundles and the user's tree is one that
\* Authority allows, or none.  A result is sealed for the task and the source of its
\* plan, approved by the authority of that plan, and changes the tree only after it
\* was approved and then found by the last comparison of integration.py to be made
\* for the tree as it was; once it has changed the tree no comparison passes it again.
\* What happens between that comparison and git apply is left open.
THEOREM AuthorityImplemented == Spec => ImplementsAuthority
  <1>1. Init => Authority!AuthorityInit
    BY InitRight
  <1>2. IInv /\ Rightful /\ [Next]_vars => Promised
    BY StepSafe, StepRight
  <1> QED
    BY <1>1, <1>2, AlwaysRightful, PTL
       DEF Spec, ImplementsAuthority, Authority!AuthoritySpec, Promised

(***************************************************************************)
(* The types.                                                              *)
(***************************************************************************)
Recorded ==
    /\ worktree \subseteq Invocations /\ left \subseteq Invocations
    /\ events \in 0..MaxEvents

LEMMA RecordedStep ==
    ASSUME IInv, Recorded, [Next]_vars
    PROVE  Recorded'
  <1>1. worktree' \subseteq Invocations
    <2>1. \A p \in Processes : Runs(p, "create_worktree") => job[p].inv \in Invocations
      BY RunFacts, StepNames
    <2>2. ASSUME NEW p \in Processes, Command(p) PROVE worktree' = worktree
      BY <2>2 DEF Command, LiteWorker, MaxWorker, PlanReview, Review, Integrate,
                  CleanupCommand, Create, Load, Only, SameFiles
    <2>3. ASSUME NEW p \in Processes, Step(p) PROVE worktree' \subseteq Invocations
      BY <2>1, <2>3 DEF Recorded, Step, ReviewPlan, ApprovePlan, ReadPlan,
                CreateWorktree, RunWorker, SealResult, ReviewResult, ApproveResult,
                ReadBundle, Compare, Write, ClaimInvocation, EmptyInvocation,
                FinishInvocation, Only, SameFiles
    <2> QED
      BY <2>2, <2>3 DEF Recorded, Next, vars, Edit, Stop, SameFiles
  <1>2. /\ left' \subseteq Invocations /\ events' \in 0..MaxEvents
    <2>1. ASSUME NEW p \in Processes, Command(p) PROVE UNCHANGED << left, events >>
      BY <2>1 DEF Command, LiteWorker, MaxWorker, PlanReview, Review, Integrate,
                  CleanupCommand, Create, Load, Only, SameRest
    <2>2. ASSUME NEW p \in Processes, Step(p) PROVE UNCHANGED << left, events >>
      BY <2>2 DEF Step, ReviewPlan, ApprovePlan, ReadPlan, CreateWorktree, RunWorker,
                SealResult, ReviewResult, ApproveResult, ReadBundle, Compare, Write,
                ClaimInvocation, EmptyInvocation, FinishInvocation, Only, SameRest
    <2>3. ASSUME NEW p \in Processes, Stop(p)
          PROVE  left' \subseteq Invocations /\ events' \in 0..MaxEvents
      <3>1. job[p].inv \in Invocations
        BY <2>3 DEF Stop, IInv, WideTypes, Loaded
      <3> QED
        BY <2>3, <3>1, WorkflowAssumption DEF Stop, Recorded
    <2>4. CASE Edit
      BY <2>4, WorkflowAssumption DEF Edit, Recorded
    <2> QED
      BY <2>1, <2>2, <2>3, <2>4 DEF Recorded, Next, vars
  <1> QED
    BY <1>1, <1>2 DEF Recorded

\* Every variable has its type, whatever the number of processes and invocations.
THEOREM TypeCorrect == Spec => []TypeOK
  <1>1. Init => Recorded
    BY WorkflowAssumption DEF Init, Recorded
  <1>2. IInv /\ Rightful /\ Recorded /\ [Next]_vars => Recorded'
    BY RecordedStep
  <1>3. IInv /\ Rightful /\ Recorded => TypeOK
    BY DEF TypeOK, IInv, WideTypes, Jobs, Rightful, Recorded
  <1> QED
    BY <1>1, <1>2, <1>3, AlwaysRightful, PTL DEF Spec
================================================================================
