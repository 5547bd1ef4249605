------------------------------ MODULE Authority --------------------------------
(***************************************************************************)
(* What a hand-over of work promises, without commands and without files:  *)
(* a plan is approved by a reviewer that is not the main loop; a result is *)
(* sealed for the task and the source of its plan, and approved by the     *)
(* same authority; the user's tree is only changed by a result that was    *)
(* approved, and then found to fit the tree, which was still its source;   *)
(* what has changed the tree is never found to fit it again.  Between the  *)
(* finding and the change nothing is promised: the tree may be another by  *)
(* then, and of two integrations that found theirs to fit both may change  *)
(* it.  A Lite result needs no plan, and the main loop approves it.  All   *)
(* of it may be discarded at any time, and then nothing comes back.        *)
(***************************************************************************)
EXTENDS Naturals

CONSTANTS
    Processes,                      \* those that may integrate at the same time
    Invocations, Tasks, Models, Nothing

VARIABLES
    tree,                  \* version of the user's tree
    plan, result, final,   \* the evidence of each invocation
    hand,                  \* the approved result that each process integrates
    fits,                  \* the processes that found theirs to fit the tree
    integrated,            \* the invocations whose result changed the tree
    gone                   \* those that were discarded

kept == << plan, result, final, gone >>
integrations == << hand, fits >>

\* The source that was captured is the tree of some moment before.
ApprovePlan(i, task, version, main, reviewer) ==
    /\ i \notin gone /\ plan[i] = Nothing /\ result[i] = Nothing
    /\ reviewer # main
    /\ plan' = [plan EXCEPT ![i] = [inv |-> i, task |-> task, source |-> version,
                                    main |-> main, reviewer |-> reviewer]]
    /\ UNCHANGED << tree, result, final, integrations, integrated, gone >>

SealResult(i, mode, task, version) ==
    /\ i \notin gone /\ result[i] = Nothing
    /\ \/ mode = "lite" /\ plan[i] = Nothing
       \/ /\ mode = "max" /\ plan[i] # Nothing
          /\ plan[i].task = task /\ plan[i].source = version
    /\ result' = [result EXCEPT ![i] = [inv |-> i, mode |-> mode, task |-> task,
                                        source |-> version]]
    /\ UNCHANGED << tree, plan, final, integrations, integrated, gone >>

ApproveResult(i, main, reviewer) ==
    /\ result[i] # Nothing /\ final[i] = Nothing
    /\ IF plan[i] = Nothing
         THEN reviewer = main
         ELSE reviewer = plan[i].reviewer /\ main = plan[i].main
    /\ final' = [final EXCEPT ![i] = [result |-> result[i], main |-> main,
                                      reviewer |-> reviewer]]
    /\ UNCHANGED << tree, plan, result, integrations, integrated, gone >>

(***************************************************************************)
(* The integration.                                                        *)
(***************************************************************************)
TakeResult(p, i) ==
    /\ hand[p] = Nothing /\ final[i] # Nothing
    /\ hand' = [hand EXCEPT ![p] = final[i].result]
    /\ UNCHANGED << tree, kept, fits, integrated >>

FitResult(p) ==
    /\ hand[p] # Nothing /\ p \notin fits
    /\ tree = hand[p].source /\ hand[p].inv \notin integrated
    /\ fits' = fits \cup {p}
    /\ UNCHANGED << tree, kept, hand, integrated >>

Drop(p) == hand' = [hand EXCEPT ![p] = Nothing] /\ fits' = fits \ {p}

LeaveResult(p) == Drop(p) /\ UNCHANGED << tree, kept, integrated >>

\* All of the result, or a part of it.
IntegrateResult(p) ==
    /\ p \in fits
    /\ Drop(p)
    /\ tree' = tree + 1
    /\ integrated' = integrated \cup {hand[p].inv}
    /\ UNCHANGED kept

\* The user changes the tree.
Change == tree' = tree + 1 /\ UNCHANGED << kept, integrations, integrated >>

Discard(i) ==
    /\ gone' = gone \cup {i}
    /\ plan' = [plan EXCEPT ![i] = Nothing]
    /\ result' = [result EXCEPT ![i] = Nothing]
    /\ final' = [final EXCEPT ![i] = Nothing]
    /\ UNCHANGED << tree, integrations, integrated >>

AuthorityInit ==
    /\ tree = 0
    /\ plan = [i \in Invocations |-> Nothing]
    /\ result = [i \in Invocations |-> Nothing]
    /\ final = [i \in Invocations |-> Nothing]
    /\ hand = [p \in Processes |-> Nothing] /\ fits = {}
    /\ integrated = {} /\ gone = {}

AuthorityNext ==
    \/ Change
    \/ \E p \in Processes :
           \/ FitResult(p) \/ LeaveResult(p) \/ IntegrateResult(p)
           \/ \E i \in Invocations : TakeResult(p, i)
    \/ \E i \in Invocations :
           \/ Discard(i)
           \/ \E t \in Tasks, v \in 0..tree :
                  \/ \E m, r \in Models : ApprovePlan(i, t, v, m, r)
                  \/ \E mode \in {"lite", "max"} : SealResult(i, mode, t, v)
           \/ \E m, r \in Models : ApproveResult(i, m, r)

AuthoritySpec ==
    AuthorityInit /\ [][AuthorityNext]_<< tree, kept, integrations, integrated >>
================================================================================
