----------------------------- MODULE Authorization -----------------------------
(***************************************************************************)
(* The commands that ask who may hold authority: resolve, which answers,   *)
(* and plan-review and review, which put the question for the reviewer     *)
(* they are given, run it, and seal its approval.  Every command reads the *)
(* configuration and probes the routes again, since the files, programs    *)
(* and accounts may have changed; the user names the main loop each time.  *)
(***************************************************************************)
EXTENDS Routing

CONSTANTS
    Configurations,  \* what the layers of the configuration files may hold
    Requests,        \* what resolve may be asked for
    Injected,        \* evidence that a caller of the library may bring instead
    Nothing          \* a local or a receipt that is not there

ASSUME AuthorizationAssumption ==
    /\ Requests \subseteq Overrides
    /\ Injected \subseteq Probes /\ NoProbe \notin Probes
    /\ Nothing \notin Reports
    /\ \A l \in Configurations : \E n \in DOMAIN LayerNames : DOMAIN l = 1 .. n
    /\ \A l \in Configurations : \A i \in DOMAIN l :
          /\ l[i].mode \in Modes \cup {Unset}
          /\ \A id \in DOMAIN l[i].routes \cap Ids : l[i].routes[id] \in Routes
          /\ l[i].reviewers \in Lists \cup {Unset}
          /\ l[i].workers \in Lists \cup {Unset}

VARIABLES
    layers,                      \* the configuration files
    command, step,               \* the command that runs and how far it is
    candidate, probes, report,   \* its locals
    resolution,                  \* what the last command has resolved
    plan, final                  \* the approvals sealed for the invocation

locals == << candidate, probes, report, resolution >>
receipts == << plan, final >>
vars == << layers, command, step, locals, receipts >>

Commands == {"resolve", "plan-review", "review"}
IsCandidate(c) ==
    /\ c.main \in Mains \cup {Unset}
    /\ c.mode \in Modes
    /\ DOMAIN c.routes \subseteq Ids /\ \A id \in DOMAIN c.routes : c.routes[id] \in Routes
    /\ c.reviewers \in Lists /\ c.workers \in Lists
    /\ c.status = IF c.main = Unset THEN "needs_context" ELSE "ok"
Receipts == [route : Ids, fingerprint : Fingerprints, source : Sources,
             enforced : BOOLEAN, main : Fingerprints]

TypeOK ==
    /\ layers \in Configurations
    /\ command \in Commands \cup {"none"}
    /\ step \in {"idle", "probe", "preflight", "finalize", "execute", "answered", "rejected"}
    /\ candidate = Nothing \/ IsCandidate(candidate)
    /\ probes = Nothing \/ probes \in [Ids -> Probes \cup {NoProbe}]
    /\ report \in Reports \cup {Nothing}
    /\ plan \in Receipts \cup {Nothing} /\ final \in Receipts \cup {Nothing}

Init ==
    /\ layers \in Configurations
    /\ command = "none" /\ step = "idle"
    /\ candidate = Nothing /\ probes = Nothing /\ report = Nothing
    /\ resolution = Nothing
    /\ plan = Nothing /\ final = Nothing

\* The user edits the configuration between two commands.
Edit ==
    /\ step = "idle"
    /\ layers' \in Configurations
    /\ UNCHANGED << command, step, locals, receipts >>

\* A command that has answered, or raised, is gone with all its locals.
Exit ==
    /\ step \in {"answered", "rejected"}
    /\ command' = "none" /\ step' = "idle"
    /\ candidate' = Nothing /\ probes' = Nothing /\ report' = Nothing
    /\ resolution' = Nothing
    /\ UNCHANGED << layers, receipts >>

\* load_config raises on a configuration that is not valid, and no command starts.
Begin(c, main, over) ==
    /\ step = "idle"
    /\ Valid(Merged(layers))
    /\ command' = c
    /\ step' = "probe"
    /\ candidate' = Candidate(main, Merged(layers), over)
    /\ UNCHANGED << layers, probes, report, resolution, receipts >>

\* resolve neither reads nor writes a receipt: once, before there are any, is enough.
BeginResolve ==
    /\ plan = Nothing
    /\ \E main \in Mains \cup {Unset}, over \in Requests : Begin("resolve", main, over)

\* The review commands take a configured route, ask for Max, and have only the
\* user's word for the main loop.
Asked(id) == [mode |-> "max", reviewer |-> id, worker |-> Unset]
Balanced(f) == [fingerprint |-> f, band |-> "balanced"]

BeginPlanReview ==
    /\ plan = Nothing
    /\ \E id \in DOMAIN Merged(layers).routes, f \in Fingerprints :
          Begin("plan-review", Balanced(f), Asked(id))

\* Mutant: the final review takes any main loop.
CarelessBeginReview ==
    /\ plan # Nothing /\ final = Nothing
    /\ \E id \in DOMAIN Merged(layers).routes, f \in Fingerprints :
          Begin("review", Balanced(f), Asked(id))

\* The final review of a worker's result is refused for another main loop than
\* the one of the plan approval.
BeginReview ==
    /\ plan # Nothing /\ final = Nothing
    /\ \E id \in DOMAIN Merged(layers).routes :
          Begin("review", Balanced(plan.main), Asked(id))

(***************************************************************************)
(* Probing.  A review command probes the one reviewer, after a look at its *)
(* credentials, and has no host that could answer for a native agent.      *)
(***************************************************************************)
ProbedIds == DOMAIN candidate.routes \cap
    (Names(candidate.reviewers) \cup IF command = "resolve" THEN Names(candidate.workers)
                                                           ELSE {})
RoleOf(id) == IF id \in Names(candidate.reviewers) THEN "reviewer" ELSE "worker"

Evidence(id) ==
    IF command = "resolve"
      THEN ProbeRoute(candidate.routes[id], RoleOf(id)) \cup Injected
      ELSE { p \in ProbeRoute(candidate.routes[id], "reviewer") : ~p.missing /\ ~p.native }

\* The routes for which probe_route raises.
Unreported == { id \in ProbedIds : Evidence(id) = {} }

\* Credentials that are missing end a review before its probe.
Probe ==
    /\ step = "probe"
    /\ \/ /\ \E p \in [ProbedIds -> UNION { Evidence(id) : id \in ProbedIds }] :
                /\ \A id \in ProbedIds : p[id] \in Evidence(id)
                /\ probes' = [id \in Ids |-> IF id \in ProbedIds THEN p[id] ELSE NoProbe]
          /\ step' = "preflight"
       \/ Unreported # {} /\ step' = "rejected" /\ UNCHANGED probes
       \/ command # "resolve" /\ step' = "answered" /\ UNCHANGED probes
    /\ UNCHANGED << layers, command, candidate, report, resolution, receipts >>

ApplyEvidence ==
    /\ step = "preflight"
    /\ LET r == Preflight(candidate, probes)
       IN \/ ReportContract(candidate, r) /\ report' = r /\ step' = "finalize"
          \/ ~ReportContract(candidate, r) /\ UNCHANGED report /\ step' = "rejected"
    /\ UNCHANGED << layers, command, candidate, probes, resolution, receipts >>

Reviewer == candidate.reviewers[1]
Receipt == [route |-> Reviewer, fingerprint |-> probes[Reviewer].fingerprint,
            source |-> probes[Reviewer].source, enforced |-> probes[Reviewer].enforced,
            main |-> candidate.main.fingerprint]

\* The final reviewer must be, live, the one that approved the plan.
Finalize ==
    /\ step = "finalize"
    /\ LET res == Resolution(report)
           proceed == /\ command # "resolve" /\ res.status = "ok"
                      /\ command = "review" =>
                            \A f \in DOMAIN plan \ {"main"} : Receipt[f] = plan[f]
       IN \/ /\ ~ResolutionContract(candidate, report, res)
             /\ step' = "rejected" /\ UNCHANGED resolution
          \/ /\ ResolutionContract(candidate, report, res)
             /\ resolution' = res
             /\ \/ proceed /\ step' = "execute"
                \/ ~proceed /\ step' = "answered"
    /\ UNCHANGED << layers, command, candidate, probes, report, receipts >>

\* execute_reviewer runs the reviewer once more, and its approval is sealed with
\* the identity that the probe has shown.  Whatever goes wrong, from a sandbox
\* that is not to be had to a verdict on another packet, seals nothing.
Execute ==
    /\ step = "execute"
    /\ step' = "answered"
    /\ \/ UNCHANGED receipts
       \/ /\ command = "plan-review"
          /\ candidate.routes[Reviewer].transport = "external"
          /\ plan' = Receipt /\ UNCHANGED final
       \/ /\ command = "review"
          /\ candidate.routes[Reviewer].transport = "external"
          /\ final' = Receipt /\ UNCHANGED plan
    /\ UNCHANGED << layers, command, locals >>

Next == \/ Edit \/ Exit
        \/ BeginResolve \/ BeginPlanReview \/ BeginReview
        \/ Probe \/ ApplyEvidence \/ Finalize \/ Execute

Spec == Init /\ [][Next]_vars

(***************************************************************************)
(* What resolution promises.                                               *)
(***************************************************************************)
\* The worker route that was found, though it works, has a name that the contract of
\* a resolution reads as no worker in Max, or as the main loop in Lite.
Misnamed(r) ==
    \/ r.mode = "max" /\ r.worker = NoImplementation
    \/ r.mode = "lite" /\ r.worker = InlineImplementation

\* A resolution ends in an exception for two reasons only, a route whose credentials
\* share a variable and a working worker with such a name; whatever else is configured
\* and found out, the functions and the contracts written apart from them agree.  And
\* a worker with such a name never makes it into a resolution.
RaisesForNamesOnly ==
    /\ step = "rejected" =>
          \/ \E id \in ProbedIds : candidate.routes[id].shared
          \/ report # Nothing /\ Misnamed(report)
    /\ resolution # Nothing => ~Misnamed(report)

\* An explicit mode is what one gets or one gets nothing; without one an authority
\* main loop is never put under a reviewer, a balanced one never works without,
\* and a fast one never starts.  Lite is granted whatever the reviewers' state.
ModeIsAsked ==
    resolution # Nothing =>
        LET inline == /\ candidate.main # Unset
                      /\ \/ candidate.mode = "lite"
                         \/ candidate.mode = "auto" /\ candidate.main.band = "authority"
            external == /\ candidate.main # Unset
                        /\ \/ candidate.mode = "max"
                           \/ candidate.mode = "auto" /\ candidate.main.band = "balanced"
        IN /\ resolution.mode = "lite" <=> inline
           /\ resolution.mode = "max" => external
           /\ resolution.mode = "max" =>
                 \A id \in Names(candidate.reviewers) \ {resolution.authority} :
                     ~ReviewerEligible(candidate, id, probes)

\* A worker's evidence removes that worker only: whatever had been found out about
\* routes that are only workers, mode, authority and status would be the same.
WorkersDecideNothing ==
    step = "finalize" =>
        \A w \in Names(candidate.workers) \ Names(candidate.reviewers) :
        \A p \in {NoProbe, NoEvidence, WorkerProbe(TRUE, FALSE)} :
            LET other == Preflight(candidate, [probes EXCEPT ![w] = p])
            IN /\ other.status = report.status /\ other.mode = report.mode
               /\ other.reviewer = report.reviewer

\* Both checkpoints of Max are bound to one reviewer, the same route showing the
\* same model, which is not the main loop's, and to one main loop, although files,
\* programs and answers may change between the commands.
OneAuthority ==
    /\ plan # Nothing => plan.fingerprint # plan.main
    /\ final # Nothing => final = plan

\* What the auto-resolution matrix of the documentation says of a balanced main
\* loop whose configured reviewers are unavailable, hidden, colliding or
\* write-capable: automatic resolution asks for context, and only an explicit Max
\* reports that the reviewer is unavailable.
MatrixFollowed ==
    resolution # Nothing /\ candidate.source # "explicit" /\ candidate.main # Unset =>
        (candidate.mode = "auto" /\ resolution.status # "ok" =>
            resolution.status = "needs_context")
================================================================================
