-------------------------------- MODULE Routing --------------------------------
(***************************************************************************)
(* Which model may hold authority over a task: the configuration layers    *)
(* are merged, candidates are selected without any claim of availability,  *)
(* live evidence about them is applied, and a topology is resolved or      *)
(* refused.  Every function here is pure.  Lists of eligible routes are    *)
(* sets, since only their size and first member matter; the facts, which   *)
(* explain a refusal in words, are left out.                               *)
(***************************************************************************)
EXTENDS Integers, Sequences

CONSTANTS
    Ids,         \* route identifiers, configured or not
    Models,      \* provider family and model, as in a canonical fingerprint
    Variants,    \* reasoning variants
    Unset,       \* a field nobody has given (None)
    Hidden,      \* a fingerprint that could not be obtained
    NoProbe      \* a route for which there is no evidence

Fingerprints == [model : Models, variant : Variants]
Modes == {"auto", "lite", "max"}
Bands == {"authority", "balanced", "fast"}

ASSUME RoutingAssumption ==
    /\ Unset \notin Ids \cup Models \cup Variants \cup Modes \cup {"main loop", "none"}
    /\ Unset \notin [fingerprint : Fingerprints, band : Bands]
    /\ Hidden \notin Fingerprints

(***************************************************************************)
(* Routes and the configuration that names them.                           *)
(***************************************************************************)
\* Reviewer and worker are the roles that resolution asks for; a route whose
\* only roles are scout or mechanic has neither.  Two credentials of a route may
\* be shared, read from one environment variable for two of its child's.
Routes == { r \in [transport : {"host", "external"}, band : Bands,
                   roles : SUBSET {"reviewer", "worker"}, read_only : BOOLEAN,
                   pin : Models \cup {Unset}, variant : Variants \cup {Unset},
               shared : BOOLEAN] :
              "reviewer" \in r.roles => r.read_only }

Mains == [fingerprint : Fingerprints, band : Bands]
Overrides == [mode : Modes \cup {Unset}, reviewer : Ids \cup {Unset},
              worker : Ids \cup {Unset}]

Names(list) == { list[i] : i \in DOMAIN list }
Lists == { s \in Seq(Ids) : \A i, j \in DOMAIN s : s[i] = s[j] => i = j }

\* A layer gives what it wants to: profile, user, project, explicit, in order.
LayerNames == << "profile", "user", "project", "explicit" >>

Gives(layers, field) == { i \in DOMAIN layers : layers[i][field] # Unset }
Defines(layers, id) == { i \in DOMAIN layers : id \in DOMAIN layers[i].routes }
Highest(S) == CHOOSE i \in S : \A j \in S : j <= i

Setting(layers, field, default) ==
    IF Gives(layers, field) = {} THEN default
                                 ELSE layers[Highest(Gives(layers, field))][field]
Origin(layers, field) ==
    IF Gives(layers, field) = {} THEN "profile"
                                 ELSE LayerNames[Highest(Gives(layers, field))]

\* Routes are replaced whole by a higher layer, preference lists each for itself.
Merged(layers) ==
    [ mode |-> Setting(layers, "mode", Unset),
      routes |-> [ id \in { j \in Ids : Defines(layers, j) # {} } |->
                     layers[Highest(Defines(layers, id))].routes[id] ],
      reviewers |-> Setting(layers, "reviewers", << >>),
      workers |-> Setting(layers, "workers", << >>),
      mode_source |-> Origin(layers, "mode"),
      reviewer_source |-> Origin(layers, "reviewers") ]

Supports(config, id, role) ==
    id \in DOMAIN config.routes /\ role \in config.routes[id].roles

\* A list may name a route of a lower layer, which a higher layer has replaced.
Valid(config) ==
    /\ config.mode # Unset
    /\ \A id \in Names(config.reviewers) : Supports(config, id, "reviewer")
    /\ \A id \in Names(config.workers) : Supports(config, id, "worker")

(***************************************************************************)
(* resolve_candidates                                                      *)
(***************************************************************************)
Or(value, default) == IF value # Unset THEN value ELSE default

ResolutionSource(main, config, over, reviewers, mode) ==
    IF \E f \in {"mode", "reviewer", "worker"} : over[f] # Unset
      THEN "explicit"
      ELSE IF mode = "auto" /\ main # Unset /\ main.band = "balanced" /\ reviewers # << >>
             THEN config.reviewer_source ELSE config.mode_source

\* Mutant: a candidate without a main loop is as good as any.
TrustingCandidate(main, config, over) ==
    LET reviewers == IF over.reviewer # Unset THEN << over.reviewer >>
                                              ELSE config.reviewers
        mode == Or(over.mode, config.mode)
    IN [ main |-> main, mode |-> mode, routes |-> config.routes,
         reviewers |-> reviewers,
         workers |-> IF over.worker # Unset THEN << over.worker >> ELSE config.workers,
         source |-> ResolutionSource(main, config, over, reviewers, mode),
         status |-> "ok" ]

Candidate(main, config, over) ==
    LET reviewers == IF over.reviewer # Unset THEN << over.reviewer >>
                                              ELSE config.reviewers
        mode == Or(over.mode, config.mode)
    IN [ main |-> main, mode |-> mode, routes |-> config.routes,
         reviewers |-> reviewers,
         workers |-> IF over.worker # Unset THEN << over.worker >> ELSE config.workers,
         source |-> ResolutionSource(main, config, over, reviewers, mode),
         status |-> IF main = Unset THEN "needs_context" ELSE "ok" ]

(***************************************************************************)
(* The evidence about a route.  A sandbox identity is bound to the route,  *)
(* once or a second time, or to another one.                               *)
(***************************************************************************)
Sources == {"host_metadata", "pinned_adapter", "provider_response",
            "identity_handshake"}
SandboxIdentities == {"none", "own", "own_again", "foreign"}

Probes == { p \in [reachable : BOOLEAN, partition : BOOLEAN, missing : BOOLEAN,
                   fingerprint : Fingerprints \cup {Hidden},
                   source : Sources \cup {"none"}, executable : BOOLEAN,
                   native : BOOLEAN, enforced : BOOLEAN,
                   expected : SandboxIdentities, verified : SandboxIdentities] :
              /\ p.fingerprint = Hidden <=> p.source = "none"
              /\ p.verified # "none" => p.expected # "none" }

\* What probe_route reports of a route whose child process, or whose host, shows
\* the fingerprint f (Hidden if it shows none).
NoEvidence == [ reachable |-> FALSE, partition |-> TRUE, missing |-> FALSE,
                fingerprint |-> Hidden, source |-> "none", executable |-> FALSE,
                native |-> FALSE, enforced |-> FALSE,
                expected |-> "none", verified |-> "none" ]

HostProbe(f, missing, agent, read_only) ==
    IF agent
      THEN [NoEvidence EXCEPT !.reachable = ~missing, !.missing = missing, !.native = TRUE,
                              !.enforced = read_only, !.fingerprint = f,
                              !.source = IF f = Hidden THEN "none" ELSE "host_metadata"]
      ELSE [NoEvidence EXCEPT !.missing = missing]

ReviewerProbe(f, missing) ==
    [NoEvidence EXCEPT !.reachable = ~missing /\ f # Hidden, !.missing = missing,
                       !.fingerprint = f, !.executable = TRUE, !.enforced = f # Hidden,
                       !.source = IF f = Hidden THEN "none" ELSE "identity_handshake"]

WorkerProbe(sandboxed, missing) ==
    [NoEvidence EXCEPT !.reachable = ~missing /\ sandboxed, !.missing = missing,
                       !.executable = TRUE,
                       !.expected = IF sandboxed THEN "own" ELSE "none",
                       !.verified = IF sandboxed THEN "own" ELSE "none"]

\* A result that names a credential twice cannot be built: then probe_route has
\* nothing to report and raises.
ProbeRoute(route, role) ==
    IF route.shared THEN {}
    ELSE IF route.transport = "host"
      THEN { HostProbe(f, m, a, ro) : f \in Fingerprints \cup {Hidden},
                                      m \in BOOLEAN, a \in BOOLEAN, ro \in BOOLEAN }
      ELSE { [NoEvidence EXCEPT !.missing = m] : m \in BOOLEAN }
           \cup IF role = "reviewer"
                  THEN { ReviewerProbe(f, m) : f \in Fingerprints \cup {Hidden},
                                               m \in BOOLEAN }
                  ELSE { WorkerProbe(s, m) : s \in BOOLEAN, m \in BOOLEAN }

(***************************************************************************)
(* preflight_candidates                                                    *)
(***************************************************************************)
TransportAvailable(route, p) ==
    /\ p.reachable /\ ~p.missing
    /\ IF route.transport = "external" THEN p.executable ELSE p.native

PinMatches(route, f) ==
    /\ route.pin = f.model
    /\ route.variant \in {Unset, f.variant}

ReviewerRoute(c, id) ==
    /\ Supports(c, id, "reviewer")
    /\ c.routes[id].band = "authority" /\ c.routes[id].read_only
WorkerRoute(c, id) == Supports(c, id, "worker") /\ ~c.routes[id].read_only

ReviewerEligible(c, id, probes) ==
    /\ ReviewerRoute(c, id)
    /\ probes[id] # NoProbe
    /\ LET route == c.routes[id]
           p == probes[id]
       IN /\ p.partition /\ TransportAvailable(route, p)
          /\ p.enforced
          /\ p.fingerprint # Hidden
          /\ IF route.transport = "host" THEN p.source = "host_metadata"
                                         ELSE p.source # "host_metadata"
          /\ p.source = "pinned_adapter" => route.variant # Unset
          /\ PinMatches(route, p.fingerprint)
          /\ c.main # Unset
          /\ p.fingerprint # c.main.fingerprint

WorkerEligible(c, id, probes) ==
    /\ WorkerRoute(c, id)
    /\ probes[id] # NoProbe
    /\ LET route == c.routes[id]
           p == probes[id]
       IN /\ p.partition /\ TransportAvailable(route, p)
          /\ route.transport = "external" =>
                p.verified = p.expected /\ p.expected \in {"own", "own_again"}

\* The first member of a list that is in S.
First(list, S) ==
    list[CHOOSE i \in DOMAIN list :
           list[i] \in S /\ \A j \in DOMAIN list : list[j] \in S => i <= j]

EligibleReviewers(c, probes) ==
    { id \in Names(c.reviewers) : ReviewerEligible(c, id, probes) }
EligibleWorkers(c, probes) ==
    { id \in Names(c.workers) : WorkerEligible(c, id, probes) }
SelectedWorker(c, probes) ==
    IF EligibleWorkers(c, probes) = {} THEN Unset
                                       ELSE First(c.workers, EligibleWorkers(c, probes))

Reports == [status : {"ok", "needs_context", "reviewer_unavailable"},
            mode : {"lite", "max", Unset},
            reviewer : Ids \cup {Unset}, worker : Ids \cup {Unset},
            reviewers : SUBSET Ids, reviewers_out : SUBSET Ids,
            workers : SUBSET Ids, workers_out : SUBSET Ids]

Report(c, probes, status, mode, reviewer, worker) ==
    [ status |-> status, mode |-> mode, reviewer |-> reviewer, worker |-> worker,
      reviewers |-> IF c.status = "ok" THEN EligibleReviewers(c, probes) ELSE {},
      reviewers_out |-> IF c.status # "ok" THEN {} ELSE
                            { id \in Names(c.reviewers) : ~ReviewerEligible(c, id, probes) },
      workers |-> IF c.status = "ok" THEN EligibleWorkers(c, probes) ELSE {},
      workers_out |-> IF c.status # "ok" THEN {} ELSE
                          { id \in Names(c.workers) : ~WorkerEligible(c, id, probes) } ]
Blocked(c, probes, status) == Report(c, probes, status, Unset, Unset, Unset)

\* Mutant: an authority main loop always decides inline, even when Lite was asked.
BandInlineAuthority(c) == c.mode # "max" /\ c.main.band = "authority"

InlineAuthority(c) ==
    c.mode = "lite" \/ (c.mode = "auto" /\ c.main.band = "authority")
NeedsChoice(c) == c.mode = "auto" /\ c.main.band = "fast"

\* Mutant: Max without a worker route is refused.
WorkerBoundPreflight(c, probes) ==
    LET eligible == EligibleReviewers(c, probes)
    IN IF c.status # "ok" THEN Blocked(c, probes, c.status)
       ELSE IF InlineAuthority(c)
              THEN Report(c, probes, "ok", "lite", Unset, SelectedWorker(c, probes))
       ELSE IF NeedsChoice(c) \/ c.reviewers = << >> \/ SelectedWorker(c, probes) = Unset
              THEN Blocked(c, probes, "needs_context")
       ELSE IF ~ \E id \in eligible : eligible = {id}
              THEN Blocked(c, probes, "reviewer_unavailable")
       ELSE Report(c, probes, "ok", "max", CHOOSE id \in eligible : TRUE,
                   SelectedWorker(c, probes))

\* Mutant: among several eligible reviewers, the first one is taken.
GuessingPreflight(c, probes) ==
    LET eligible == EligibleReviewers(c, probes)
    IN IF c.status # "ok" THEN Blocked(c, probes, c.status)
       ELSE IF InlineAuthority(c)
              THEN Report(c, probes, "ok", "lite", Unset, SelectedWorker(c, probes))
       ELSE IF NeedsChoice(c) THEN Blocked(c, probes, "needs_context")
       ELSE IF eligible = {} THEN Blocked(c, probes, "reviewer_unavailable")
       ELSE Report(c, probes, "ok", "max", First(c.reviewers, eligible),
                   SelectedWorker(c, probes))

\* The early returns of the code, in their order: Lite needs no reviewer, a fast
\* main loop no evidence, and Max exactly one eligible reviewer.
Preflight(c, probes) ==
    LET eligible == EligibleReviewers(c, probes)
    IN IF c.status # "ok" THEN Blocked(c, probes, c.status)
       ELSE IF InlineAuthority(c)
              THEN Report(c, probes, "ok", "lite", Unset, SelectedWorker(c, probes))
       ELSE IF NeedsChoice(c) THEN Blocked(c, probes, "needs_context")
       ELSE IF c.reviewers = << >>
              THEN Blocked(c, probes, IF c.mode = "max" THEN "reviewer_unavailable"
                                                        ELSE "needs_context")
       ELSE IF eligible = {} THEN Blocked(c, probes, "reviewer_unavailable")
       ELSE IF \A id \in eligible : eligible # {id}
              THEN Blocked(c, probes, "needs_context")
       ELSE Report(c, probes, "ok", "max", First(c.reviewers, eligible),
                   SelectedWorker(c, probes))

(***************************************************************************)
(* finalize_resolution                                                     *)
(***************************************************************************)
InlineImplementation == "main loop"
NoImplementation == "none"

Resolution(report) ==
    [ status |-> report.status, mode |-> report.mode,
      authority |-> IF report.mode = "max" THEN report.reviewer ELSE Unset,
      worker |-> IF report.status # "ok" THEN NoImplementation
                 ELSE IF report.worker # Unset THEN report.worker
                 ELSE IF report.mode = "max" THEN InlineImplementation
                 ELSE NoImplementation ]

(***************************************************************************)
(* The contracts that the reports and resolutions check when they are      *)
(* built.  They are written apart from the functions above, and a value    *)
(* that breaks one raises ValueError in the middle of a resolution.        *)
(* Nothing keeps a route from being called "main loop" or "none".          *)
(***************************************************************************)
ModeAgrees(c, mode) ==
    /\ mode = "lite" => /\ c.mode \in {"auto", "lite"}
                        /\ c.mode = "auto" /\ c.main # Unset => c.main.band = "authority"
    /\ mode = "max" => c.mode \in {"auto", "max"}

Partitions(S, T, all) == S \cap T = {} /\ S \cup T = all

ReportContract(c, r) ==
    /\ r.status \in {"ok", "needs_context", "reviewer_unavailable"}
    /\ c.status # "ok" => r.status = c.status
    /\ r.mode \in {"lite", "max", Unset}
    /\ r.status = "ok" <=> r.mode # Unset
    /\ c.status = "ok" => /\ Partitions(r.reviewers, r.reviewers_out, Names(c.reviewers))
                          /\ Partitions(r.workers, r.workers_out, Names(c.workers))
    /\ \A id \in r.reviewers : ReviewerRoute(c, id)
    /\ \A id \in r.workers : WorkerRoute(c, id)
    /\ r.reviewer \in r.reviewers \cup {Unset}
    /\ r.worker \in r.workers \cup {Unset}
    /\ r.status # "ok" => r.reviewer = Unset /\ r.worker = Unset
    /\ r.mode = "lite" => r.reviewer = Unset
    /\ r.mode = "max" => r.reviewer # Unset /\ r.reviewers = {r.reviewer}
    /\ ModeAgrees(c, r.mode)

\* What a resolution must be by itself.
TopologyContract(c, res) ==
    /\ res.status = "ok" <=> res.mode # Unset
    /\ res.status = "ok" => c.main # Unset
    /\ res.status # "ok" => res.authority = Unset /\ res.worker = NoImplementation
    /\ res.mode = "lite" => res.authority = Unset /\ res.worker # InlineImplementation
    /\ res.mode = "max" => /\ res.authority \in Names(c.reviewers)
                           /\ ReviewerRoute(c, res.authority)
                           /\ res.worker # NoImplementation
                           /\ c.mode = "auto" => c.main.band = "balanced"
    /\ ModeAgrees(c, res.mode)
    /\ res.worker \notin {InlineImplementation, NoImplementation} =>
          res.worker \in Names(c.workers) /\ WorkerRoute(c, res.worker)

\* What it must have kept of its report.
FollowsReport(r, res) ==
    /\ res.status = r.status /\ res.mode = r.mode
    /\ res.authority = IF res.mode = "max" THEN r.reviewer ELSE Unset
    /\ \/ r.worker # Unset /\ res.worker = r.worker
       \/ r.worker = Unset /\ res.mode = "max" /\ res.worker = InlineImplementation
       \/ r.worker = Unset /\ res.mode # "max" /\ res.worker = NoImplementation

ResolutionContract(c, r, res) == TopologyContract(c, res) /\ FollowsReport(r, res)
================================================================================
