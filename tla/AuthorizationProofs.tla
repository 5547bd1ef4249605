-------------------------- MODULE AuthorizationProofs --------------------------
(***************************************************************************)
(* Proofs about Authorization, for any routes, models, configuration files *)
(* and evidence: a resolution breaks no contract but for the name of its   *)
(* worker, the mode is the one asked for, workers have no influence on     *)
(* authority, and one reviewer gives both reviews of an invocation.        *)
(***************************************************************************)
EXTENDS Authorization, WellFoundedInduction, TLAPS

(***************************************************************************)
(* Lemmas about the operators.                                             *)
(***************************************************************************)
\* A set of layers that is not empty has a highest one.
LEMMA HighestLayer ==
    ASSUME NEW S, S \subseteq 1 .. 4, S # {}
    PROVE  Highest(S) \in S
<1>1. \E i \in S : \A j \in S : j <= i
  <2>1. CASE 4 \in S  BY <2>1
  <2>2. CASE 4 \notin S /\ 3 \in S  BY <2>2
  <2>3. CASE 4 \notin S /\ 3 \notin S /\ 2 \in S  BY <2>3
  <2>4. CASE 4 \notin S /\ 3 \notin S /\ 2 \notin S
    <3>1. \A j \in S : j = 1  BY <2>4
    <3>2. PICK i \in S : TRUE  OBVIOUS
    <3>3. \A j \in S : j <= i  BY <3>1, <3>2
    <3>4. QED  BY <3>3
  <2>5. QED  BY <2>1, <2>2, <2>3, <2>4
<1>2. QED  BY <1>1 DEF Highest

\* The first member of a list in a set is in the list and in the set.
LEMMA FirstMember ==
    ASSUME NEW list \in Lists, NEW S, \E i \in DOMAIN list : list[i] \in S
    PROVE  First(list, S) \in S /\ First(list, S) \in Names(list)
<1> DEFINE T == { i \in DOMAIN list : list[i] \in S }
<1>1. T \subseteq Nat /\ T # {}
  BY DEF Lists
<1>2. IsWellFoundedOn({ ss \in Nat \X Nat : ss[1] < ss[2] }, Nat)
  BY NatLessThanWellFounded DEF OpToRel
<1>3. PICK i \in T : \A j \in T : <<j, i>> \notin { ss \in Nat \X Nat : ss[1] < ss[2] }
  BY <1>1, <1>2, WFMin
<1>4. ASSUME NEW j \in T  PROVE  i <= j
  <2>1. i \in Nat /\ j \in Nat
    BY <1>1
  <2>2. << j, i >> \in Nat \X Nat /\ << j, i >>[1] = j /\ << j, i >>[2] = i
    BY <2>1
  <2>3. ~ (j < i)
    BY <1>3, <2>2
  <2>4. QED  BY <2>1, <2>3
<1>5. \E k \in DOMAIN list :
          list[k] \in S /\ \A j \in DOMAIN list : list[j] \in S => k <= j
  BY <1>4
<1>6. QED  BY <1>5 DEF First, Names

\* What a layer gives is what its file held, of the type the field has.
LEMMA SettingIsGiven ==
    ASSUME NEW l \in Configurations, NEW field, NEW default
    PROVE  \/ Setting(l, field, default) = default
           \/ \E i \in DOMAIN l : /\ Setting(l, field, default) = l[i][field]
                                  /\ l[i][field] # Unset
<1>1. CASE Gives(l, field) = {}  BY <1>1 DEF Setting
<1>2. CASE Gives(l, field) # {}
  <2>1. Gives(l, field) \subseteq 1 .. 4
    BY AuthorizationAssumption DEF Gives, LayerNames
  <2>2. Highest(Gives(l, field)) \in Gives(l, field)
    BY <1>2, <2>1, HighestLayer
  <2>3. QED  BY <1>2, <2>2 DEF Setting, Gives
<1>3. QED  BY <1>1, <1>2

LEMMA MergedIsTyped ==
    ASSUME NEW l \in Configurations, Valid(Merged(l))
    PROVE  /\ Merged(l).mode \in Modes
           /\ Merged(l).reviewers \in Lists /\ Merged(l).workers \in Lists
           /\ DOMAIN Merged(l).routes \subseteq Ids
           /\ \A id \in DOMAIN Merged(l).routes : Merged(l).routes[id] \in Routes
<1>0. << >> \in Lists
  BY DEF Lists
<1>1. Merged(l).mode \in Modes
  <2>1. Merged(l).mode # Unset /\ Merged(l).mode = Setting(l, "mode", Unset)
    BY DEF Valid, Merged
  <2>2. QED  BY <2>1, SettingIsGiven, AuthorizationAssumption
<1>2. Setting(l, "reviewers", << >>) \in Lists
  BY <1>0, SettingIsGiven, AuthorizationAssumption
<1>3. Setting(l, "workers", << >>) \in Lists
  BY <1>0, SettingIsGiven, AuthorizationAssumption
<1>4. ASSUME NEW id \in Ids, Defines(l, id) # {}
      PROVE  l[Highest(Defines(l, id))].routes[id] \in Routes
  <2>1. Defines(l, id) \subseteq 1 .. 4
    BY AuthorizationAssumption DEF Defines, LayerNames
  <2>2. Highest(Defines(l, id)) \in Defines(l, id)
    BY <1>4, <2>1, HighestLayer
  <2>3. QED  BY <2>2, AuthorizationAssumption DEF Defines
<1>5. QED  BY <1>1, <1>2, <1>3, <1>4 DEF Merged

LEMMA CandidateIsTyped ==
    ASSUME NEW l \in Configurations, Valid(Merged(l)),
           NEW main \in Mains \cup {Unset}, NEW over \in Overrides
    PROVE  IsCandidate(Candidate(main, Merged(l), over))
<1>1. \A id \in Ids : << id >> \in Lists
  BY DEF Lists
<1>2. over.mode \in Modes \cup {Unset} /\ over.reviewer \in Ids \cup {Unset}
      /\ over.worker \in Ids \cup {Unset}
  BY DEF Overrides
<1>3. QED
  BY <1>1, <1>2, MergedIsTyped, RoutingAssumption DEF Candidate, IsCandidate, Or

LEMMA EvidenceIsTyped ==
    ASSUME NEW route, NEW role
    PROVE  ProbeRoute(route, role) \subseteq Probes
<1>0. NoEvidence \in Probes
  BY RoutingAssumption DEF NoEvidence, Probes, SandboxIdentities
<1>1. ASSUME NEW f \in Fingerprints \cup {Hidden}, NEW m \in BOOLEAN,
             NEW a \in BOOLEAN, NEW ro \in BOOLEAN
      PROVE  HostProbe(f, m, a, ro) \in Probes
  <2>1. CASE f = Hidden
    BY <2>1, RoutingAssumption DEF HostProbe, NoEvidence, Probes, Sources, SandboxIdentities
  <2>2. CASE f # Hidden
    BY <2>2, RoutingAssumption DEF HostProbe, NoEvidence, Probes, Sources, SandboxIdentities
  <2>3. QED  BY <2>1, <2>2
<1>2. ASSUME NEW f \in Fingerprints \cup {Hidden}, NEW m \in BOOLEAN
      PROVE  ReviewerProbe(f, m) \in Probes
  <2>1. CASE f = Hidden
    BY <2>1 DEF ReviewerProbe, NoEvidence, Probes, Sources, SandboxIdentities
  <2>2. CASE f # Hidden
    BY <2>2 DEF ReviewerProbe, NoEvidence, Probes, Sources, SandboxIdentities
  <2>3. QED  BY <2>1, <2>2
<1>3. ASSUME NEW s \in BOOLEAN, NEW m \in BOOLEAN
      PROVE  WorkerProbe(s, m) \in Probes
  BY DEF WorkerProbe, NoEvidence, Probes, SandboxIdentities
<1>4. ASSUME NEW m \in BOOLEAN
      PROVE  [NoEvidence EXCEPT !.missing = m] \in Probes
  BY DEF NoEvidence, Probes, SandboxIdentities
<1>5. CASE route.shared  BY <1>5 DEF ProbeRoute
<1>6. CASE ~route.shared  BY <1>1, <1>2, <1>3, <1>4, <1>6 DEF ProbeRoute
<1>7. QED  BY <1>5, <1>6

\* Only for a route that shares a credential does probe_route raise.
LEMMA SilentProbeShares ==
    ASSUME NEW route, NEW role, ~route.shared
    PROVE  \E p \in ProbeRoute(route, role) : ~p.missing /\ ~p.native
<1>1. Hidden \in Fingerprints \cup {Hidden} /\ FALSE \in BOOLEAN
  OBVIOUS
<1>2. CASE route.transport = "host"
  <2>1. HostProbe(Hidden, FALSE, FALSE, FALSE) \in ProbeRoute(route, role)
    <3> DEFINE T == { HostProbe(f, m, a, ro) : f \in Fingerprints \cup {Hidden},
                                   m \in BOOLEAN, a \in BOOLEAN, ro \in BOOLEAN }
    <3>1. ProbeRoute(route, role) = T
      BY <1>2 DEF ProbeRoute
    <3>2. \A h : (\E f \in Fingerprints \cup {Hidden}, m \in BOOLEAN, a \in BOOLEAN,
                      ro \in BOOLEAN : h = HostProbe(f, m, a, ro)) => h \in T
      OBVIOUS
    <3>3. \E f \in Fingerprints \cup {Hidden}, m \in BOOLEAN, a \in BOOLEAN,
             ro \in BOOLEAN : HostProbe(Hidden, FALSE, FALSE, FALSE) = HostProbe(f, m, a, ro)
      <4> WITNESS Hidden \in Fingerprints \cup {Hidden}, FALSE \in BOOLEAN,
                  FALSE \in BOOLEAN, FALSE \in BOOLEAN
      <4> QED  OBVIOUS
    <3> HIDE DEF T
    <3>4. HostProbe(Hidden, FALSE, FALSE, FALSE) \in T
      BY <3>2, <3>3
    <3>5. QED  BY <3>1, <3>4
  <2>2. /\ ~HostProbe(Hidden, FALSE, FALSE, FALSE).missing
        /\ ~HostProbe(Hidden, FALSE, FALSE, FALSE).native
    BY DEF HostProbe, NoEvidence
  <2>3. QED  BY <2>1, <2>2
<1>3. CASE route.transport # "host"
  <2>1. [NoEvidence EXCEPT !.missing = FALSE] \in ProbeRoute(route, role)
    <3>1. \E m \in BOOLEAN : [NoEvidence EXCEPT !.missing = FALSE]
                                = [NoEvidence EXCEPT !.missing = m]
      BY <1>1
    <3>2. CASE role = "reviewer"  BY <1>3, <3>1, <3>2, SMT DEF ProbeRoute
    <3>3. CASE role # "reviewer"  BY <1>3, <3>1, <3>3, SMT DEF ProbeRoute
    <3>4. QED  BY <3>2, <3>3
  <2>2. /\ ~[NoEvidence EXCEPT !.missing = FALSE].missing
        /\ ~[NoEvidence EXCEPT !.missing = FALSE].native
    BY DEF NoEvidence
  <2>3. QED  BY <2>1, <2>2
<1>4. QED  BY <1>2, <1>3

(***************************************************************************)
(* The report and the resolution, for any candidate and any evidence.      *)
(***************************************************************************)
\* The early returns of preflight_candidates, as four cases.
LEMMA PreflightCases ==
    ASSUME NEW c, NEW pr
    PROVE  \/ c.status # "ok" /\ Preflight(c, pr) = Blocked(c, pr, c.status)
           \/ /\ c.status = "ok" /\ InlineAuthority(c)
              /\ Preflight(c, pr) =
                    Report(c, pr, "ok", "lite", Unset, SelectedWorker(c, pr))
           \/ /\ c.status = "ok" /\ ~InlineAuthority(c)
              /\ \E s \in {"needs_context", "reviewer_unavailable"} :
                    Preflight(c, pr) = Blocked(c, pr, s)
           \/ /\ c.status = "ok" /\ ~InlineAuthority(c) /\ ~NeedsChoice(c)
              /\ \E id \in EligibleReviewers(c, pr) : EligibleReviewers(c, pr) = {id}
              /\ Preflight(c, pr) =
                    Report(c, pr, "ok", "max", First(c.reviewers, EligibleReviewers(c, pr)),
                           SelectedWorker(c, pr))
BY DEF Preflight

LEMMA SelectedWorkerIsEligible ==
    ASSUME NEW c, IsCandidate(c), NEW pr
    PROVE  SelectedWorker(c, pr) \in EligibleWorkers(c, pr) \cup {Unset}
<1>1. CASE EligibleWorkers(c, pr) = {}  BY <1>1 DEF SelectedWorker
<1>2. CASE EligibleWorkers(c, pr) # {}
  <2>1. \E i \in DOMAIN c.workers : c.workers[i] \in EligibleWorkers(c, pr)
    BY <1>2 DEF EligibleWorkers, Names
  <2>2. c.workers \in Lists
    BY DEF IsCandidate
  <2>3. QED  BY <1>2, <2>1, <2>2, FirstMember DEF SelectedWorker
<1>3. QED  BY <1>1, <1>2

\* The reviewer of a Max report is the only eligible one.
LEMMA FirstReviewer ==
    ASSUME NEW c, IsCandidate(c), NEW pr,
           NEW id \in EligibleReviewers(c, pr), EligibleReviewers(c, pr) = {id}
    PROVE  First(c.reviewers, EligibleReviewers(c, pr)) = id
<1>1. \E i \in DOMAIN c.reviewers : c.reviewers[i] \in EligibleReviewers(c, pr)
  BY DEF EligibleReviewers, Names
<1>2. c.reviewers \in Lists
  BY DEF IsCandidate
<1>3. QED  BY <1>1, <1>2, FirstMember

LEMMA NamesAreIds ==
    ASSUME NEW list \in Lists
    PROVE  Names(list) \subseteq Ids
BY DEF Names, Lists

\* Every list of a report is split by the evidence.
LEMMA ReportPartitions ==
    ASSUME NEW c, NEW pr, c.status = "ok", NEW s, NEW m, NEW v, NEW w
    PROVE  LET r == Report(c, pr, s, m, v, w)
           IN /\ Partitions(r.reviewers, r.reviewers_out, Names(c.reviewers))
              /\ Partitions(r.workers, r.workers_out, Names(c.workers))
BY DEF Report, Partitions, EligibleReviewers, EligibleWorkers

LEMMA ReportIsSound ==
    ASSUME NEW c, IsCandidate(c), NEW pr
    PROVE  ReportContract(c, Preflight(c, pr))
<1> DEFINE r == Preflight(c, pr)
<1>1. /\ EligibleReviewers(c, pr) \subseteq Names(c.reviewers)
      /\ EligibleWorkers(c, pr) \subseteq Names(c.workers)
      /\ \A id \in EligibleReviewers(c, pr) : ReviewerRoute(c, id)
      /\ \A id \in EligibleWorkers(c, pr) : WorkerRoute(c, id)
  BY DEF EligibleReviewers, EligibleWorkers, ReviewerEligible, WorkerEligible
<1>2. /\ Names(c.reviewers) \subseteq Ids /\ Unset \notin Ids
      /\ Unset \notin {"lite", "max"}
      /\ c.status \in {"ok", "needs_context"}
      /\ c.mode \in {"auto", "lite", "max"}
  BY NamesAreIds, RoutingAssumption DEF IsCandidate, Modes
<1>3. c.status = "ok" => c.main # Unset /\ c.main.band \in {"authority", "balanced", "fast"}
  BY DEF IsCandidate, Mains, Bands
<1>4. c.status = "ok" => /\ Partitions(r.reviewers, r.reviewers_out, Names(c.reviewers))
                         /\ Partitions(r.workers, r.workers_out, Names(c.workers))
  BY ReportPartitions, PreflightCases DEF Blocked
<1>5. CASE \E s \in {"needs_context", "reviewer_unavailable"} :
              r = Blocked(c, pr, s) /\ (c.status # "ok" => s = c.status)
  <2>1. PICK s \in {"needs_context", "reviewer_unavailable"} :
              r = Blocked(c, pr, s) /\ (c.status # "ok" => s = c.status)
    BY <1>5
  <2>2. /\ r.status = s /\ r.mode = Unset /\ r.reviewer = Unset /\ r.worker = Unset
        /\ r.reviewers \subseteq EligibleReviewers(c, pr)
        /\ r.workers \subseteq EligibleWorkers(c, pr)
    BY <2>1 DEF Blocked, Report
  <2> HIDE DEF r
  <2>3. ReportContract(c, r)
    BY <1>1, <1>2, <1>4, <2>1, <2>2, RoutingAssumption
       DEF ReportContract, ModeAgrees, Modes
  <2>4. QED  BY <2>3 DEF r
<1>6. CASE /\ c.status = "ok" /\ InlineAuthority(c)
           /\ r = Report(c, pr, "ok", "lite", Unset, SelectedWorker(c, pr))
  <2>1. /\ r.status = "ok" /\ r.mode = "lite" /\ r.reviewer = Unset
        /\ r.worker = SelectedWorker(c, pr)
        /\ r.reviewers = EligibleReviewers(c, pr) /\ r.workers = EligibleWorkers(c, pr)
    BY <1>6 DEF Report
  <2> HIDE DEF r
  <2>2. ReportContract(c, r)
    BY <1>1, <1>2, <1>3, <1>4, <1>6, <2>1, SelectedWorkerIsEligible
       DEF ReportContract, ModeAgrees, InlineAuthority
  <2>3. QED  BY <2>2 DEF r
<1>7. CASE /\ c.status = "ok" /\ ~InlineAuthority(c)
           /\ \E id \in EligibleReviewers(c, pr) : EligibleReviewers(c, pr) = {id}
           /\ r = Report(c, pr, "ok", "max", First(c.reviewers, EligibleReviewers(c, pr)),
                         SelectedWorker(c, pr))
  <2>1. PICK id \in EligibleReviewers(c, pr) : EligibleReviewers(c, pr) = {id}
    BY <1>7
  <2>2. r = Report(c, pr, "ok", "max", id, SelectedWorker(c, pr)) /\ id # Unset
    BY <1>1, <1>2, <1>7, <2>1, FirstReviewer
  <2>3. c.mode \in {"auto", "max"}
    BY <1>2, <1>7 DEF InlineAuthority
  <2>4. /\ r.status = "ok" /\ r.mode = "max" /\ r.reviewer = id
        /\ r.worker = SelectedWorker(c, pr)
        /\ r.reviewers = EligibleReviewers(c, pr) /\ r.workers = EligibleWorkers(c, pr)
    BY <1>7, <2>2 DEF Report
  <2> HIDE DEF r
  <2>5. ReportContract(c, r)
    BY <1>1, <1>2, <1>4, <1>7, <2>1, <2>2, <2>3, <2>4, SelectedWorkerIsEligible
       DEF ReportContract, ModeAgrees
  <2>6. QED  BY <2>5 DEF r
<1>8. QED  BY <1>2, <1>5, <1>6, <1>7, PreflightCases

LEMMA ReportIsTyped ==
    ASSUME NEW c, IsCandidate(c), NEW pr
    PROVE  Preflight(c, pr) \in Reports /\ Preflight(c, pr) # Nothing
<1>1. /\ Names(c.reviewers) \subseteq Ids /\ Names(c.workers) \subseteq Ids
      /\ c.status \in {"ok", "needs_context"}
  BY NamesAreIds DEF IsCandidate
<1>2. /\ EligibleReviewers(c, pr) \subseteq Ids /\ EligibleWorkers(c, pr) \subseteq Ids
      /\ SelectedWorker(c, pr) \in Ids \cup {Unset}
  BY <1>1, SelectedWorkerIsEligible DEF EligibleReviewers, EligibleWorkers
<1>3. ASSUME NEW s \in {"ok", "needs_context", "reviewer_unavailable"},
             NEW m \in {"lite", "max", Unset},
             NEW v \in Ids \cup {Unset}, NEW w \in Ids \cup {Unset}
      PROVE  Report(c, pr, s, m, v, w) \in Reports
  BY <1>1, <1>2 DEF Report, Reports
<1>4. Preflight(c, pr) \in Reports
  <2>1. \A s \in {"needs_context", "reviewer_unavailable"} : Blocked(c, pr, s) \in Reports
    BY <1>3 DEF Blocked
  <2>2. Report(c, pr, "ok", "lite", Unset, SelectedWorker(c, pr)) \in Reports
    BY <1>2, <1>3
  <2>3. ASSUME \E id \in EligibleReviewers(c, pr) : EligibleReviewers(c, pr) = {id}
        PROVE  Report(c, pr, "ok", "max", First(c.reviewers, EligibleReviewers(c, pr)),
                      SelectedWorker(c, pr)) \in Reports
    <3>1. First(c.reviewers, EligibleReviewers(c, pr)) \in Ids
      BY <1>2, <2>3, FirstReviewer
    <3>2. QED  BY <1>2, <1>3, <3>1
  <2>4. QED  BY <1>1, <2>1, <2>2, <2>3, PreflightCases
<1>5. QED  BY <1>4, AuthorizationAssumption

\* The resolution of a report passes its contract exactly if the worker has another name.
LEMMA ResolutionIsSound ==
    ASSUME NEW c, IsCandidate(c), NEW pr
    PROVE  ResolutionContract(c, Preflight(c, pr), Resolution(Preflight(c, pr)))
           <=> ~Misnamed(Preflight(c, pr))
<1> DEFINE r == Preflight(c, pr)
           res == Resolution(r)
<1>1. ReportContract(c, r)
  BY ReportIsSound
<1>2. /\ Unset \notin {"lite", "max", "main loop", "none"} /\ Unset \notin Ids
      /\ c.status = "ok" <=> c.main # Unset
      /\ c.main # Unset => c.main.band \in {"authority", "balanced", "fast"}
  BY RoutingAssumption DEF IsCandidate, Modes, Mains, Bands
<1>3. /\ res.status = r.status /\ res.mode = r.mode
      /\ res.authority = (IF r.mode = "max" THEN r.reviewer ELSE Unset)
      /\ res.worker = (IF r.status # "ok" THEN "none"
                       ELSE IF r.worker # Unset THEN r.worker
                       ELSE IF r.mode = "max" THEN "main loop" ELSE "none")
  BY DEF Resolution, InlineImplementation, NoImplementation
<1>4. r.mode = "max" /\ c.mode = "auto" => c.main.band = "balanced"
  <2>1. ASSUME r.mode = "max"
        PROVE  c.status = "ok" /\ ~InlineAuthority(c) /\ ~NeedsChoice(c)
    <3>1. \A s : Blocked(c, pr, s).mode = Unset
      BY DEF Blocked, Report
    <3>2. Report(c, pr, "ok", "lite", Unset, SelectedWorker(c, pr)).mode = "lite"
      BY DEF Report
    <3>3. QED  BY <1>2, <2>1, <3>1, <3>2, PreflightCases
  <2>2. QED  BY <1>2, <2>1 DEF InlineAuthority, NeedsChoice
<1>5. /\ r.status = "ok" => c.status = "ok"
      /\ r.status = "ok" <=> r.mode # Unset
      /\ r.mode \in {"lite", "max", Unset}
      /\ r.status # "ok" => r.reviewer = Unset /\ r.worker = Unset
      /\ r.mode = "lite" => r.reviewer = Unset
      /\ ModeAgrees(c, r.mode)
  BY <1>1 DEF ReportContract
<1>6. /\ r.mode = "max" => r.reviewer \in Names(c.reviewers) /\ ReviewerRoute(c, r.reviewer)
      /\ r.worker # Unset => r.worker \in Names(c.workers) /\ WorkerRoute(c, r.worker)
  <2>1. r.reviewer \in r.reviewers \cup {Unset} /\ r.worker \in r.workers \cup {Unset}
    BY <1>1 DEF ReportContract
  <2>2. c.status = "ok" => /\ r.reviewers \subseteq Names(c.reviewers)
                           /\ r.workers \subseteq Names(c.workers)
    BY <1>1 DEF ReportContract, Partitions
  <2>3. /\ \A id \in r.reviewers : ReviewerRoute(c, id)
        /\ \A id \in r.workers : WorkerRoute(c, id)
        /\ r.mode = "max" => r.reviewer # Unset
    BY <1>1 DEF ReportContract
  <2>4. QED  BY <1>2, <1>5, <2>1, <2>2, <2>3
<1> HIDE DEF r, res
<1>7. FollowsReport(r, res)
  BY <1>2, <1>3, <1>5 DEF FollowsReport, InlineImplementation, NoImplementation
<1>8. TopologyContract(c, res) <=> ~Misnamed(r)
  <2>1. CASE r.status # "ok"
    BY <1>2, <1>3, <1>5, <2>1
       DEF TopologyContract, Misnamed, InlineImplementation, NoImplementation
  <2>2. CASE r.mode = "lite"
    BY <1>2, <1>3, <1>5, <1>6, <2>2
       DEF TopologyContract, Misnamed, InlineImplementation, NoImplementation
  <2>3. CASE r.mode = "max"
    BY <1>2, <1>3, <1>4, <1>5, <1>6, <2>3
       DEF TopologyContract, Misnamed, InlineImplementation, NoImplementation
  <2>4. QED  BY <1>2, <1>5, <2>1, <2>2, <2>3
<1>9. QED  BY <1>7, <1>8 DEF ResolutionContract, r, res

\* Status, mode and reviewer depend on the evidence about the listed reviewers only.
LEMMA OnlyReviewersMatter ==
    ASSUME NEW c, NEW pr, NEW qr, \A id \in Names(c.reviewers) : qr[id] = pr[id]
    PROVE  /\ Preflight(c, qr).status = Preflight(c, pr).status
           /\ Preflight(c, qr).mode = Preflight(c, pr).mode
           /\ Preflight(c, qr).reviewer = Preflight(c, pr).reviewer
<1>1. \A id \in Names(c.reviewers) : ReviewerEligible(c, id, qr) = ReviewerEligible(c, id, pr)
  BY DEF ReviewerEligible
<1>2. EligibleReviewers(c, qr) = EligibleReviewers(c, pr)
  BY <1>1 DEF EligibleReviewers
<1>3. QED  BY <1>2 DEF Preflight, Report, Blocked

\* A configured Max that is granted has found its reviewer eligible.
LEMMA AskedReviewerIsEligible ==
    ASSUME NEW c, IsCandidate(c), NEW pr, NEW id,
           c.reviewers = << id >>, c.mode = "max", Preflight(c, pr).status = "ok"
    PROVE  ReviewerEligible(c, id, pr)
<1>1. ~InlineAuthority(c)
  BY DEF InlineAuthority
<1>2. \A s : Blocked(c, pr, s).status = s
  BY DEF Blocked, Report
<1>3. \E e \in EligibleReviewers(c, pr) : EligibleReviewers(c, pr) = {e}
  BY <1>1, <1>2, PreflightCases
<1>4. Names(c.reviewers) = {id}
  BY DEF Names
<1>5. QED  BY <1>3, <1>4 DEF EligibleReviewers

(***************************************************************************)
(* The inductive invariant.                                                *)
(***************************************************************************)
Running == {"probe", "preflight", "finalize", "execute"}

\* What the locals of a command have been made from.
Located ==
    /\ step \in Running => IsCandidate(candidate) /\ command \in Commands
    /\ step \in {"preflight", "finalize", "execute"} =>
          probes \in [Ids -> Probes \cup {NoProbe}]
    /\ step \in {"finalize", "execute"} => report = Preflight(candidate, probes)
    /\ resolution # Nothing =>
          /\ step \in {"execute", "answered"}
          /\ IsCandidate(candidate)
          /\ report = Preflight(candidate, probes)
          /\ resolution = Resolution(report)

\* What a review command has asked for, and what it has found when it goes on.
Reviewing ==
    /\ step \in Running /\ command # "resolve" =>
          /\ candidate.mode = "max" /\ candidate.main # Unset
          /\ candidate.reviewers = << Reviewer >>
    /\ step \in Running /\ command = "plan-review" => plan = Nothing
    /\ step \in Running /\ command = "review" =>
          plan # Nothing /\ candidate.main.fingerprint = plan.main
    /\ step = "execute" =>
          /\ command # "resolve"
          /\ Preflight(candidate, probes).status = "ok"
          /\ command = "review" =>
                \A f \in DOMAIN plan \ {"main"} : Receipt[f] = plan[f]

IInv == TypeOK /\ Located /\ Reviewing /\ OneAuthority /\ RaisesForNamesOnly

\* The approval that Execute seals is of an independent reviewer.
LEMMA ReceiptIsSound ==
    ASSUME IInv, step = "execute"
    PROVE  Receipt \in Receipts /\ Receipt.fingerprint # Receipt.main
<1>1. /\ IsCandidate(candidate) /\ candidate.mode = "max" /\ candidate.main \in Mains
      /\ candidate.reviewers = << Reviewer >>
      /\ Preflight(candidate, probes).status = "ok"
      /\ probes \in [Ids -> Probes \cup {NoProbe}]
  BY DEF IInv, Located, Reviewing, Running, IsCandidate
<1>2. ReviewerEligible(candidate, Reviewer, probes)
  BY <1>1, AskedReviewerIsEligible
<1>3. Reviewer \in Ids
  <2>1. Reviewer \in Names(candidate.reviewers)
    BY <1>1 DEF Names
  <2>2. QED  BY <1>1, <2>1, NamesAreIds DEF IsCandidate
<1>4. /\ probes[Reviewer] \in Probes /\ probes[Reviewer].fingerprint # Hidden
      /\ probes[Reviewer].fingerprint # candidate.main.fingerprint
  BY <1>1, <1>2, <1>3 DEF ReviewerEligible
<1>5. /\ probes[Reviewer].fingerprint \in Fingerprints
      /\ probes[Reviewer].source \in Sources /\ probes[Reviewer].enforced \in BOOLEAN
  BY <1>4 DEF Probes
<1>6. candidate.main.fingerprint \in Fingerprints
  BY <1>1 DEF Mains
<1>7. QED  BY <1>3, <1>4, <1>5, <1>6 DEF Receipt, Receipts

(***************************************************************************)
(* The steps.                                                              *)
(***************************************************************************)
LEMMA InitIInv == Init => IInv
BY DEF Init, IInv, TypeOK, Located, Reviewing, OneAuthority, Running,
       RaisesForNamesOnly

LEMMA EditIInv == IInv /\ Edit => IInv'
BY DEF IInv, Edit, TypeOK, Located, Reviewing, OneAuthority, Running, IsCandidate,
       Reviewer, Receipt, RaisesForNamesOnly, locals, receipts

LEMMA ExitIInv == IInv /\ Exit => IInv'
BY DEF IInv, Exit, TypeOK, Located, Reviewing, OneAuthority, Running, IsCandidate,
       Reviewer, Receipt, RaisesForNamesOnly, receipts

\* A command that begins with a configuration that is valid.
LEMMA BeginTypes ==
    ASSUME IInv, NEW c \in Commands, NEW main \in Mains \cup {Unset},
           NEW over \in Overrides, Begin(c, main, over)
    PROVE  /\ TypeOK' /\ Located' /\ OneAuthority' /\ RaisesForNamesOnly'
           /\ step' = "probe" /\ command' = c
           /\ candidate'.main = main
           /\ over.mode # Unset => candidate'.mode = over.mode
           /\ over.reviewer # Unset => candidate'.reviewers = << over.reviewer >>
<1>1. layers \in Configurations /\ Valid(Merged(layers))
  BY DEF IInv, TypeOK, Begin
<1>2. IsCandidate(candidate')
  BY <1>1, CandidateIsTyped DEF Begin
<1>3. /\ step' = "probe" /\ command' = c /\ resolution' = resolution
      /\ resolution = Nothing /\ layers' = layers /\ probes' = probes
      /\ report' = report /\ plan' = plan /\ final' = final
  BY DEF Begin, IInv, Located, receipts
<1>4. TypeOK'
  BY <1>2, <1>3 DEF IInv, TypeOK, Commands
<1>5. Located' /\ OneAuthority' /\ RaisesForNamesOnly'
  BY <1>2, <1>3 DEF IInv, Located, OneAuthority, RaisesForNamesOnly, Running
<1>6. /\ candidate'.main = main
      /\ over.mode # Unset => candidate'.mode = over.mode
      /\ over.reviewer # Unset => candidate'.reviewers = << over.reviewer >>
  BY DEF Begin, Candidate, Or
<1>7. QED  BY <1>3, <1>4, <1>5, <1>6

LEMMA AskedTypes ==
    ASSUME NEW id \in Ids, NEW f \in Fingerprints
    PROVE  /\ Asked(id) \in Overrides /\ Asked(id).mode = "max" /\ Asked(id).mode # Unset
           /\ Asked(id).reviewer = id /\ id # Unset
           /\ Balanced(f) \in Mains /\ Balanced(f) # Unset /\ Balanced(f).fingerprint = f
<1>1. id # Unset /\ "max" # Unset
  BY RoutingAssumption DEF Modes
<1>2. Asked(id) \in Overrides /\ Asked(id).mode = "max" /\ Asked(id).reviewer = id
  BY DEF Asked, Overrides, Modes
<1>3. Balanced(f) \in Mains /\ Balanced(f).fingerprint = f
  BY DEF Balanced, Mains, Bands
<1>4. Balanced(f) # Unset
  BY <1>3, RoutingAssumption DEF Mains
<1>5. QED  BY <1>1, <1>2, <1>3, <1>4

LEMMA BeginResolveIInv == IInv /\ BeginResolve => IInv'
<1> SUFFICES ASSUME IInv, BeginResolve  PROVE IInv'
  OBVIOUS
<1>1. PICK main \in Mains \cup {Unset}, over \in Requests : Begin("resolve", main, over)
  BY DEF BeginResolve
<1>2. over \in Overrides
  BY AuthorizationAssumption
<1>3. /\ TypeOK' /\ Located' /\ OneAuthority' /\ RaisesForNamesOnly'
      /\ step' = "probe" /\ command' = "resolve"
  BY <1>1, <1>2, BeginTypes DEF Commands
<1>4. Reviewing'
  BY <1>3 DEF Reviewing
<1>5. QED  BY <1>3, <1>4 DEF IInv

LEMMA BeginPlanReviewIInv == IInv /\ BeginPlanReview => IInv'
<1> SUFFICES ASSUME IInv, BeginPlanReview  PROVE IInv'
  OBVIOUS
<1>1. PICK id \in DOMAIN Merged(layers).routes, f \in Fingerprints :
          Begin("plan-review", Balanced(f), Asked(id))
  BY DEF BeginPlanReview
<1>2. id \in Ids /\ plan' = Nothing
  BY <1>1 DEF Merged, BeginPlanReview, Begin, receipts
<1>3. /\ TypeOK' /\ Located' /\ OneAuthority' /\ RaisesForNamesOnly' /\ step' = "probe"
      /\ command' = "plan-review" /\ candidate'.main # Unset
      /\ candidate'.mode = "max" /\ candidate'.reviewers = << id >>
  BY <1>1, <1>2, BeginTypes, AskedTypes DEF Commands
<1>4. Reviewing'
  BY <1>2, <1>3 DEF Reviewing, Reviewer
<1>5. QED  BY <1>3, <1>4 DEF IInv

LEMMA BeginReviewIInv == IInv /\ BeginReview => IInv'
<1> SUFFICES ASSUME IInv, BeginReview  PROVE IInv'
  OBVIOUS
<1>1. PICK id \in DOMAIN Merged(layers).routes :
          Begin("review", Balanced(plan.main), Asked(id))
  BY DEF BeginReview
<1>2. id \in Ids /\ plan' = plan /\ plan # Nothing
  BY <1>1 DEF Merged, BeginReview, Begin, receipts
<1>3. plan.main \in Fingerprints
  BY <1>2 DEF IInv, TypeOK, Receipts
<1>4. /\ TypeOK' /\ Located' /\ OneAuthority' /\ RaisesForNamesOnly' /\ step' = "probe"
      /\ command' = "review" /\ candidate'.main # Unset
      /\ candidate'.main.fingerprint = plan.main
      /\ candidate'.mode = "max" /\ candidate'.reviewers = << id >>
  BY <1>1, <1>2, <1>3, BeginTypes, AskedTypes DEF Commands
<1>5. Reviewing'
  BY <1>2, <1>4 DEF Reviewing, Reviewer
<1>6. QED  BY <1>4, <1>5 DEF IInv

LEMMA ProbeIInv == IInv /\ Probe => IInv'
<1> SUFFICES ASSUME IInv, Probe  PROVE IInv'
  OBVIOUS
<1>1. /\ step = "probe" /\ resolution = Nothing
      /\ layers' = layers /\ command' = command /\ candidate' = candidate
      /\ report' = report /\ resolution' = resolution /\ plan' = plan /\ final' = final
  BY DEF Probe, IInv, Located, receipts
<1>2. OneAuthority'
  BY <1>1 DEF IInv, OneAuthority
<1>3. CASE /\ \E p \in [ProbedIds -> UNION { Evidence(id) : id \in ProbedIds }] :
                /\ \A id \in ProbedIds : p[id] \in Evidence(id)
                /\ probes' = [id \in Ids |-> IF id \in ProbedIds THEN p[id] ELSE NoProbe]
           /\ step' = "preflight"
  <2>1. PICK p \in [ProbedIds -> UNION { Evidence(id) : id \in ProbedIds }] :
          /\ \A id \in ProbedIds : p[id] \in Evidence(id)
          /\ probes' = [id \in Ids |-> IF id \in ProbedIds THEN p[id] ELSE NoProbe]
    BY <1>3
  <2>2. \A id : Evidence(id) \subseteq Probes
    BY EvidenceIsTyped, AuthorizationAssumption DEF Evidence
  <2>3. probes' \in [Ids -> Probes \cup {NoProbe}]
    BY <2>1, <2>2
  <2>4. TypeOK' /\ Located'
    BY <1>1, <1>3, <2>3 DEF IInv, TypeOK, Located, Running, IsCandidate
  <2>5. Reviewing' /\ RaisesForNamesOnly'
    BY <1>1, <1>3 DEF IInv, Reviewing, RaisesForNamesOnly, Running, Reviewer
  <2>6. QED  BY <1>2, <2>4, <2>5 DEF IInv
<1>4. CASE Unreported # {} /\ step' = "rejected" /\ probes' = probes
  <2>1. PICK id \in ProbedIds : Evidence(id) = {}
    BY <1>4 DEF Unreported
  <2>2. candidate.routes[id].shared
    BY <2>1, SilentProbeShares DEF Evidence
  <2>3. RaisesForNamesOnly'
    BY <1>1, <1>4, <2>1, <2>2 DEF RaisesForNamesOnly, ProbedIds
  <2>4. TypeOK' /\ Located' /\ Reviewing'
    BY <1>1, <1>4 DEF IInv, TypeOK, Located, Reviewing, Running, IsCandidate
  <2>5. QED  BY <1>2, <2>3, <2>4 DEF IInv
<1>5. CASE step' = "answered" /\ probes' = probes
  BY <1>1, <1>2, <1>5
     DEF IInv, TypeOK, Located, Reviewing, RaisesForNamesOnly, Running, IsCandidate
<1>6. QED  BY <1>3, <1>4, <1>5 DEF Probe

LEMMA ApplyEvidenceIInv == IInv /\ ApplyEvidence => IInv'
<1> SUFFICES ASSUME IInv, ApplyEvidence  PROVE IInv'
  OBVIOUS
<1>1. IsCandidate(candidate) /\ step = "preflight" /\ resolution = Nothing
  BY DEF IInv, Located, ApplyEvidence, Running
<1>2. ReportContract(candidate, Preflight(candidate, probes))
  BY <1>1, ReportIsSound
<1>3. /\ step' = "finalize" /\ report' = Preflight(candidate, probes)
      /\ layers' = layers /\ command' = command /\ candidate' = candidate
      /\ probes' = probes /\ resolution' = resolution /\ plan' = plan /\ final' = final
  BY <1>2 DEF ApplyEvidence, receipts
<1>4. report' \in Reports
  BY <1>1, <1>3, ReportIsTyped
<1>5. TypeOK' /\ Located' /\ OneAuthority'
  BY <1>1, <1>3, <1>4 DEF IInv, TypeOK, Located, OneAuthority, Running, IsCandidate
<1>6. Reviewing' /\ RaisesForNamesOnly'
  BY <1>1, <1>3 DEF IInv, Reviewing, RaisesForNamesOnly, Running, Reviewer
<1>7. QED  BY <1>5, <1>6 DEF IInv

LEMMA FinalizeIInv == IInv /\ Finalize => IInv'
<1> SUFFICES ASSUME IInv, Finalize  PROVE IInv'
  OBVIOUS
<1>1. /\ step = "finalize" /\ resolution = Nothing /\ IsCandidate(candidate)
      /\ report = Preflight(candidate, probes) /\ report # Nothing
  BY ReportIsTyped DEF IInv, Located, Finalize, Running
<1>2. ResolutionContract(candidate, report, Resolution(report)) <=> ~Misnamed(report)
  BY <1>1, ResolutionIsSound
<1>3. /\ layers' = layers /\ command' = command /\ candidate' = candidate
      /\ probes' = probes /\ report' = report /\ plan' = plan /\ final' = final
      /\ \/ step' = "rejected" /\ resolution' = resolution /\ Misnamed(report)
         \/ step' = "answered" /\ resolution' = Resolution(report) /\ ~Misnamed(report)
         \/ /\ step' = "execute" /\ resolution' = Resolution(report) /\ ~Misnamed(report)
            /\ command # "resolve" /\ Resolution(report).status = "ok"
            /\ command = "review" =>
                  \A f \in DOMAIN plan \ {"main"} : Receipt[f] = plan[f]
  BY <1>2 DEF Finalize, receipts
<1>4. TypeOK' /\ OneAuthority'
  BY <1>3 DEF IInv, TypeOK, OneAuthority, IsCandidate
<1>5. Located'
  BY <1>1, <1>3 DEF IInv, Located, Running, IsCandidate
<1>6. RaisesForNamesOnly'
  BY <1>1, <1>3 DEF RaisesForNamesOnly
<1>7. ASSUME step' # "execute"  PROVE Reviewing'
  <2>1. step' \notin Running
    BY <1>3, <1>7 DEF Running
  <2>2. QED  BY <1>7, <2>1 DEF Reviewing
<1>8. ASSUME step' = "execute"  PROVE Reviewing'
  <2>1. Resolution(report).status = report.status
    BY DEF Resolution
  <2>2. Reviewer' = Reviewer /\ Receipt' = Receipt
    BY <1>3 DEF Reviewer, Receipt
  <2>3. /\ step \in Running /\ step' \in Running
        /\ command' = command /\ command # "resolve"
        /\ Preflight(candidate', probes').status = "ok"
        /\ command = "review" =>
              \A f \in DOMAIN plan' \ {"main"} : Receipt'[f] = plan'[f]
    BY <1>1, <1>3, <1>8, <2>1, <2>2 DEF Running
  <2>4. QED  BY <1>3, <2>2, <2>3 DEF IInv, Reviewing
<1>9. QED  BY <1>4, <1>5, <1>6, <1>7, <1>8 DEF IInv

LEMMA ExecuteIInv == IInv /\ Execute => IInv'
<1> SUFFICES ASSUME IInv, Execute  PROVE IInv'
  OBVIOUS
<1>1. /\ step = "execute" /\ step' = "answered" /\ command' = command
      /\ layers' = layers /\ candidate' = candidate /\ probes' = probes
      /\ report' = report /\ resolution' = resolution
  BY DEF Execute, locals
<1>2. Receipt \in Receipts /\ Receipt.fingerprint # Receipt.main
  BY <1>1, ReceiptIsSound
<1>3. \/ plan' = plan /\ final' = final
      \/ command = "plan-review" /\ plan' = Receipt /\ final' = final
      \/ command = "review" /\ final' = Receipt /\ plan' = plan
  BY DEF Execute, receipts
<1>4. TypeOK' /\ Located'
  BY <1>1, <1>2, <1>3 DEF IInv, TypeOK, Located, Running, IsCandidate
<1>5. Reviewing' /\ RaisesForNamesOnly'
  BY <1>1 DEF IInv, Reviewing, Running, RaisesForNamesOnly
<1>6. OneAuthority'
  <2>1. CASE plan' = plan /\ final' = final
    BY <2>1 DEF IInv, OneAuthority
  <2>2. CASE command = "plan-review" /\ plan' = Receipt /\ final' = final
    <3>1. plan = Nothing
      BY <1>1, <2>2 DEF IInv, Reviewing, Running
    <3>2. final = Nothing
      BY <3>1 DEF IInv, OneAuthority
    <3>3. QED  BY <1>2, <2>2, <3>2 DEF OneAuthority
  <2>3. CASE command = "review" /\ final' = Receipt /\ plan' = plan
    <3>1. /\ plan # Nothing /\ candidate.main.fingerprint = plan.main
          /\ \A f \in DOMAIN plan \ {"main"} : Receipt[f] = plan[f]
      BY <1>1, <2>3 DEF IInv, Reviewing, Running
    <3>2. plan \in Receipts
      BY <3>1 DEF IInv, TypeOK
    <3>3. Receipt.main = plan.main
      BY <3>1 DEF Receipt
    <3>4. Receipt = plan
      BY <1>2, <3>1, <3>2, <3>3 DEF Receipts
    <3>5. QED  BY <2>3, <3>1, <3>4 DEF IInv, OneAuthority
  <2>4. QED  BY <1>3, <2>1, <2>2, <2>3
<1>7. QED  BY <1>4, <1>5, <1>6 DEF IInv

LEMMA NextIInv == IInv /\ [Next]_vars => IInv'
<1> SUFFICES ASSUME IInv, [Next]_vars  PROVE IInv'
  OBVIOUS
<1>1. CASE Next
  BY <1>1, EditIInv, ExitIInv, BeginResolveIInv, BeginPlanReviewIInv, BeginReviewIInv,
     ProbeIInv, ApplyEvidenceIInv, FinalizeIInv, ExecuteIInv DEF Next
<1>2. CASE UNCHANGED vars
  BY <1>2 DEF vars, locals, receipts, IInv, TypeOK, Located, Reviewing, OneAuthority,
              IsCandidate, Reviewer, Receipt, RaisesForNamesOnly, ProbedIds
<1>3. QED  BY <1>1, <1>2

LEMMA AlwaysIInv == Spec => []IInv
BY InitIInv, NextIInv, PTL DEF Spec

(***************************************************************************)
(* The theorems.                                                           *)
(***************************************************************************)
\* The types of the files, the locals and the receipts of every command.
THEOREM TypeCorrect == Spec => []TypeOK
<1>1. IInv => TypeOK  BY DEF IInv
<1>2. QED  BY <1>1, AlwaysIInv, PTL

\* For any configuration files, any evidence about the routes and any main loop, what
\* preflight_candidates and finalize_resolution build passes the contracts of
\* PreflightReport and Resolution, unless the selected worker has one of the two names
\* that the contract keeps for itself: a resolution ends in a ValueError for that or
\* for a credential variable that a probed route reads twice, and for nothing else.
THEOREM ResolutionRaisesForNames == Spec => []RaisesForNamesOnly
<1>1. IInv => RaisesForNamesOnly  BY DEF IInv
<1>2. QED  BY <1>1, AlwaysIInv, PTL

\* No resolution changes the mode that was asked for, and Max is never resolved while
\* a second reviewer is eligible.
THEOREM ModeFollowsRequest == Spec => []ModeIsAsked
<1>1. IInv => ModeIsAsked
  <2> SUFFICES ASSUME IInv, resolution # Nothing  PROVE ModeIsAsked
    BY DEF ModeIsAsked
  <2> DEFINE r == Preflight(candidate, probes)
  <2>1. IsCandidate(candidate) /\ resolution = Resolution(r)
    BY DEF IInv, Located
  <2>2. /\ candidate.status = "ok" <=> candidate.main # Unset
        /\ candidate.mode \in {"auto", "lite", "max"}
        /\ candidate.main # Unset => candidate.main.band \in {"authority", "balanced", "fast"}
        /\ Unset \notin {"lite", "max"}
    BY <2>1, RoutingAssumption DEF IsCandidate, Modes, Mains, Bands
  <2>3. /\ resolution.mode = r.mode
        /\ resolution.authority = IF r.mode = "max" THEN r.reviewer ELSE Unset
    BY <2>1 DEF Resolution
  <2>4. /\ \A s : Blocked(candidate, probes, s).mode = Unset
        /\ \A m, v, w : /\ Report(candidate, probes, "ok", m, v, w).mode = m
                        /\ Report(candidate, probes, "ok", m, v, w).reviewer = v
    BY DEF Blocked, Report
  <2>5. resolution.mode = "lite" <=> candidate.status = "ok" /\ InlineAuthority(candidate)
    BY <2>2, <2>3, <2>4, PreflightCases
  <2>6. resolution.mode = "max" =>
            /\ candidate.status = "ok"
            /\ ~InlineAuthority(candidate) /\ ~NeedsChoice(candidate)
            /\ EligibleReviewers(candidate, probes) = {resolution.authority}
    <3>1. ASSUME resolution.mode = "max"
          PROVE  /\ candidate.status = "ok"
                 /\ ~InlineAuthority(candidate) /\ ~NeedsChoice(candidate)
                 /\ \E id \in EligibleReviewers(candidate, probes) :
                       EligibleReviewers(candidate, probes) = {id}
                 /\ r.reviewer = First(candidate.reviewers,
                                       EligibleReviewers(candidate, probes))
      <4>1. r.mode = "max" /\ "max" # Unset
        BY <2>2, <2>3, <3>1
      <4>2. /\ \A s : r # Blocked(candidate, probes, s)
            /\ r # Report(candidate, probes, "ok", "lite", Unset,
                          SelectedWorker(candidate, probes))
        BY <2>4, <4>1
      <4>3. QED  BY <2>4, <4>2, PreflightCases
    <3>2. QED  BY <2>1, <2>3, <3>1, FirstReviewer
  <2>7. QED
    BY <2>2, <2>5, <2>6 DEF ModeIsAsked, InlineAuthority, NeedsChoice, EligibleReviewers
<1>2. QED  BY <1>1, AlwaysIInv, PTL

\* Whatever is found out about worker routes leaves mode, authority and status alone.
THEOREM WorkersHaveNoSay == Spec => []WorkersDecideNothing
<1>1. IInv => WorkersDecideNothing
  <2> SUFFICES ASSUME IInv, step = "finalize",
                      NEW w \in Names(candidate.workers) \ Names(candidate.reviewers),
                      NEW p \in {NoProbe, NoEvidence, WorkerProbe(TRUE, FALSE)}
               PROVE  LET other == Preflight(candidate, [probes EXCEPT ![w] = p])
                      IN /\ other.status = report.status /\ other.mode = report.mode
                         /\ other.reviewer = report.reviewer
    BY DEF WorkersDecideNothing
  <2>1. /\ IsCandidate(candidate) /\ probes \in [Ids -> Probes \cup {NoProbe}]
        /\ report = Preflight(candidate, probes)
    BY DEF IInv, Located, Running
  <2>2. /\ Preflight(candidate, [probes EXCEPT ![w] = p]).status = report.status
        /\ Preflight(candidate, [probes EXCEPT ![w] = p]).mode = report.mode
        /\ Preflight(candidate, [probes EXCEPT ![w] = p]).reviewer = report.reviewer
    <3> DEFINE qr == [probes EXCEPT ![w] = p]
    <3>1. Names(candidate.reviewers) \subseteq Ids
      BY <2>1, NamesAreIds DEF IsCandidate
    <3>2. \A id \in Names(candidate.reviewers) : qr[id] = probes[id]
      BY <2>1, <3>1
    <3> HIDE DEF qr
    <3>3. /\ Preflight(candidate, qr).status = Preflight(candidate, probes).status
          /\ Preflight(candidate, qr).mode = Preflight(candidate, probes).mode
          /\ Preflight(candidate, qr).reviewer = Preflight(candidate, probes).reviewer
      BY <3>2, OnlyReviewersMatter
    <3>4. QED  BY <2>1, <3>3 DEF qr
  <2>3. QED  BY <2>2
<1>2. QED  BY <1>1, AlwaysIInv, PTL

\* Both approvals of a Max invocation come from one reviewer, independent of the one
\* main loop, whatever is edited between the commands.
THEOREM ReviewersAgree == Spec => []OneAuthority
<1>1. IInv => OneAuthority  BY DEF IInv
<1>2. QED  BY <1>1, AlwaysIInv, PTL
================================================================================
