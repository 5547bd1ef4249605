--------------------------- MODULE MCAuthorization -----------------------------
(***************************************************************************)
(* Authorization for TLC: two routes of four kinds, a third identifier     *)
(* that is not configured, three models, a profile and a user layer that   *)
(* replaces one route, and a mode, list or route of each.  A few profiles  *)
(* share a credential variable or call their worker "none" or "main loop". *)
(***************************************************************************)
EXTENDS Authorization, TLC

CONSTANTS a, b, x, sol, opus, luna, high

RouteOf(transport, band, roles, read_only, pin, variant) ==
    [transport |-> transport, band |-> band, roles |-> roles, read_only |-> read_only,
     pin |-> pin, variant |-> variant, shared |-> FALSE]
Reviewing == RouteOf("external", "authority", {"reviewer"}, TRUE, sol, Unset)
Working == RouteOf("external", "balanced", {"worker"}, FALSE, sol, Unset)
Sharing(route) == [route EXCEPT !.shared = TRUE]
Kinds == { Reviewing, Working,
           RouteOf("host", "authority", {"reviewer"}, TRUE, opus, high),
           RouteOf("external", "authority", {"reviewer", "worker"}, TRUE, opus, high) }

Layer(mode, routes, reviewers, workers) ==
    [mode |-> mode, routes |-> routes, reviewers |-> reviewers, workers |-> workers]
MCConfigurations ==
    { << Layer("auto", (a :> k) @@ (b :> l), r, w) >> :
        k \in Kinds, l \in Kinds, r \in { << >>, <<a, b>> }, w \in { << >>, <<b>> } }
    \cup { << Layer("auto", (a :> k) @@ (b :> l), <<a>>, Unset),
              Layer("max", b :> k, Unset, <<b>>) >> : k \in Kinds, l \in Kinds }
    \cup { << Layer("auto", (a :> Reviewing) @@ (w :> Working), <<a>>, <<w>>) >> :
             w \in {"none", "main loop"} }
    \cup { << Layer("auto", (a :> k) @@ (b :> l), <<a>>, <<b>>) >> :
             k \in {Reviewing, Sharing(Reviewing)}, l \in {Working, Sharing(Working)} }

\* Nothing, a mode, a reviewer, or a worker.
Request(m, r, w) == [mode |-> m, reviewer |-> r, worker |-> w]
MCRequests == { Request(m, Unset, Unset) : m \in {Unset, "lite", "max"} }
              \cup { Request(Unset, x, Unset), Request("max", b, Unset),
                     Request("max", Unset, b) }

\* Evidence that probe_route does not give: an adapter that vouches for its model,
\* a report about other credentials, a sandbox of another route.
MCInjected == { [ReviewerProbe([model |-> opus, variant |-> high], FALSE)
                    EXCEPT !.source = "pinned_adapter"],
                [ReviewerProbe([model |-> sol, variant |-> high], FALSE)
                    EXCEPT !.partition = FALSE],
                [WorkerProbe(TRUE, FALSE) EXCEPT !.verified = "own_again"] }
================================================================================
