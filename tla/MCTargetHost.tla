---------------------------- MODULE MCTargetHost ----------------------------
(* Two deployments of one node, each any of the admitted actions, and one    *)
(* request for each reason a submission is refused.                          *)
EXTENDS TargetHost, TLC

Pin == [github |-> TRUE, hasQuery |-> TRUE,
        parameters |-> <<[key |-> "rev", safe |-> TRUE], [key |-> "dir", safe |-> TRUE]>>]
Branch == [github |-> TRUE, hasQuery |-> FALSE, parameters |-> <<>>]

HostRequest ==
    [kind |-> "Host", action |-> "ActivateNow", backend |-> "NixosSystemdBootV1",
     login |-> "root", storeUri |-> "Good", selector |-> "Good", builder |-> "None",
     mode |-> "Direct", definition |-> "None", policy |-> "RequireImmutable", flake |-> Pin]
HomeRequest ==
    [HostRequest EXCEPT !.kind = "Home", !.backend = "HomeManagerNixProfileV1",
                        !.login = "owner", !.mode = "Horizon", !.definition = "Projects",
                        !.policy = "ResolveAndRecord", !.flake = Branch]

MCRequests ==
    {[HostRequest EXCEPT !.action = a] : a \in HostActions \ {"Realize"}}
      \cup {[HomeRequest EXCEPT !.action = a] : a \in HomeActions}
      \cup {[HomeRequest EXCEPT !.login = "other"],
             [HomeRequest EXCEPT !.definition = "Unprojected"],
             [HostRequest EXCEPT !.flake = Branch],
             [HostRequest EXCEPT !.policy = "ResolveAndRecord"]}

Symmetry == Permutations(Deployments)
=============================================================================
