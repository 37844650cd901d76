------------------------- MODULE SubmissionAdmission -------------------------
(***************************************************************************)
(* What a deploy request is refused for before anything durable happens,    *)
(* and what its action means for the target (DeployAdmission,               *)
(* FlakeReferencePolicy and DeployActionShape in schema_runtime.rs).        *)
(*                                                                          *)
(* A request is a record: kind ("Host" or "Home"), action, backend, login   *)
(* (the login of its ssh destination: "root", "owner" for the user a home   *)
(* belongs to, "other", or "None" for a destination that names none),       *)
(* storeUri, selector and builder ("None", "Good" or "Bad"), mode           *)
(* ("Direct" or "Horizon"), definition ("None", "Projects", "Unprojected"), *)
(* policy and flake.                                                        *)
(***************************************************************************)
EXTENDS Naturals, Sequences

HostActions == {"Evaluate", "Realize", "SetBootProfile", "ActivateNow", "TestActivation",
                "ScheduleBootOnce"}
HomeActions == {"Realize", "SetProfile", "ActivateNow"}

-----------------------------------------------------------------------------
(* Flake references: a locator, and the parameters of its query in order,   *)
(* each a key and whether its value is safe for that key.  hasQuery         *)
(* separates "no query" from a query without a usable parameter.            *)

\* Every parameter has one of the keys, none twice, and each value is safe.
WellFormed(parameters, keys) ==
    /\ \A i \in DOMAIN parameters : parameters[i].key \in keys /\ parameters[i].safe
    /\ \A i, j \in DOMAIN parameters : parameters[i].key = parameters[j].key => i = j

\* A pin: exactly one revision, and at most a directory beside it.
IsImmutable(flake) ==
    /\ flake.github
    /\ flake.hasQuery
    /\ WellFormed(flake.parameters, {"rev", "dir"})
    /\ \E i \in DOMAIN flake.parameters : flake.parameters[i].key = "rev"

\* A reference to resolve: at most a ref and a directory, never a revision.
IsResolveAndRecord(flake) ==
    /\ flake.github
    /\ flake.hasQuery => /\ flake.parameters # <<>>
                         /\ WellFormed(flake.parameters, {"ref", "dir"})

\* Whether an evaluation refuses the cached resolution of the reference.
ForcesRefresh(policy, flake) == ~(policy = "RequireImmutable" /\ IsImmutable(flake))

-----------------------------------------------------------------------------
(* The preflight of a submission, in the order its checks run.              *)

Authority(r) ==
    CASE r.login = "owner" -> "MatchedUser"
      [] r.login = "root" -> "RootMediated"
      [] OTHER -> "UnprivilegedMismatch"

ValidTransport(r) == r.storeUri = "Good" /\ r.login # "None"

RoutingRejected(r) ==
    \/ r.backend # (IF r.kind = "Host" THEN "NixosSystemdBootV1" ELSE "HomeManagerNixProfileV1")
    \/ r.selector # "Good"
    \/ r.builder = "Bad"
    \/ ~ValidTransport(r)
    \/ /\ r.kind = "Home" /\ r.action # "Realize"
       /\ Authority(r) = "UnprivilegedMismatch"

\* Horizon inputs need a definition that projects the node, and direct inputs
\* take none.
ProposalRejected(r) ==
    <<r.mode, r.definition>> \notin {<<"Direct", "None">>, <<"Horizon", "Projects">>}

PolicyRejected(r) ==
    IF r.policy = "RequireImmutable" THEN ~IsImmutable(r.flake)
                                     ELSE ~IsResolveAndRecord(r.flake)

\* The first reason the request cannot be admitted, or "None".
SubmissionRejection(r) ==
    IF r.action \notin (IF r.kind = "Host" THEN HostActions ELSE HomeActions)
    THEN "UnsupportedDeployAction"
    ELSE IF RoutingRejected(r) THEN "InvalidDeploymentRouting"
    ELSE IF ProposalRejected(r) THEN "ProposalSourceUnreachable"
    ELSE IF PolicyRejected(r) THEN "FlakeReferenceMalformed"
    ELSE "None"

-----------------------------------------------------------------------------
(* What the action asks for.                                                *)

ProducesClosure(r) == ~(r.kind = "Host" /\ r.action = "Evaluate")

Activates(r) ==
    IF r.kind = "Host"
    THEN r.action \in {"SetBootProfile", "ActivateNow", "TestActivation", "ScheduleBootOnce"}
    ELSE r.action \in {"SetProfile", "ActivateNow"}

\* The slot the generation takes once it is activated.
ActivationSlot(r) ==
    CASE r.kind = "Host" /\ r.action \in {"SetBootProfile", "ScheduleBootOnce"} -> "BootPending"
      [] r.kind = "Host" /\ r.action = "TestActivation" -> "Recent"
      [] OTHER -> "Current"
=============================================================================
