-------------------------- MODULE MCDeployPipeline --------------------------
(***************************************************************************)
(* DeployPipeline for TLC: two deployments that compete for one slot.      *)
(* Deployments are interchangeable, so the safety runs use their symmetry. *)
(*                                                                         *)
(* The three properties at the end are what comments in the source say of  *)
(* the pipeline and the code does not keep.  DeployPipelineOrphan.cfg      *)
(* checks the first; the other two fail in its place in the same instance. *)
(***************************************************************************)
EXTENDS DeployPipeline, TLC

CONSTANTS d1, d2

MCDeployments == {d1, d2}
\* Every action, one of them with Horizon inputs; a self-switch to the closure that
\* is there already, or to the one that the other activations bring.
MCClosures == {"old", "new"}
MCRequests ==
  [action : Actions, composed : {FALSE}, output : {"new"}]
  \union {[action |-> "SelfSwitch", composed |-> FALSE, output |-> "old"]}
  \union {[action |-> "Realize", composed |-> TRUE, output |-> "new"]}

\* Those the liveness properties are about.
LiveRequests ==
  [action : {"Realize", "SelfTest"}, composed : {FALSE}, output : {"new"}]
  \union {[action |-> "Evaluate", composed |-> TRUE, output |-> "new"]}

Symmetry == Permutations(MCDeployments)

\* A row is dropped only when the deployment's conclusion is durable
\* (reconcile_persisted_jobs, "Terminal correlation is durable").
DroppedRowsWereConcluded ==
  \A d \in Deployments : Admitted(d) /\ ~ HasJob(d) => Concluded(d)

\* The effect that runs is the one the durable cursor names (DeployPipeline,
\* "The exact next continuation action, durably mirrored on DeployJob").
ExactContinuation ==
  \A d \in Deployments : \A effect \in Effects : At(d, effect) => job[d].resume = effect

\* A switch is only reconciled as a success once it completed
\* (reconcile_persisted_jobs, "only a COMPLETED self-switch has set the live
\* system profile").
ReconciledSwitchCompleted ==
  \A d \in Deployments : CloserAt(d, "record") => world[d] = "succeeded"
=============================================================================
