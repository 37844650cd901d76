------------------------- MODULE DeploymentDelivery -------------------------
(***************************************************************************)
(* What the store promises of a deployment's public transitions, without   *)
(* intents, outbox rows, commit logs or restarts (the doc comments of      *)
(* TransitionJournal and DeploymentLedger in src/lib.rs): transitions      *)
(* happen one at a time, each is published and then delivered exactly      *)
(* once, and a final transition is the last.                               *)
(***************************************************************************)
EXTENDS Naturals

CONSTANTS Deployments, Ordinals

VARIABLES
  status,      \* of each transition: none, begun or delivered
  final,       \* deployments whose final transition has begun
  published    \* transitions whose event readers can see

vars == <<status, final, published>>

Transitions == Deployments \X Ordinals

Init ==
  /\ status = [d \in Deployments |-> [o \in Ordinals |-> "none"]]
  /\ final = {}
  /\ published = {}

\* The next transition of a deployment, once all earlier ones are delivered.
Begin(d, o) ==
  /\ d \notin final
  /\ status[d][o] = "none"
  /\ \A p \in Ordinals : status[d][p] = (IF p < o THEN "delivered" ELSE "none")
  /\ status' = [status EXCEPT ![d][o] = "begun"]
  /\ final' \in {final, final \union {d}}
  /\ UNCHANGED published

Publish(d, o) ==
  /\ status[d][o] = "begun"
  /\ published' = published \union {<<d, o>>}
  /\ UNCHANGED <<status, final>>

Deliver(d, o) ==
  /\ status[d][o] = "begun"
  /\ <<d, o>> \in published
  /\ status' = [status EXCEPT ![d][o] = "delivered"]
  /\ UNCHANGED <<final, published>>

\* Readers lose old events, for good once they are delivered.
Retire ==
  /\ published' \subseteq published
  /\ UNCHANGED <<status, final>>

Next ==
  \/ \E d \in Deployments, o \in Ordinals : Begin(d, o) \/ Publish(d, o) \/ Deliver(d, o)
  \/ Retire

Spec == Init /\ [][Next]_vars
=============================================================================
