--------------------------- MODULE GenerationLedger ---------------------------
(***************************************************************************)
(* The live generation set and the GC-root rows of the store, as the       *)
(* activation commit (Store::record_activation, src/lib.rs) and the owner  *)
(* requests Pin, Unpin and Retire (src/schema_runtime.rs) rewrite them.    *)
(*                                                                         *)
(* An activation reads and writes under the store's write gate: one step.  *)
(* An owner request reads the roots outside the gate, decides, and writes  *)
(* a whole row under it later: two steps, and any number of request        *)
(* workers run at once.  A request that is rejected writes nothing and is  *)
(* no step.                                                                *)
(***************************************************************************)
EXTENDS FiniteSets

CONSTANTS
  Generations,   \* generation identifiers, each reserved by one admission
  Nodes,         \* cluster and node of a generation
  Environments,  \* the host environment and one per user
  Labels,        \* pin labels
  Workers        \* request workers, at most MAXIMUM_CONCURRENT_REQUESTS

NoLabel == "none"

ASSUME LedgerAssumption == NoLabel \notin Labels

\* Where a generation runs; each place has a Current generation of its own.
Places == [node : Nodes, environment : Environments]

\* activation_slot: the slots an activation effect is recorded in.
ActivationSlots == {"Current", "BootPending", "Recent"}

VARIABLES
  liveSet,  \* live-set rows
  gcRoots,  \* gc-root rows
  worker    \* volatile: what each request worker is about to write

vars == <<liveSet, gcRoots, worker>>

NoRow == [slot |-> "Absent"]

LiveGeneration == [place : Places, slot : ActivationSlots]

GcRoot == [node : Nodes, slot : ActivationSlots \union {"Pinned"},
           label : Labels \union {NoLabel}]

Idle   == [op |-> "idle"]
Worker == {Idle}
  \union [op : {"mutate"}, generation : Generations, row : GcRoot]
  \union [op : {"retract"}, generation : Generations]

TypeOK ==
  /\ liveSet \in [Generations -> {NoRow} \union LiveGeneration]
  /\ gcRoots \in [Generations -> {NoRow} \union GcRoot]
  /\ worker \in [Workers -> Worker]

Init ==
  /\ liveSet = [g \in Generations |-> NoRow]
  /\ gcRoots = [g \in Generations |-> NoRow]
  /\ worker = [w \in Workers |-> Idle]

-----------------------------------------------------------------------------
Live(g)   == liveSet[g] # NoRow
Rooted(g) == gcRoots[g] # NoRow

IsCurrent(g, place) == Live(g) /\ liveSet[g] = [place |-> place, slot |-> "Current"]

\* Mutant: the generation to replace is looked up by its root's slot.
PriorCurrent_ByRoot(place) ==
  {g \in Generations : Live(g) /\ liveSet[g].place = place
                         /\ Rooted(g) /\ gcRoots[g].slot = "Current"}

\* Mutant: the deployment environment is not compared.
PriorCurrent_AnyEnvironment(place) ==
  {g \in Generations : Live(g) /\ liveSet[g].place.node = place.node
                         /\ liveSet[g].slot = "Current"}

PriorCurrent(place) == {g \in Generations : IsCurrent(g, place)}

Replaced(slot, place) == IF slot = "Current" THEN PriorCurrent(place) ELSE {}

Demote(row) == [row EXCEPT !.slot = "Recent"]

\* record_activation: the generation, its root, and the demotion of the one it
\* replaces are one commit.  (It raises the identifier counters to what the
\* admission of the generation already reserved.)
RecordActivation(g, place, slot) ==
  /\ ~ Live(g) /\ ~ Rooted(g)
  /\ liveSet' = [h \in Generations |->
       IF h = g THEN [place |-> place, slot |-> slot]
       ELSE IF h \in Replaced(slot, place) THEN Demote(liveSet[h]) ELSE liveSet[h]]
  /\ gcRoots' = [h \in Generations |->
       IF h = g THEN [node |-> place.node, slot |-> slot, label |-> NoLabel]
       ELSE IF h \in Replaced(slot, place) /\ Rooted(h) THEN Demote(gcRoots[h]) ELSE gcRoots[h]]
  /\ UNCHANGED worker

-----------------------------------------------------------------------------
Prepare(w, request) ==
  /\ worker[w] = Idle
  /\ worker' = [worker EXCEPT ![w] = request]
  /\ UNCHANGED <<liveSet, gcRoots>>

\* A label is free unless some root, of any node, carries it.
LabelFree(g, label) == \A h \in Generations : Rooted(h) => gcRoots[h].label # label

\* pin_generation, up to its write.  The root may already carry a label.
Pin(w, g, label) ==
  /\ Rooted(g)
  /\ LabelFree(g, label)
  /\ Prepare(w, [op |-> "mutate", generation |-> g,
                 row |-> [gcRoots[g] EXCEPT !.slot = "Pinned", !.label = label]])

\* Mutant: an unpinned generation is taken for the running one again.
UnpinnedSlot_Current == "Current"

UnpinnedSlot == "Recent"

\* unpin_generation: the first root with that label on that node.
Unpin(w, g) ==
  /\ Rooted(g)
  /\ gcRoots[g].label # NoLabel
  /\ Prepare(w, [op |-> "mutate", generation |-> g,
                 row |-> [gcRoots[g] EXCEPT !.slot = UnpinnedSlot, !.label = NoLabel]])

Retirable(g) == Rooted(g) /\ gcRoots[g].slot # "Pinned"

\* retire_generation, up to its retraction.
Retire(w, g) ==
  /\ Retirable(g)
  /\ Prepare(w, [op |-> "retract", generation |-> g])

\* Mutant: the write inserts a row that is gone.
Writable_Upsert(g) == TRUE

Writable(g) == Rooted(g)

\* mutate_gc_root, retract_gc_root.  A write to a row that is gone is an error,
\* and the request panics.
Commit(w) ==
  /\ worker[w] # Idle
  /\ LET g == worker[w].generation
     IN  gcRoots' = IF Writable(g)
                    THEN [gcRoots EXCEPT ![g] =
                            IF worker[w].op = "mutate" THEN worker[w].row ELSE NoRow]
                    ELSE gcRoots
  /\ worker' = [worker EXCEPT ![w] = Idle]
  /\ UNCHANGED liveSet

\* The daemon stops: requests between their read and their write are lost.
Crash ==
  /\ \E w \in Workers : worker[w] # Idle
  /\ worker' = [w \in Workers |-> Idle]
  /\ UNCHANGED <<liveSet, gcRoots>>

Request(w) ==
  \E g \in Generations :
    \/ \E label \in Labels : Pin(w, g, label)
    \/ Unpin(w, g)
    \/ Retire(w, g)

Next ==
  \/ \E g \in Generations, place \in Places, slot \in ActivationSlots :
       RecordActivation(g, place, slot)
  \/ \E w \in Workers : Request(w) \/ Commit(w)
  \/ Crash

Spec == Init /\ [][Next]_vars

-----------------------------------------------------------------------------
(* Properties.                                                             *)

\* The daemon knows one current generation of a place, whatever owners pinned or
\* retired (tests/durable_resume.rs,
\* current_generation_is_unique_per_host_or_user_environment_across_reopen).
OneCurrent ==
  \A g, h \in Generations : \A place \in Places :
    IsCurrent(g, place) /\ IsCurrent(h, place) => g = h

\* A root is only kept as current for a generation that still is: no request
\* brings back the slot it read before a later activation.
CurrentRootsAreCurrent ==
  \A g \in Generations :
    Rooted(g) /\ gcRoots[g].slot = "Current" => Live(g) /\ liveSet[g].slot = "Current"

\* A generation whose root was retired never gets a root again, so that what the
\* owner gave up is not protected behind their back.
RetiredStaysRetired ==
  [][\A g \in Generations : Live(g) /\ ~ Rooted(g) => ~ Rooted(g)']_vars

\* The current generation of a place loses its slot only to its replacement.
DemotedOnlyByReplacement ==
  [][\A g \in Generations, place \in Places :
       IsCurrent(g, place) /\ ~ IsCurrent(g, place)' =>
         \E h \in Generations : ~ Live(h) /\ IsCurrent(h, place)']_vars
=============================================================================
