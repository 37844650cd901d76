-------------------------- MODULE TransitionJournal --------------------------
(***************************************************************************)
(* The exactly-once transition journal of the Lojix store (src/lib.rs,     *)
(* traits TransitionJournal, DeploymentLedger and EventHistory).           *)
(*                                                                         *)
(* Every public change of a deployment is a TRANSITION: one commit writes  *)
(* the record change together with a write-ahead intent, and four further  *)
(* commits (bind, dispatch, append, acknowledge) deliver the intent's      *)
(* event to the public event log.  Each commit is durable and atomic and   *)
(* runs under the store's write gate, but the gate is released between     *)
(* them, so the deliveries of different deployments and the compaction of  *)
(* the event history interleave, and the daemon may die between any two.   *)
(*                                                                         *)
(* An action is one critical section of the write gate.  Commit sequence   *)
(* numbers are counted only for the commits that write an intent and its   *)
(* deployment record together: no other number is ever read back.          *)
(***************************************************************************)
EXTENDS Integers, FiniteSets

CONSTANTS
  MaxDeployments,   \* bound: deployment identifiers the model may mint
  MaxOrdinal,       \* bound: largest transition ordinal of one deployment
  MaxPosition,      \* bound: event-log positions the model may allocate
  MaxCrashes,       \* bound: crashes of the daemon
  Retention,        \* EventLogRetention, 4096 entries in the daemon
  CommitRetention   \* raw commits kept by the configured policy, 4096 in the daemon

ASSUME JournalAssumption ==
  /\ MaxDeployments \in Nat /\ MaxOrdinal \in Nat /\ MaxPosition \in Nat
  /\ MaxCrashes \in Nat
  /\ Retention \in Nat \ {0}
  /\ CommitRetention \in Nat \ {0}

Deployments == 1 .. MaxDeployments
Ordinals    == 0 .. MaxOrdinal

\* The writer of container and cache-retention events, next to one driver per
\* deployment: the admission actor for ordinal 0, its pipeline afterwards.
Observer == 0
Writers  == Deployments \union {Observer}

NoPosition == -1
NoMarker   == 0

Kinds == {"Submitted", "Phase", "Terminal"}

VARIABLES
  allocation,    \* identifier allocation row: next deployment and position
  record,        \* deployment records, by deployment identifier
  jobs,          \* deployments that own a restart cursor (a deploy job row)
  intents,       \* write-ahead intents, by deployment and ordinal
  outbox,        \* private delivery rows
  eventLog,      \* public event log
  commits,       \* the store's commit sequence (see above)
  versionedLog,  \* retained raw commits that name an intent and its record
  step,          \* volatile: where each writer is between two commits
  reserved,      \* volatile: event position a writer reserved and not yet used
  mode,          \* volatile: life of the daemon
  crashes        \* bound only: crashes so far

durable  == <<allocation, record, jobs, intents, outbox, eventLog, commits, versionedLog>>
volatile == <<step, reserved, mode, crashes>>
vars     == <<durable, volatile>>

AbsentIntent ==
  [kind |-> "None", position |-> NoPosition, marker |-> NoMarker, state |-> "Absent"]

\* An intent has its marker exactly from its binding on.
Intent ==
  {AbsentIntent}
  \union [kind : Kinds, position : Nat, marker : {NoMarker}, state : {"Pending"}]
  \union [kind : Kinds, position : Nat, marker : Nat \ {NoMarker},
          state : {"Bound", "Appended", "Acknowledged"}]

NewIntent(kind, position) ==
  [kind |-> kind, position |-> position, marker |-> NoMarker, state |-> "Pending"]

\* A deployment event carries its transition's marker; any other event has none.
Event == [deployment : Writers,
          kind       : Kinds \union {"Other"},
          position   : Nat,
          marker     : Nat]

OutboxRow == [event : Event, state : {"Pending", "Dispatched", "Acknowledged"}]

\* A record is Terminal when it holds its terminal outcome.
Record == [lifecycle       : {"Absent", "Open", "Terminal"},
           admissionMarker : Nat,
           terminalMarker  : Nat]

AbsentRecord ==
  [lifecycle |-> "Absent", admissionMarker |-> NoMarker, terminalMarker |-> NoMarker]

Steps == {"idle", "bind", "dispatch", "append", "acknowledge", "maintain", "wipe", "trim"}

Idle == [at |-> "idle", ordinal |-> 0]

Modes == {"serving", "down", "requeue", "intents", "outbox", "jobs", "failed"}

TypeOK ==
  /\ allocation \in [deployment : 1 .. MaxDeployments + 1, position : Nat]
  /\ record \in [Deployments -> Record]
  /\ jobs \subseteq Deployments
  /\ intents \in [Deployments -> [Ordinals -> Intent]]
  /\ outbox \subseteq OutboxRow
  /\ eventLog \subseteq Event
  /\ commits \in Nat
  /\ versionedLog \subseteq [sequence : Nat \ {0}, deployment : Deployments, ordinal : Ordinals]
  /\ step \in [Writers -> [at : Steps, ordinal : Ordinals]]
  /\ reserved \in [Writers -> Nat \union {NoPosition}]
  /\ mode \in Modes
  /\ crashes \in Nat

Init ==
  /\ allocation = [deployment |-> 1, position |-> 0]
  /\ record = [d \in Deployments |-> AbsentRecord]
  /\ jobs = {}
  /\ intents = [d \in Deployments |-> [o \in Ordinals |-> AbsentIntent]]
  /\ outbox = {}
  /\ eventLog = {}
  /\ commits = 0
  /\ versionedLog = {}
  /\ step = [w \in Writers |-> Idle]
  /\ reserved = [w \in Writers |-> NoPosition]
  /\ mode = "serving"
  /\ crashes = 0

-----------------------------------------------------------------------------
Present(d, o)     == intents[d][o].state # "Absent"
Undelivered(d, o) == intents[d][o].state \notin {"Absent", "Acknowledged"}

\* Mutant: the transition reuses the largest ordinal.
NextOrdinal_Reused(d, o) ==
  /\ \A p \in Ordinals : Present(d, p) => p <= o
  /\ o = 0 \/ Present(d, o)

\* transition_ordinal: one past the largest ordinal of the deployment's intents.
NextOrdinal(d, o) ==
  /\ \A p \in Ordinals : Present(d, p) => p < o
  /\ o = 0 \/ Present(d, o - 1)

\* Mutant: only intents that are not yet bound count as undelivered.
AllDelivered_OnlyPending(d) == \A o \in Ordinals : intents[d][o].state # "Pending"

AllDelivered(d) == \A o \in Ordinals : ~ Undelivered(d, o)

EventOf(d, o) ==
  [deployment |-> d, kind |-> intents[d][o].kind,
   position |-> intents[d][o].position, marker |-> intents[d][o].marker]

OutboxRowsOf(d, o) == {row \in outbox : row.event.deployment = d
                                        /\ row.event.marker = intents[d][o].marker}

\* The write gate: a compaction holds it across its two durable steps.
GateFree == \A w \in Writers : step[w].at # "wipe"

At(w, s)     == step[w].at = s
GoTo(w, s)   == step' = [step EXCEPT ![w].at = s]
SetIntent(d, o, intent) == intents' = [intents EXCEPT ![d][o] = intent]

\* One commit that writes intent (d, o) and record d together.
CommitWithRecord(d, o) ==
  /\ commits' = commits + 1
  /\ versionedLog' = versionedLog \union
       {[sequence |-> commits + 1, deployment |-> d, ordinal |-> o]}

Serving == mode = "serving" /\ GateFree

-----------------------------------------------------------------------------
(* Transitions begin: record, intent and cursor in one commit.             *)

\* The admission actor handles one request at a time.
AdmissionFree == \A d \in Deployments : At(d, "idle") \/ step[d].ordinal > 0

\* What admission and rejection share: both mint the identifiers and the
\* position and write ordinal 0 of a new record.
BeginFirst(d, lifecycle, kind) ==
  /\ Serving /\ AdmissionFree
  /\ d = allocation.deployment
  /\ allocation.position <= MaxPosition
  /\ allocation' = [deployment |-> d + 1, position |-> allocation.position + 1]
  /\ record' = [record EXCEPT ![d].lifecycle = lifecycle]
  /\ SetIntent(d, 0, NewIntent(kind, allocation.position))
  /\ CommitWithRecord(d, 0)
  /\ step' = [step EXCEPT ![d] = [at |-> "bind", ordinal |-> 0]]
  /\ UNCHANGED <<outbox, eventLog, reserved, mode, crashes>>

BeginAdmission(d) ==
  /\ BeginFirst(d, "Open", "Submitted")
  /\ jobs' = jobs \union {d}

BeginRejection(d) ==
  /\ BeginFirst(d, "Terminal", "Terminal")
  /\ UNCHANGED jobs

PositionTaken == [allocation EXCEPT !.position = @ + 1]

\* Nothing in these commits asks for the row of the deployment: only the task that
\* owns the row drives it (DeployPipeline!BeginsAreAccepted).
Driven(d) == d \in jobs

\* A position is reserved in a commit of its own, before the event is built.
AllocatePosition(w) ==
  /\ Serving
  /\ At(w, "idle") /\ reserved[w] = NoPosition
  /\ w \in Deployments => Driven(w)
  /\ allocation.position <= MaxPosition
  /\ reserved' = [reserved EXCEPT ![w] = allocation.position]
  /\ allocation' = PositionTaken
  /\ UNCHANGED <<record, jobs, intents, outbox, eventLog, commits, versionedLog,
                 step, mode, crashes>>

\* Mutant: the phase commit does not look for the job row.
HasCursor_Unchecked(d) == d \in Deployments

HasCursor(d) == d \in jobs

BeginPhase(d, o) ==
  /\ Serving
  /\ At(d, "idle") /\ reserved[d] # NoPosition
  /\ record[d].lifecycle # "Absent"
  /\ HasCursor(d)
  /\ AllDelivered(d)
  /\ \A event \in eventLog : event.position # reserved[d]
  /\ NextOrdinal(d, o)
  /\ record' = [record EXCEPT ![d].lifecycle = "Open", ![d].terminalMarker = NoMarker]
  /\ SetIntent(d, o, NewIntent("Phase", reserved[d]))
  /\ CommitWithRecord(d, o)
  /\ step' = [step EXCEPT ![d] = [at |-> "bind", ordinal |-> o]]
  /\ reserved' = [reserved EXCEPT ![d] = NoPosition]
  /\ UNCHANGED <<allocation, jobs, outbox, eventLog, mode, crashes>>

BeginTerminal(d, o) ==
  /\ Serving
  /\ Driven(d)
  /\ At(d, "idle")
  /\ record[d].lifecycle = "Open"
  /\ AllDelivered(d)
  /\ NextOrdinal(d, o)
  /\ allocation.position <= MaxPosition
  /\ allocation' = PositionTaken
  /\ record' = [record EXCEPT ![d].lifecycle = "Terminal", ![d].terminalMarker = NoMarker]
  /\ SetIntent(d, o, NewIntent("Terminal", allocation.position))
  /\ CommitWithRecord(d, o)
  /\ step' = [step EXCEPT ![d] = [at |-> "bind", ordinal |-> o]]
  /\ UNCHANGED <<jobs, outbox, eventLog, reserved, mode, crashes>>

-----------------------------------------------------------------------------
(* complete_pending_transition_intent: four critical sections, driven by   *)
(* the deployment's writer while serving and by the opening store in       *)
(* recovery.                                                               *)

Delivering(d, s) ==
  /\ mode \in {"serving", "intents"} /\ GateFree
  /\ At(d, s)

\* Mutant: the marker is borrowed from the database head.
SourceCommits_Head(d, o) == {commits}

\* The raw commits that name both the intent and its record.
SourceCommits(d, o) ==
  {entry.sequence : entry \in {e \in versionedLog : e.deployment = d /\ e.ordinal = o}}

Bindable(d, o, marker) ==
  /\ SourceCommits(d, o) = {marker}
  /\ intents[d][o].kind = "Terminal" => record[d].lifecycle = "Terminal"
  /\ \A row \in outbox : ~ (row.event.deployment = d /\ row.event.marker = marker)

MarkRecord(d, kind, marker) ==
  record' = [record EXCEPT
    ![d].admissionMarker = IF kind = "Submitted" THEN marker ELSE @,
    ![d].terminalMarker  = IF kind = "Terminal" THEN marker ELSE @]

\* An intent that already holds its marker is returned as it is.
BindAgain(d) ==
  /\ Delivering(d, "bind")
  /\ intents[d][step[d].ordinal].marker # NoMarker
  /\ GoTo(d, "dispatch")
  /\ UNCHANGED <<durable, reserved, mode, crashes>>

\* Mutant: the binding forgets to write the marker into the intent.
Bound_Unmarked(intent, marker) == [intent EXCEPT !.state = "Bound"]

Bound(intent, marker) == [intent EXCEPT !.marker = marker, !.state = "Bound"]

Bind(d, marker) ==
  LET o     == step[d].ordinal
      bound == Bound(intents[d][o], marker)
  IN  /\ Delivering(d, "bind")
      /\ intents[d][o].marker = NoMarker
      /\ Bindable(d, o, marker)
      /\ SetIntent(d, o, bound)
      /\ outbox' = outbox \union
           {[event |-> [EventOf(d, o) EXCEPT !.marker = marker], state |-> "Pending"]}
      /\ MarkRecord(d, bound.kind, marker)
      /\ IF bound.kind = "Phase" THEN UNCHANGED <<commits, versionedLog>>
                                 ELSE CommitWithRecord(d, o)
      /\ GoTo(d, "dispatch")
      /\ UNCHANGED <<allocation, jobs, eventLog, reserved, mode, crashes>>

\* The one delivery row of the intent, with the intent's exact payload.
ExactRow(d, o, row) == row \in OutboxRowsOf(d, o) /\ row.event = EventOf(d, o)

Dispatchable(d, o) == \E row \in outbox : ExactRow(d, o, row)

Dispatch(d) ==
  LET o == step[d].ordinal
  IN  /\ Delivering(d, "dispatch")
      /\ Dispatchable(d, o)
      /\ outbox' = {IF ExactRow(d, o, row) /\ row.state = "Pending"
                    THEN [row EXCEPT !.state = "Dispatched"] ELSE row : row \in outbox}
      /\ GoTo(d, "append")
      /\ UNCHANGED <<allocation, record, jobs, intents, eventLog, commits, versionedLog,
                     reserved, mode, crashes>>

Appendable(d, o) ==
  \A event \in eventLog :
    event.position = intents[d][o].position => event = EventOf(d, o)

Append(d) ==
  LET o == step[d].ordinal
  IN  /\ Delivering(d, "append")
      /\ Appendable(d, o)
      /\ eventLog' = eventLog \union {EventOf(d, o)}
      /\ SetIntent(d, o, [intents[d][o] EXCEPT !.state = "Appended"])
      /\ GoTo(d, "acknowledge")
      /\ UNCHANGED <<allocation, record, jobs, outbox, commits, versionedLog,
                     reserved, mode, crashes>>

Acknowledgeable(d, o) == EventOf(d, o) \in eventLog /\ Dispatchable(d, o)

\* Mutant: every acknowledgement retracts the job.
JobsAfter_AnyKind(d, o) == jobs \ {d}

\* The acknowledgement of a terminal event retracts the job.
JobsAfter(d, o) == IF intents[d][o].kind = "Terminal" THEN jobs \ {d} ELSE jobs

\* The writer then returns to its caller: a phase and a terminal transition
\* maintain the event history, an admission and a rejection do not, and neither
\* does recovery.
Acknowledge(d) ==
  LET o == step[d].ordinal
  IN  /\ Delivering(d, "acknowledge")
      /\ Acknowledgeable(d, o)
      /\ outbox' = {IF ExactRow(d, o, row) THEN [row EXCEPT !.state = "Acknowledged"]
                                           ELSE row : row \in outbox}
      /\ SetIntent(d, o, [intents[d][o] EXCEPT !.state = "Acknowledged"])
      /\ jobs' = JobsAfter(d, o)
      /\ GoTo(d, IF mode = "serving" /\ o > 0 THEN "maintain" ELSE "idle")
      /\ UNCHANGED <<allocation, record, eventLog, commits, versionedLog,
                     reserved, mode, crashes>>

Ready(d, o) ==
  \/ At(d, "bind") /\ intents[d][o].marker # NoMarker
  \/ At(d, "bind") /\ \E m \in SourceCommits(d, o) : Bindable(d, o, m)
  \/ At(d, "dispatch") /\ Dispatchable(d, o)
  \/ At(d, "append") /\ Appendable(d, o)
  \/ At(d, "acknowledge") /\ Acknowledgeable(d, o)

\* A critical section that returns an error ends the delivery where it is.  The
\* live caller gives up; the opening store refuses to open.
Refuse(d) ==
  /\ \E s \in {"bind", "dispatch", "append", "acknowledge"} : Delivering(d, s)
  /\ ~ Ready(d, step[d].ordinal)
  /\ step' = [step EXCEPT ![d] = Idle]
  /\ mode' = IF mode = "intents" THEN "failed" ELSE mode
  /\ UNCHANGED <<durable, reserved, crashes>>

-----------------------------------------------------------------------------
(* Other events and the maintenance of the event history.                  *)

\* append_event_log_entry and record_container_transition; the container row
\* has the key and the lifetime of its event.
AppendOther ==
  /\ Serving
  /\ At(Observer, "idle") /\ reserved[Observer] # NoPosition
  /\ \A event \in eventLog : event.position # reserved[Observer]
  /\ eventLog' = eventLog \union
       {[deployment |-> Observer, kind |-> "Other",
         position |-> reserved[Observer], marker |-> NoMarker]}
  /\ reserved' = [reserved EXCEPT ![Observer] = NoPosition]
  /\ GoTo(Observer, "maintain")
  /\ UNCHANGED <<allocation, record, jobs, intents, outbox, commits, versionedLog,
                 mode, crashes>>

\* All but the newest Retention entries, in position order.
Retired ==
  {event \in eventLog :
     Cardinality({newer \in eventLog : newer.position > event.position}) >= Retention}

\* Mutant: a delivery row is retired with its event whatever its state.
RetiredRows_AnyState ==
  {row \in outbox : \E event \in Retired : event.position = row.event.position}

RetiredRows ==
  {row \in outbox : /\ row.state = "Acknowledged"
                    /\ \E event \in Retired : event.position = row.event.position}

\* The group commit of compact_event_history: delivery rows that are not yet
\* acknowledged outlive the event they deliver.
CompactRows(w) ==
  /\ Serving
  /\ At(w, "maintain")
  /\ Retired # {}
  /\ eventLog' = eventLog \ Retired
  /\ outbox' = outbox \ RetiredRows
  /\ GoTo(w, "wipe")
  /\ UNCHANGED <<allocation, record, jobs, intents, commits, versionedLog,
                 reserved, mode, crashes>>

\* compact_versioned_history with retention 0, still under the write gate.
CompactVersionedHistory(w) ==
  /\ mode = "serving"
  /\ At(w, "wipe")
  /\ versionedLog' = {}
  /\ GoTo(w, "trim")
  /\ UNCHANGED <<allocation, record, jobs, intents, outbox, eventLog, commits,
                 reserved, mode, crashes>>

NothingToCompact(w) ==
  /\ Serving
  /\ At(w, "maintain")
  /\ Retired = {}
  /\ GoTo(w, "trim")
  /\ UNCHANGED <<durable, reserved, mode, crashes>>

\* Whether or not a row was retired, the raw commits past the configured
\* retention go too, outside the write gate.
CompactConfiguredHistory(w) ==
  /\ mode = "serving"
  /\ At(w, "trim")
  /\ versionedLog' = {entry \in versionedLog : entry.sequence + CommitRetention > commits}
  /\ GoTo(w, "idle")
  /\ UNCHANGED <<allocation, record, jobs, intents, outbox, eventLog, commits,
                 reserved, mode, crashes>>

Maintain(w) ==
  \/ CompactRows(w)
  \/ CompactVersionedHistory(w)
  \/ NothingToCompact(w)
  \/ CompactConfiguredHistory(w)

-----------------------------------------------------------------------------
(* The daemon dies at any point and its service manager starts it again;   *)
(* open_unchecked then runs its recovery passes in order.                  *)

Crash ==
  /\ mode \notin {"down", "failed"}
  /\ crashes < MaxCrashes
  /\ crashes' = crashes + 1
  /\ mode' = "down"
  /\ step' = [w \in Writers |-> Idle]
  /\ reserved' = [w \in Writers |-> NoPosition]
  /\ UNCHANGED durable

Restart ==
  /\ mode \in {"down", "failed"}
  /\ mode' = "requeue"
  /\ UNCHANGED <<durable, step, reserved, crashes>>

\* Mutant: an acknowledged delivery is requeued too.
Requeued_Acknowledged(row) == [row EXCEPT !.state = "Pending"]

Requeued(row) ==
  IF row.state = "Dispatched" THEN [row EXCEPT !.state = "Pending"] ELSE row

RequeueDispatchedOutbox ==
  /\ mode = "requeue"
  /\ outbox' = {Requeued(row) : row \in outbox}
  /\ mode' = "intents"
  /\ UNCHANGED <<allocation, record, jobs, intents, eventLog, commits, versionedLog,
                 step, reserved, crashes>>

AllIdle == \A w \in Writers : At(w, "idle")

\* Mutant: an intent whose event is in the log counts as done.
Unreconciled_ButAppended(d, o) == intents[d][o].state \in {"Pending", "Bound"}

Unreconciled(d, o) == Undelivered(d, o)

\* The opening store completes the undelivered intents one by one, in an order
\* the model leaves open.
ReconcileIntent(d, o) ==
  /\ mode = "intents" /\ AllIdle
  /\ Unreconciled(d, o)
  /\ step' = [step EXCEPT ![d] = [at |-> "bind", ordinal |-> o]]
  /\ UNCHANGED <<durable, reserved, mode, crashes>>

IntentsReconciled ==
  /\ mode = "intents" /\ AllIdle
  /\ \A d \in Deployments, o \in Ordinals : ~ Unreconciled(d, o)
  /\ mode' = "outbox"
  /\ UNCHANGED <<durable, step, reserved, crashes>>

DeploymentEvents == {event \in eventLog : event.kind # "Other"}

SameKey(e, f) == e.deployment = f.deployment /\ e.marker = f.marker

\* Every deployment event of the log without a delivery row gets one.
MissingRows ==
  {[event |-> event, state |-> "Pending"] :
     event \in {e \in DeploymentEvents : \A row \in outbox : ~ SameKey(row.event, e)}}

\* Two payloads under one delivery key.
Mismatched ==
  \E e \in DeploymentEvents : \E f \in DeploymentEvents \union {row.event : row \in outbox} :
    SameKey(e, f) /\ e # f

ReconcileDeploymentOutbox ==
  /\ mode = "outbox"
  /\ IF Mismatched THEN mode' = "failed" /\ UNCHANGED outbox
                   ELSE mode' = "jobs" /\ outbox' = outbox \union MissingRows
  /\ UNCHANGED <<allocation, record, jobs, intents, eventLog, commits, versionedLog,
                 step, reserved, crashes>>

-----------------------------------------------------------------------------
(* Before it serves, the daemon settles the restart rows of the store it   *)
(* opened (DeployPipeline tells which row is resumed and which is dropped).*)

\* retract_deploy_job: the row of a deployment whose phase is Activated or Failed
\* is dropped, whether or not a terminal was ever written.  A retraction touches
\* its own row only, so it commutes with whatever the pipelines resumed from the
\* other rows write meanwhile.
RetractDeployJob(d) ==
  /\ mode = "jobs"
  /\ d \in jobs
  /\ \E o \in Ordinals : intents[d][o].kind = "Phase"
  /\ jobs' = jobs \ {d}
  /\ UNCHANGED <<allocation, record, intents, outbox, eventLog, commits, versionedLog,
                 volatile>>

JobsReconciled ==
  /\ mode = "jobs"
  /\ mode' = "serving"
  /\ UNCHANGED <<durable, step, reserved, crashes>>

-----------------------------------------------------------------------------
Begin(d) ==
  \/ BeginAdmission(d)
  \/ BeginRejection(d)
  \/ \E o \in Ordinals : BeginPhase(d, o) \/ BeginTerminal(d, o)

Deliver(d) ==
  \/ BindAgain(d)
  \/ \E marker \in SourceCommits(d, step[d].ordinal) : Bind(d, marker)
  \/ Dispatch(d)
  \/ Append(d)
  \/ Acknowledge(d)
  \/ Refuse(d)

Reopen ==
  \/ Restart
  \/ RequeueDispatchedOutbox
  \/ \E d \in Deployments, o \in Ordinals : ReconcileIntent(d, o)
  \/ IntentsReconciled
  \/ ReconcileDeploymentOutbox
  \/ \E d \in Deployments : RetractDeployJob(d)
  \/ JobsReconciled

Next ==
  \/ \E d \in Deployments : Begin(d) \/ Deliver(d)
  \/ \E w \in Writers : AllocatePosition(w) \/ Maintain(w)
  \/ AppendOther
  \/ Crash
  \/ Reopen

Spec == Init /\ [][Next]_vars

\* A writer between two critical sections is a running thread, and the service
\* manager restarts the daemon (Restart = "always", flake.nix); nothing obliges
\* a client to begin a transition.
Fairness ==
  /\ \A d \in Deployments : WF_vars(Deliver(d))
  /\ \A w \in Writers : WF_vars(Maintain(w))
  /\ WF_vars(Reopen)

FairSpec == Spec /\ Fairness

-----------------------------------------------------------------------------
(* Properties.                                                             *)

Accepted(d)         == intents[d][0].kind = "Submitted"
TerminalReported(d) == \E o \in Ordinals :
  intents[d][o].kind = "Terminal" /\ intents[d][o].state = "Acknowledged"

\* One transition at a time: an intent that is not acknowledged is the last of
\* its deployment, so no later transition can leap over it
\* (reconcile_pending_transition_intents: "a later phase can never leap an
\* earlier record mutation whose public transition was not delivered").
UndeliveredIsLast ==
  \A d \in Deployments : \A o, p \in Ordinals :
    Undelivered(d, o) /\ Present(d, p) => p <= o

\* Two intents never share a marker, a marker is the number of a commit the
\* store has made, and as long as that commit is retained it names the very
\* transition that carries the marker: none is borrowed from another
\* transition's commit (initial_intent_marker, "one raw commit").
MarkersAreDistinct ==
  \A d \in Deployments : \A o \in Ordinals : intents[d][o].marker # NoMarker =>
    /\ \A e \in Deployments : \A p \in Ordinals :
         intents[e][p].marker = intents[d][o].marker => e = d /\ p = o
    /\ intents[d][o].marker \in 1 .. commits
    /\ \A entry \in versionedLog :
         entry.sequence = intents[d][o].marker => entry.deployment = d /\ entry.ordinal = o

\* Whatever the public log says of a deployment was said by exactly one bound
\* intent, with the payload of that intent, and no position is used twice.
EveryEventHasItsIntent ==
  /\ \A event \in DeploymentEvents :
       \E d \in Deployments, o \in Ordinals :
         intents[d][o].state \in {"Appended", "Acknowledged"} /\ event = EventOf(d, o)
  /\ \A e, f \in eventLog : e.position = f.position => e = f

\* The recovery payload of an undelivered transition survives every compaction,
\* and an acknowledged event and its delivery row are retired together
\* (compact_event_history, "remains the recovery payload").
RecoveryPayloadKept ==
  \A d \in Deployments, o \in Ordinals :
    /\ intents[d][o].state \in {"Bound", "Appended"} =>
         \E row \in outbox : row.event = EventOf(d, o) /\ row.state # "Acknowledged"
    /\ intents[d][o].state = "Acknowledged" =>
         ((EventOf(d, o) \in eventLog) <=>
          (\E row \in outbox : row.event = EventOf(d, o) /\ row.state = "Acknowledged"))

\* A restart cursor belongs to an accepted deployment whose terminal event is not
\* acknowledged, and no transition that is still to be delivered is left without
\* it (begin_terminal_transition: "a crash cannot turn an unreported terminal
\* into an orphan").  The only cursors that go before a terminal is reported are
\* those a start drops: every transition of theirs is delivered, the last is a
\* phase, and no terminal was written.
UndeliveredKeepsItsCursor ==
  \A d \in Deployments :
    /\ d \in jobs => Accepted(d) /\ ~ TerminalReported(d)
    /\ Accepted(d) /\ ~ TerminalReported(d) /\ d \notin jobs =>
         /\ AllDelivered(d)
         /\ record[d].lifecycle # "Terminal"
         /\ \E o \in Ordinals : intents[d][o].kind = "Phase"

\* An acknowledged event that has been retired never comes back, neither in the
\* log nor in the outbox (requeue_dispatched_outbox: "an acknowledged transition
\* is never re-delivered").
NeverRedelivered ==
  [][\A d \in Deployments, o \in Ordinals :
       intents[d][o].state = "Acknowledged" =>
         /\ EventOf(d, o) \in eventLog' => EventOf(d, o) \in eventLog
         /\ \A row \in outbox' : row.event = EventOf(d, o) => row \in outbox]_vars

\* A terminal deployment stays terminal, and begins no further transition, even
\* though begin_deployment_phase_transition never looks at the terminal.
TerminalIsFinal ==
  [][\A d \in Deployments :
       record[d].lifecycle = "Terminal" =>
         /\ record'[d].lifecycle = "Terminal"
         /\ \A o \in Ordinals : Present(d, o)' => Present(d, o)]_vars

\* What a compaction by another writer can do to a delivery in flight: wipe the
\* source commit of an intent that is not bound yet, or retire an event between
\* its append and its acknowledgement.
SourceWiped(d, o)  == intents[d][o].state = "Pending" /\ SourceCommits(d, o) = {}
EventRetired(d, o) == intents[d][o].state = "Appended" /\ EventOf(d, o) \notin eventLog

\* A deployment's transition that began (it has one at a time) is acknowledged,
\* across crashes, refusals and reopenings, unless its own event is retired before
\* it is acknowledged, or a wiped source commit, its own or another deployment's,
\* keeps the store from opening; nothing else ever holds a delivery up
\* (complete_pending_transition_intent, reconcile_pending_transition_intents).
EveryTransitionDelivered ==
  \A d \in Deployments :
    (\E o \in Ordinals : Undelivered(d, o)) ~>
      \/ AllDelivered(d)
      \/ \E o \in Ordinals : EventRetired(d, o)
      \/ \E e \in Deployments, o \in Ordinals : SourceWiped(e, o)

\* The journal implements the abstract delivery of a deployment's transitions.
DeliveryStatus ==
  [d \in Deployments |-> [o \in Ordinals |->
     IF ~ Present(d, o) THEN "none" ELSE IF Undelivered(d, o) THEN "begun" ELSE "delivered"]]

DeliveryFinal == {d \in Deployments : record[d].lifecycle = "Terminal"}

DeliveryPublished == {t \in Deployments \X Ordinals : EventOf(t[1], t[2]) \in eventLog}

Delivery == INSTANCE DeploymentDelivery WITH
  status <- DeliveryStatus, final <- DeliveryFinal, published <- DeliveryPublished

\* Transitions of a deployment begin one at a time, are published before they
\* are delivered, are never published again once delivered and retired, and end
\* with the terminal one, whatever crashes and compactions intervene.
DeliveryImplemented == Delivery!Spec

\* A reopening only ever fails on an intent whose source commit a compaction
\* has wiped: no retired event, lost delivery row or mismatched payload stops
\* it (complete_pending_transition_intent: "idempotent over every crash
\* boundary").
ReopenFailsOnlyWithoutSource ==
  mode = "failed" => \E d \in Deployments, o \in Ordinals : SourceWiped(d, o)
=============================================================================
