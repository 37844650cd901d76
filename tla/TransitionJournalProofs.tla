----------------------- MODULE TransitionJournalProofs -----------------------
(***************************************************************************)
(* Theorems about TransitionJournal, for every number of deployments,      *)
(* ordinals, positions and crashes and every retention.                    *)
(***************************************************************************)
EXTENDS TransitionJournal, TLAPS

\* A driver between two critical sections holds an undelivered intent, and the
\* intent is bound once the driver is past the binding.
DriversHoldIntents ==
  \A d \in Deployments :
    step[d].at \in {"bind", "dispatch", "append", "acknowledge"} =>
      /\ Undelivered(d, step[d].ordinal)
      /\ step[d].at # "bind" => intents[d][step[d].ordinal].marker # NoMarker

TypeInv == TypeOK /\ DriversHoldIntents

\* The empty store has the types, and no writer holds an intent.
LEMMA InitTypeInv == Init => TypeInv
  BY JournalAssumption
  DEF JournalAssumption, Init, TypeInv, TypeOK, DriversHoldIntents, AbsentIntent, Intent,
      AbsentRecord, Record, Idle, Steps, Modes, Writers, Ordinals, Deployments, NoMarker,
      NoPosition

\* A bound intent stays an intent when only its state advances.
LEMMA IntentAdvances ==
  ASSUME NEW i \in Intent, i.marker # NoMarker,
         NEW s \in {"Bound", "Appended", "Acknowledged"}
  PROVE  [i EXCEPT !.state = s] \in Intent
<1> DEFINE B == [kind : Kinds, position : Nat, marker : Nat \ {NoMarker},
                 state : {"Bound", "Appended", "Acknowledged"}]
<1>1. i \in B
  BY DEF Intent, AbsentIntent, NoMarker
<1>2. [i EXCEPT !.state = s] \in B
  BY <1>1
<1> QED BY <1>2 DEF Intent

\* An undelivered intent without its marker is still pending.
LEMMA UnboundIsPending ==
  ASSUME NEW i \in Intent, i.marker = NoMarker, i.state # "Absent"
  PROVE  i \in [kind : Kinds, position : Nat, marker : {NoMarker}, state : {"Pending"}]
BY DEF Intent, AbsentIntent, NoMarker

\* The updates of a record that the journal makes keep its type.
LEMMA RecordTyped ==
  ASSUME record \in [Deployments -> Record], NEW d \in Deployments,
         NEW l \in {"Absent", "Open", "Terminal"}, NEW a \in Nat, NEW t \in Nat
  PROVE  /\ [record EXCEPT ![d].lifecycle = l] \in [Deployments -> Record]
         /\ [record EXCEPT ![d].lifecycle = l, ![d].terminalMarker = t]
              \in [Deployments -> Record]
         /\ [record EXCEPT ![d].admissionMarker = a, ![d].terminalMarker = t]
              \in [Deployments -> Record]
<1>1. record[d] \in Record
  OBVIOUS
<1>2. [record[d] EXCEPT !.lifecycle = l] \in Record
  BY <1>1 DEF Record
<1>3. [[record[d] EXCEPT !.lifecycle = l] EXCEPT !.terminalMarker = t] \in Record
  BY <1>1 DEF Record
<1>4. [[record[d] EXCEPT !.admissionMarker = a] EXCEPT !.terminalMarker = t] \in Record
  BY <1>1 DEF Record
<1> QED BY <1>2, <1>3, <1>4

\* The parts of a begun transition that a new intent of d writes.
LEMMA BeginsTyped ==
  ASSUME TypeInv,
         NEW d \in Deployments, NEW o \in Ordinals, NEW kind \in Kinds, NEW position \in Nat,
         SetIntent(d, o, NewIntent(kind, position)),
         CommitWithRecord(d, o),
         step' = [step EXCEPT ![d] = [at |-> "bind", ordinal |-> o]]
  PROVE  /\ intents' \in [Deployments -> [Ordinals -> Intent]]
         /\ commits' \in Nat
         /\ versionedLog' \subseteq [sequence : Nat \ {0}, deployment : Deployments,
                                     ordinal : Ordinals]
         /\ step' \in [Writers -> [at : Steps, ordinal : Ordinals]]
         /\ DriversHoldIntents'
<1>1. intents' \in [Deployments -> [Ordinals -> Intent]]
  BY DEF TypeInv, TypeOK, SetIntent, NewIntent, Intent
<1>2. commits' \in Nat /\ versionedLog' \subseteq [sequence : Nat \ {0},
                              deployment : Deployments, ordinal : Ordinals]
  BY DEF TypeInv, TypeOK, CommitWithRecord
<1>3. step' \in [Writers -> [at : Steps, ordinal : Ordinals]]
  BY DEF TypeInv, TypeOK, Steps
<1>4. DriversHoldIntents'
  <2> SUFFICES ASSUME NEW e \in Deployments,
                      step'[e].at \in {"bind", "dispatch", "append", "acknowledge"}
               PROVE  /\ Undelivered(e, step[e].ordinal)'
                      /\ step'[e].at # "bind" => intents'[e][step'[e].ordinal].marker # NoMarker
    BY DEF DriversHoldIntents
  <2>1. CASE e = d
    BY <2>1 DEF TypeInv, TypeOK, SetIntent, NewIntent, Undelivered, Writers
  <2>2. CASE e # d
    BY <2>2 DEF TypeInv, TypeOK, DriversHoldIntents, SetIntent, Undelivered, Writers
  <2> QED BY <2>1, <2>2
<1> QED BY <1>1, <1>2, <1>3, <1>4

\* No step leaves the types, and whoever is in mid-delivery holds an undelivered intent.
LEMMA TypeInvStep == TypeInv /\ [Next]_vars => TypeInv'
<1> SUFFICES ASSUME TypeInv, [Next]_vars PROVE TypeInv'
  OBVIOUS
<1> USE DEF TypeInv, TypeOK
<1>1. ASSUME NEW d \in Deployments, BeginAdmission(d) PROVE TypeInv'
  <2>1. d \in Nat /\ d <= MaxDeployments
    BY JournalAssumption DEF JournalAssumption, Deployments
  <2>2. 0 \in Ordinals /\ "Submitted" \in Kinds
    BY JournalAssumption DEF JournalAssumption, Ordinals, Kinds
  <2>3. /\ intents' \in [Deployments -> [Ordinals -> Intent]] /\ commits' \in Nat
        /\ versionedLog' \subseteq [sequence : Nat \ {0}, deployment : Deployments,
                                    ordinal : Ordinals]
        /\ step' \in [Writers -> [at : Steps, ordinal : Ordinals]] /\ DriversHoldIntents'
    BY <1>1, <2>2, BeginsTyped DEF BeginAdmission, BeginFirst
  <2>4. record' \in [Deployments -> Record]
    BY <1>1, RecordTyped DEF BeginAdmission, BeginFirst
  <2>5. allocation' \in [deployment : 1 .. MaxDeployments + 1, position : Nat]
    BY <1>1, <2>1, JournalAssumption DEF JournalAssumption, BeginAdmission, BeginFirst
  <2> QED BY <1>1, <2>3, <2>4, <2>5 DEF BeginAdmission, BeginFirst
<1>2. ASSUME NEW d \in Deployments, BeginRejection(d) PROVE TypeInv'
  <2>1. d \in Nat /\ d <= MaxDeployments
    BY JournalAssumption DEF JournalAssumption, Deployments
  <2>2. 0 \in Ordinals /\ "Terminal" \in Kinds
    BY JournalAssumption DEF JournalAssumption, Ordinals, Kinds
  <2>3. /\ intents' \in [Deployments -> [Ordinals -> Intent]] /\ commits' \in Nat
        /\ versionedLog' \subseteq [sequence : Nat \ {0}, deployment : Deployments,
                                    ordinal : Ordinals]
        /\ step' \in [Writers -> [at : Steps, ordinal : Ordinals]] /\ DriversHoldIntents'
    BY <1>2, <2>2, BeginsTyped DEF BeginRejection, BeginFirst
  <2>4. record' \in [Deployments -> Record]
    BY <1>2, RecordTyped DEF BeginRejection, BeginFirst
  <2>5. allocation' \in [deployment : 1 .. MaxDeployments + 1, position : Nat]
    BY <1>2, <2>1, JournalAssumption DEF JournalAssumption, BeginRejection, BeginFirst
  <2> QED BY <1>2, <2>3, <2>4, <2>5 DEF BeginRejection, BeginFirst
<1>3. ASSUME NEW d \in Deployments, NEW o \in Ordinals, BeginPhase(d, o) PROVE TypeInv'
  <2>1. "Phase" \in Kinds /\ reserved[d] \in Nat
    BY <1>3 DEF BeginPhase, Kinds, Writers
  <2>2. /\ intents' \in [Deployments -> [Ordinals -> Intent]] /\ commits' \in Nat
        /\ versionedLog' \subseteq [sequence : Nat \ {0}, deployment : Deployments,
                                    ordinal : Ordinals]
        /\ step' \in [Writers -> [at : Steps, ordinal : Ordinals]] /\ DriversHoldIntents'
    BY <1>3, <2>1, BeginsTyped DEF BeginPhase
  <2>3. record' \in [Deployments -> Record]
    BY <1>3, RecordTyped DEF BeginPhase, NoMarker
  <2> QED BY <1>3, <2>2, <2>3 DEF BeginPhase
<1>4. ASSUME NEW d \in Deployments, NEW o \in Ordinals, BeginTerminal(d, o) PROVE TypeInv'
  <2>1. "Terminal" \in Kinds
    BY DEF Kinds
  <2>2. /\ intents' \in [Deployments -> [Ordinals -> Intent]] /\ commits' \in Nat
        /\ versionedLog' \subseteq [sequence : Nat \ {0}, deployment : Deployments,
                                    ordinal : Ordinals]
        /\ step' \in [Writers -> [at : Steps, ordinal : Ordinals]] /\ DriversHoldIntents'
    BY <1>4, <2>1, BeginsTyped DEF BeginTerminal
  <2>3. record' \in [Deployments -> Record]
    BY <1>4, RecordTyped DEF BeginTerminal, NoMarker
  <2>4. allocation' \in [deployment : 1 .. MaxDeployments + 1, position : Nat]
    BY <1>4 DEF BeginTerminal, PositionTaken
  <2> QED BY <1>4, <2>2, <2>3, <2>4 DEF BeginTerminal
<1>5. ASSUME NEW d \in Deployments, BindAgain(d) PROVE TypeInv'
  <2>1. step' \in [Writers -> [at : Steps, ordinal : Ordinals]]
    BY <1>5 DEF BindAgain, GoTo, Steps
  <2>2. DriversHoldIntents'
    BY <1>5 DEF BindAgain, GoTo, Delivering, At, DriversHoldIntents, Undelivered, durable,
                Writers
  <2> QED BY <1>5, <2>1, <2>2 DEF BindAgain, durable
<1>6. ASSUME NEW d \in Deployments, NEW marker \in SourceCommits(d, step[d].ordinal),
             Bind(d, marker)
      PROVE  TypeInv'
  <2> DEFINE o == step[d].ordinal
  <2>1. o \in Ordinals /\ marker \in Nat \ {0} /\ d \in Writers
    BY DEF SourceCommits, Writers
  <2> DEFINE B == [kind : Kinds, position : Nat, marker : Nat \ {NoMarker},
                   state : {"Bound", "Appended", "Acknowledged"}]
  <2>2. intents[d][o] \in [kind : Kinds, position : Nat, marker : {NoMarker}, state : {"Pending"}]
    <3>1. intents[d][o] \in Intent /\ intents[d][o].marker = NoMarker
      BY <1>6, <2>1 DEF Bind
    <3>2. intents[d][o].state # "Absent"
      BY <1>6 DEF Bind, Delivering, At, DriversHoldIntents, Undelivered
    <3> QED BY <3>1, <3>2, UnboundIsPending
  <2>3. intents[d][o].kind \in Kinds /\ intents[d][o].position \in Nat
    BY <2>2
  <2>4. Bound(intents[d][o], marker) \in Intent
    <3>1. Bound(intents[d][o], marker) \in B
      BY <2>1, <2>2 DEF Bound, NoMarker
    <3> QED BY <3>1 DEF Intent
  <2>5. intents' = [intents EXCEPT ![d][o] = Bound(intents[d][o], marker)]
    BY <1>6 DEF Bind, SetIntent
  <2>6. intents' \in [Deployments -> [Ordinals -> Intent]]
    BY <2>1, <2>4, <2>5
  <2>7. outbox' \subseteq OutboxRow
    BY <1>6, <2>1, <2>3 DEF Bind, EventOf, OutboxRow, Event
  <2>8. record' \in [Deployments -> Record]
    <3> DEFINE kind == Bound(intents[d][o], marker).kind
               a == IF kind = "Submitted" THEN marker ELSE record[d].admissionMarker
               t == IF kind = "Terminal" THEN marker ELSE record[d].terminalMarker
    <3>1. a \in Nat /\ t \in Nat
      BY <2>1 DEF Record
    <3>2. record' = [record EXCEPT ![d].admissionMarker = a, ![d].terminalMarker = t]
      BY <1>6 DEF Bind, MarkRecord
    <3> HIDE DEF a, t
    <3> QED BY <3>1, <3>2, RecordTyped
  <2>9. commits' \in Nat /\ versionedLog' \subseteq
           [sequence : Nat \ {0}, deployment : Deployments, ordinal : Ordinals]
    BY <1>6, <2>1 DEF Bind, CommitWithRecord
  <2>10. step' \in [Writers -> [at : Steps, ordinal : Ordinals]]
    BY <1>6 DEF Bind, GoTo, Steps
  <2>11. DriversHoldIntents'
    BY <1>6, <2>1, <2>2, <2>5 DEF Bind, GoTo, Bound, DriversHoldIntents, Undelivered, NoMarker,
                                  Writers
  <2> QED BY <1>6, <2>6, <2>7, <2>8, <2>9, <2>10, <2>11 DEF Bind
<1>7. ASSUME NEW d \in Deployments, Dispatch(d) PROVE TypeInv'
  <2>1. outbox' \subseteq OutboxRow
    BY <1>7 DEF Dispatch, OutboxRow
  <2>2. step' \in [Writers -> [at : Steps, ordinal : Ordinals]]
    BY <1>7 DEF Dispatch, GoTo, Steps
  <2>3. DriversHoldIntents'
    BY <1>7 DEF Dispatch, GoTo, Delivering, At, DriversHoldIntents, Undelivered, Writers
  <2> QED BY <1>7, <2>1, <2>2, <2>3 DEF Dispatch
<1>8. ASSUME NEW d \in Deployments, Append(d) PROVE TypeInv'
  <2> DEFINE o == step[d].ordinal
  <2>1. o \in Ordinals /\ d \in Writers
    BY DEF Writers
  <2>2. Undelivered(d, o) /\ intents[d][o].marker # NoMarker /\ intents[d][o] \in Intent
    BY <1>8, <2>1 DEF Append, Delivering, At, DriversHoldIntents
  <2>3. [intents[d][o] EXCEPT !.state = "Appended"] \in Intent
    BY <2>2, IntentAdvances
  <2>4. intents' = [intents EXCEPT ![d][o] = [intents[d][o] EXCEPT !.state = "Appended"]]
    BY <1>8 DEF Append, SetIntent
  <2>5. intents' \in [Deployments -> [Ordinals -> Intent]]
    BY <2>1, <2>3, <2>4
  <2>6. eventLog' \subseteq Event
    BY <1>8, <2>1, <2>2 DEF Append, EventOf, Event, Intent, AbsentIntent, NoMarker
  <2>7. step' \in [Writers -> [at : Steps, ordinal : Ordinals]]
    BY <1>8 DEF Append, GoTo, Steps
  <2>8. DriversHoldIntents'
    BY <1>8, <2>1, <2>2, <2>4 DEF Append, GoTo, DriversHoldIntents, Undelivered, Writers
  <2> QED BY <1>8, <2>5, <2>6, <2>7, <2>8 DEF Append
<1>9. ASSUME NEW d \in Deployments, Acknowledge(d) PROVE TypeInv'
  <2> DEFINE o == step[d].ordinal
  <2>1. o \in Ordinals /\ d \in Writers
    BY DEF Writers
  <2>2. Undelivered(d, o) /\ intents[d][o].marker # NoMarker /\ intents[d][o] \in Intent
    BY <1>9, <2>1 DEF Acknowledge, Delivering, At, DriversHoldIntents
  <2>3. [intents[d][o] EXCEPT !.state = "Acknowledged"] \in Intent
    BY <2>2, IntentAdvances
  <2>4. intents' = [intents EXCEPT ![d][o] = [intents[d][o] EXCEPT !.state = "Acknowledged"]]
    BY <1>9 DEF Acknowledge, SetIntent
  <2>5. intents' \in [Deployments -> [Ordinals -> Intent]]
    BY <2>1, <2>3, <2>4 DEF TypeOK
  <2>6. outbox' \subseteq OutboxRow /\ jobs' \subseteq Deployments
    <3>1. outbox' \subseteq OutboxRow
      BY <1>9 DEF Acknowledge, OutboxRow, TypeOK
    <3>2. jobs' \subseteq Deployments
      BY <1>9 DEF Acknowledge, JobsAfter, TypeOK
    <3> QED BY <3>1, <3>2
  <2>7. step' \in [Writers -> [at : Steps, ordinal : Ordinals]]
    BY <1>9 DEF Acknowledge, GoTo, Steps
  <2>8. DriversHoldIntents'
    BY <1>9, <2>1, <2>4 DEF Acknowledge, GoTo, DriversHoldIntents, Undelivered, Writers
  <2> QED BY <1>9, <2>5, <2>6, <2>7, <2>8 DEF Acknowledge
<1>10. ASSUME NEW d \in Deployments, Refuse(d) PROVE TypeInv'
  <2>1. Idle \in [at : Steps, ordinal : Ordinals]
    BY JournalAssumption DEF JournalAssumption, Idle, Steps, Ordinals
  <2>2. DriversHoldIntents'
    BY <1>10 DEF Refuse, Idle, DriversHoldIntents, Undelivered, durable, Writers
  <2> QED BY <1>10, <2>1, <2>2 DEF Refuse, durable, Modes
<1>11. ASSUME NEW w \in Writers, AllocatePosition(w) PROVE TypeInv'
  BY <1>11 DEF AllocatePosition, PositionTaken, DriversHoldIntents, Undelivered
<1>12. ASSUME NEW w \in Writers, CompactRows(w) PROVE TypeInv'
  <2>1. w \in Deployments \/ w = Observer
    BY DEF Writers
  <2> QED BY <1>12, <2>1 DEF CompactRows, GoTo, Steps, DriversHoldIntents, Undelivered, Writers
<1>13. ASSUME NEW w \in Writers, CompactVersionedHistory(w) PROVE TypeInv'
  BY <1>13 DEF CompactVersionedHistory, GoTo, Steps, DriversHoldIntents, Undelivered, Writers
<1>14. ASSUME NEW w \in Writers, NothingToCompact(w) PROVE TypeInv'
  BY <1>14 DEF NothingToCompact, GoTo, Steps, DriversHoldIntents, Undelivered, Writers, durable
<1>23. ASSUME NEW w \in Writers, CompactConfiguredHistory(w) PROVE TypeInv'
  BY <1>23 DEF CompactConfiguredHistory, GoTo, Steps, DriversHoldIntents, Undelivered, Writers
<1>15. ASSUME AppendOther PROVE TypeInv'
  <2>1. Observer \in Writers /\ reserved[Observer] \in Nat
    BY <1>15 DEF AppendOther, Writers
  <2>2. eventLog' \subseteq Event
    BY <1>15, <2>1 DEF AppendOther, Event, NoMarker
  <2>3. step' \in [Writers -> [at : Steps, ordinal : Ordinals]] /\ DriversHoldIntents'
    BY <1>15 DEF AppendOther, GoTo, Steps, DriversHoldIntents, Undelivered, Writers, Observer,
                 Deployments
  <2> QED BY <1>15, <2>1, <2>2, <2>3 DEF AppendOther
<1>16. ASSUME Crash PROVE TypeInv'
  <2>1. Idle \in [at : Steps, ordinal : Ordinals]
    BY JournalAssumption DEF JournalAssumption, Idle, Steps, Ordinals
  <2>2. DriversHoldIntents'
    BY <1>16 DEF Crash, Idle, DriversHoldIntents, durable, Writers
  <2> QED BY <1>16, <2>1, <2>2 DEF Crash, durable, Modes, NoPosition
<1>17. ASSUME Restart PROVE TypeInv'
  BY <1>17 DEF Restart, durable, Modes, DriversHoldIntents, Undelivered
<1>18. ASSUME RequeueDispatchedOutbox PROVE TypeInv'
  <2>1. outbox' \subseteq OutboxRow
    BY <1>18 DEF RequeueDispatchedOutbox, Requeued, OutboxRow
  <2> QED BY <1>18, <2>1 DEF RequeueDispatchedOutbox, Modes, DriversHoldIntents, Undelivered
<1>19. ASSUME NEW d \in Deployments, NEW o \in Ordinals, ReconcileIntent(d, o) PROVE TypeInv'
  BY <1>19 DEF ReconcileIntent, Unreconciled, durable, Steps, DriversHoldIntents, Undelivered,
               AllIdle, At, Writers
<1>20. ASSUME IntentsReconciled PROVE TypeInv'
  BY <1>20 DEF IntentsReconciled, durable, Modes, DriversHoldIntents, Undelivered
<1>21. ASSUME ReconcileDeploymentOutbox PROVE TypeInv'
  <2>1. outbox' \subseteq OutboxRow
    BY <1>21 DEF ReconcileDeploymentOutbox, MissingRows, DeploymentEvents, OutboxRow
  <2> QED BY <1>21, <2>1 DEF ReconcileDeploymentOutbox, Modes, DriversHoldIntents, Undelivered
<1>24. ASSUME NEW d \in Deployments, RetractDeployJob(d) PROVE TypeInv'
  BY <1>24 DEF RetractDeployJob, volatile, DriversHoldIntents, Undelivered
<1>25. CASE JobsReconciled
  BY <1>25 DEF JobsReconciled, durable, Modes, DriversHoldIntents, Undelivered
<1>22. CASE UNCHANGED vars
  BY <1>22 DEF vars, durable, volatile, DriversHoldIntents, Undelivered
<1> QED
  BY <1>1, <1>2, <1>3, <1>4, <1>5, <1>6, <1>7, <1>8, <1>9, <1>10, <1>11, <1>12, <1>13, <1>14,
     <1>15, <1>16, <1>17, <1>18, <1>19, <1>20, <1>21, <1>22, <1>23, <1>24, <1>25
  DEF Next, Begin, Deliver, Maintain, Reopen

\* Every reachable state has its type, and a writer in mid-delivery holds an
\* undelivered intent.
THEOREM TypeInvariant == Spec => []TypeInv
BY InitTypeInv, TypeInvStep, PTL DEF Spec

\* Every reachable state has its type, in every instance.
THEOREM TypeCorrect == Spec => []TypeOK
<1> TypeInv => TypeOK
  BY DEF TypeInv
<1> QED BY TypeInvariant, PTL

-----------------------------------------------------------------------------
(* The steps that write intents, records or cursors, and all the others.   *)

\* A step that writes no intent or record and drops at most the cursor that a
\* start drops: it may shrink the logs or append one event of another kind at a
\* free position.
Quiet ==
  /\ UNCHANGED <<intents, record, commits>>
  /\ jobs' = jobs \/ \E d \in Deployments : RetractDeployJob(d)
  /\ allocation'.deployment = allocation.deployment
  /\ versionedLog' \subseteq versionedLog
  /\ \/ eventLog' \subseteq eventLog
     \/ \E event \in Event :
          /\ event.kind = "Other"
          /\ \A f \in eventLog : f.position # event.position
          /\ eventLog' = eventLog \union {event}

\* A step begins, binds, appends or acknowledges a transition, or leaves the
\* intents, records and events of deployments alone (Quiet).
LEMMA QuietSteps ==
  ASSUME TypeInv, [Next]_vars
  PROVE  \/ \E d \in Deployments : BeginAdmission(d) \/ BeginRejection(d)
         \/ \E d \in Deployments, o \in Ordinals : BeginPhase(d, o) \/ BeginTerminal(d, o)
         \/ \E d \in Deployments :
              \E marker \in SourceCommits(d, step[d].ordinal) : Bind(d, marker)
         \/ \E d \in Deployments : Append(d) \/ Acknowledge(d)
         \/ Quiet
<1>1. ASSUME NEW d \in Deployments, BindAgain(d) \/ Dispatch(d) \/ Refuse(d) PROVE Quiet
  BY <1>1 DEF Quiet, BindAgain, Dispatch, Refuse, durable
<1>2. ASSUME NEW w \in Writers, AllocatePosition(w) \/ Maintain(w) PROVE Quiet
  <2>1. CASE AllocatePosition(w)
    BY <2>1 DEF Quiet, AllocatePosition, PositionTaken, TypeInv, TypeOK
  <2>2. CASE Maintain(w)
    BY <1>2, <2>2 DEF Quiet, Maintain, CompactRows, CompactVersionedHistory, NothingToCompact,
                      CompactConfiguredHistory, durable
  <2> QED BY <1>2, <2>1, <2>2
<1>3. ASSUME AppendOther PROVE Quiet
  <2> DEFINE event == [deployment |-> Observer, kind |-> "Other",
                       position |-> reserved[Observer], marker |-> NoMarker]
  <2>1. event \in Event
    BY <1>3 DEF AppendOther, Event, Writers, NoMarker, TypeInv, TypeOK
  <2> QED BY <1>3, <2>1 DEF Quiet, AppendOther
<1>6. ASSUME NEW d \in Deployments, RetractDeployJob(d) PROVE Quiet
  BY <1>6 DEF Quiet, RetractDeployJob
<1>4. ASSUME Crash \/ Reopen PROVE Quiet
  BY <1>4, <1>6 DEF Quiet, Crash, Reopen, Restart, RequeueDispatchedOutbox, ReconcileIntent,
              IntentsReconciled, ReconcileDeploymentOutbox, JobsReconciled, durable
<1>5. CASE UNCHANGED vars
  BY <1>5 DEF vars, durable, Quiet
<1> QED BY <1>1, <1>2, <1>3, <1>4, <1>5 DEF Next, Begin, Deliver

\* The intent a driver holds advances: its kind and position stay, its marker
\* is either kept or, at the binding, taken from its source commits.
Advances(d, o, i) ==
  /\ d \in Deployments /\ o = step[d].ordinal /\ o \in Ordinals
  /\ i \in Intent
  /\ Undelivered(d, o)
  /\ i.kind = intents[d][o].kind /\ i.position = intents[d][o].position
  /\ i.state \in {"Bound", "Appended", "Acknowledged"}
  /\ intents' = [intents EXCEPT ![d][o] = i]

\* Binding changes one undelivered intent, to a bound or acknowledged one.
LEMMA BindAdvances ==
  ASSUME TypeInv, TypeInv', NEW d \in Deployments, NEW marker \in Nat, Bind(d, marker)
  PROVE  LET o == step[d].ordinal
         IN  Advances(d, o, Bound(intents[d][o], marker))
<1> DEFINE o == step[d].ordinal
           i == Bound(intents[d][o], marker)
<1>1. o \in Ordinals
  BY DEF TypeInv, TypeOK, Writers
<1>2. intents' = [intents EXCEPT ![d][o] = i]
  BY DEF Bind, SetIntent
<1>3. Undelivered(d, o)
  BY DEF Bind, Delivering, At, TypeInv, DriversHoldIntents
<1>4. i \in Intent
  BY <1>1, <1>2 DEF TypeInv, TypeOK
<1>5. /\ i.kind = intents[d][o].kind /\ i.position = intents[d][o].position
      /\ i.state = "Bound" /\ i.marker = marker
  <2>1. /\ intents[d][o] \in [kind : Kinds, position : Nat, marker : {NoMarker},
                              state : {"Pending"}]
    BY <1>1, <1>3, UnboundIsPending DEF Bind, Undelivered, TypeInv, TypeOK
  <2> QED BY <2>1 DEF Bound
<1> QED BY <1>1, <1>2, <1>3, <1>4, <1>5 DEF Advances

\* Appending and acknowledging change the state of one bound intent and nothing
\* else in it.
LEMMA DeliveryAdvances ==
  ASSUME TypeInv, TypeInv', NEW d \in Deployments, NEW s \in {"Appended", "Acknowledged"},
         s = "Appended" => Append(d), s = "Acknowledged" => Acknowledge(d)
  PROVE  LET o == step[d].ordinal
             i == [intents[d][o] EXCEPT !.state = s]
         IN  /\ Advances(d, o, i)
             /\ i.marker = intents[d][o].marker /\ i.marker # NoMarker /\ i.state = s
<1> DEFINE o == step[d].ordinal
           i == [intents[d][o] EXCEPT !.state = s]
<1>1. o \in Ordinals
  BY DEF TypeInv, TypeOK, Writers
<1>2. intents' = [intents EXCEPT ![d][o] = i]
  BY DEF Append, Acknowledge, SetIntent
<1>3. Undelivered(d, o) /\ intents[d][o].marker # NoMarker
  BY DEF Append, Acknowledge, Delivering, At, TypeInv, DriversHoldIntents
<1>4. i \in Intent
  BY <1>1, <1>2 DEF TypeInv, TypeOK
<1>5. /\ i.kind = intents[d][o].kind /\ i.position = intents[d][o].position
      /\ i.state = s /\ i.marker = intents[d][o].marker
  <2>1. intents[d][o] \in [kind : Kinds, position : Nat, marker : Nat \ {NoMarker},
                           state : {"Bound", "Appended", "Acknowledged"}]
    BY <1>1, <1>3 DEF Intent, AbsentIntent, TypeInv, TypeOK
  <2> QED BY <2>1
<1> QED BY <1>1, <1>2, <1>3, <1>4, <1>5 DEF Advances

-----------------------------------------------------------------------------
(* Ordinals: the intents of a deployment are an initial segment, and all   *)
(* but the last are delivered.                                             *)

OrdinalsInv ==
  /\ \A d \in Deployments :
       /\ d >= allocation.deployment =>
            record[d].lifecycle = "Absent" /\ \A o \in Ordinals : ~ Present(d, o)
       /\ record[d].lifecycle # "Absent" => Present(d, 0)
  /\ \A d \in Deployments : \A o, p \in Ordinals : Present(d, o) /\ p < o => Present(d, p)
  /\ UndeliveredIsLast

\* No deployment has a transition yet.
LEMMA InitOrdinalsInv == Init => OrdinalsInv
BY JournalAssumption
DEF JournalAssumption, Init, OrdinalsInv, UndeliveredIsLast, Present, Undelivered, AbsentIntent,
    AbsentRecord, Deployments

\* A begun transition is the successor of a delivered one.
LEMMA OrdinalsBegin ==
  ASSUME TypeInv, OrdinalsInv,
         NEW d \in Deployments, NEW o \in Ordinals, NEW kind \in Kinds, NEW position \in Nat,
         AllDelivered(d), NextOrdinal(d, o), SetIntent(d, o, NewIntent(kind, position))
  PROVE  /\ \A e \in Deployments : \A p \in Ordinals :
              Present(e, p)' <=> Present(e, p) \/ (e = d /\ p = o)
         /\ \A e \in Deployments : \A p, q \in Ordinals :
              Present(e, p)' /\ q < p => Present(e, q)'
         /\ UndeliveredIsLast'
<1>1. \A e \in Deployments : \A p \in Ordinals :
        intents'[e][p] = IF e = d /\ p = o THEN NewIntent(kind, position) ELSE intents[e][p]
  BY DEF SetIntent, TypeInv, TypeOK
<1>2. \A e \in Deployments : \A p \in Ordinals :
        Present(e, p)' <=> Present(e, p) \/ (e = d /\ p = o)
  BY <1>1 DEF Present, NewIntent
<1>3. o \in Nat /\ \A p \in Ordinals : p \in Nat
  BY DEF Ordinals
<1>4. \A e \in Deployments : \A p, q \in Ordinals : Present(e, p)' /\ q < p => Present(e, q)'
  <2> SUFFICES ASSUME NEW e \in Deployments, NEW p \in Ordinals, NEW q \in Ordinals,
                      Present(e, p)', q < p
               PROVE  Present(e, q)'
    OBVIOUS
  <2>1. CASE Present(e, p)
    BY <1>2, <2>1 DEF OrdinalsInv
  <2>2. CASE e = d /\ p = o
    <3>0. o # 0 /\ o \in Nat /\ q \in Nat /\ q < o
      BY <1>3, <2>2 DEF Ordinals
    <3>1. o - 1 \in Ordinals /\ Present(d, o - 1)
      BY <3>0, JournalAssumption DEF NextOrdinal, Ordinals, JournalAssumption
    <3>2. q = o - 1 \/ q < o - 1
      BY <3>0
    <3> QED BY <1>2, <2>2, <3>1, <3>2 DEF OrdinalsInv
  <2> QED BY <1>2, <2>1, <2>2
<1>5. UndeliveredIsLast'
  <2> SUFFICES ASSUME NEW e \in Deployments, NEW p \in Ordinals, NEW q \in Ordinals,
                      Undelivered(e, p)', Present(e, q)'
               PROVE  q <= p
    BY DEF UndeliveredIsLast
  <2>1. CASE e = d
    <3>1. p = o
      BY <1>1, <2>1 DEF AllDelivered, Undelivered
    <3> QED BY <1>2, <1>3, <2>1, <3>1 DEF NextOrdinal
  <2>2. CASE e # d
    BY <1>1, <1>2, <2>2 DEF OrdinalsInv, UndeliveredIsLast, Undelivered
  <2> QED BY <2>1, <2>2
<1> QED BY <1>2, <1>4, <1>5

\* Advancing an intent adds no transition and makes none undelivered.
LEMMA OrdinalsAdvance ==
  ASSUME TypeInv, OrdinalsInv, NEW d, NEW o, NEW i, Advances(d, o, i)
  PROVE  /\ \A e \in Deployments : \A p \in Ordinals : Present(e, p)' <=> Present(e, p)
         /\ \A e \in Deployments : \A p \in Ordinals : Undelivered(e, p)' => Undelivered(e, p)
BY DEF Advances, Present, Undelivered, TypeInv, TypeOK

\* Binding a transition writes markers into its record, and nothing else.
LEMMA BindKeepsLifecycle ==
  ASSUME TypeInv, NEW d \in Deployments, NEW marker, Bind(d, marker)
  PROVE  \A e \in Deployments : record'[e].lifecycle = record[e].lifecycle
<1> DEFINE kind == Bound(intents[d][step[d].ordinal], marker).kind
           admission == IF kind = "Submitted" THEN marker ELSE record[d].admissionMarker
           terminal  == IF kind = "Terminal" THEN marker ELSE record[d].terminalMarker
<1>1. record' = [record EXCEPT ![d].admissionMarker = admission, ![d].terminalMarker = terminal]
  BY DEF Bind, MarkRecord
<1>2. record \in [Deployments -> Record]
  BY DEF TypeInv, TypeOK
<1> HIDE DEF admission, terminal
<1> QED BY <1>1, <1>2 DEF Record

\* A transition only begins at the next ordinal, once all before it are delivered.
LEMMA OrdinalsInvStep == TypeInv /\ TypeInv' /\ OrdinalsInv /\ [Next]_vars => OrdinalsInv'
<1> SUFFICES ASSUME TypeInv, TypeInv', OrdinalsInv, [Next]_vars PROVE OrdinalsInv'
  OBVIOUS
<1>1. ASSUME NEW d \in Deployments, BeginAdmission(d) \/ BeginRejection(d) PROVE OrdinalsInv'
  <2>1. PICK l \in {"Open", "Terminal"}, kind \in Kinds : BeginFirst(d, l, kind)
    BY <1>1 DEF BeginAdmission, BeginRejection, Kinds
  <2>2. 0 \in Ordinals /\ d \in Nat /\ Deployments \subseteq Nat
    BY JournalAssumption DEF JournalAssumption, Ordinals, Deployments
  <2>3. d = allocation.deployment /\ \A o \in Ordinals : ~ Present(d, o)
    BY <2>1, <2>2 DEF BeginFirst, OrdinalsInv
  <2>4. AllDelivered(d) /\ NextOrdinal(d, 0)
    BY <2>2, <2>3 DEF AllDelivered, NextOrdinal, Present, Undelivered
  <2>5. allocation.position \in Nat /\ SetIntent(d, 0, NewIntent(kind, allocation.position))
    BY <2>1 DEF BeginFirst, TypeInv, TypeOK
  <2>6. /\ \A e \in Deployments : \A p \in Ordinals :
             Present(e, p)' <=> Present(e, p) \/ (e = d /\ p = 0)
        /\ \A e \in Deployments : \A p, q \in Ordinals :
             Present(e, p)' /\ q < p => Present(e, q)'
        /\ UndeliveredIsLast'
    BY <2>2, <2>4, <2>5, OrdinalsBegin
  <2>7. \A e \in Deployments :
          record'[e].lifecycle = IF e = d THEN l ELSE record[e].lifecycle
    BY <2>1 DEF BeginFirst, TypeInv, TypeOK, Record
  <2>8. allocation'.deployment = d + 1
    BY <2>1 DEF BeginFirst
  <2> QED BY <2>2, <2>3, <2>6, <2>7, <2>8 DEF OrdinalsInv
<1>2. ASSUME NEW d \in Deployments, NEW o \in Ordinals, BeginPhase(d, o) \/ BeginTerminal(d, o)
      PROVE  OrdinalsInv'
  <2>1. PICK kind \in Kinds, position \in Nat : SetIntent(d, o, NewIntent(kind, position))
    BY <1>2 DEF BeginPhase, BeginTerminal, Kinds, TypeInv, TypeOK, Writers
  <2>2. AllDelivered(d) /\ NextOrdinal(d, o) /\ record[d].lifecycle # "Absent"
    BY <1>2 DEF BeginPhase, BeginTerminal
  <2>3. /\ \A e \in Deployments : \A p \in Ordinals :
             Present(e, p)' <=> Present(e, p) \/ (e = d /\ p = o)
        /\ \A e \in Deployments : \A p, q \in Ordinals :
             Present(e, p)' /\ q < p => Present(e, q)'
        /\ UndeliveredIsLast'
    BY <2>1, <2>2, OrdinalsBegin
  <2>4. \A e \in Deployments : e # d => record'[e] = record[e]
    BY <1>2 DEF BeginPhase, BeginTerminal, TypeInv, TypeOK
  <2>5. allocation'.deployment = allocation.deployment
    BY <1>2 DEF BeginPhase, BeginTerminal, PositionTaken, TypeInv, TypeOK
  <2>6. Present(d, 0) /\ 0 \in Ordinals
    BY <2>2, JournalAssumption DEF OrdinalsInv, JournalAssumption, Ordinals
  <2> QED BY <2>2, <2>3, <2>4, <2>5, <2>6 DEF OrdinalsInv
<1>3. ASSUME NEW d, NEW o, NEW i, Advances(d, o, i),
             allocation' = allocation,
             \A e \in Deployments : record'[e].lifecycle = record[e].lifecycle
      PROVE  OrdinalsInv'
  <2>1. 0 \in Ordinals
    BY JournalAssumption DEF JournalAssumption, Ordinals
  <2> QED BY <1>3, <2>1, OrdinalsAdvance DEF OrdinalsInv, UndeliveredIsLast
<1>4. ASSUME NEW d \in Deployments, NEW marker \in SourceCommits(d, step[d].ordinal),
             Bind(d, marker)
      PROVE  OrdinalsInv'
  <2>1. marker \in Nat
    BY DEF SourceCommits, TypeInv, TypeOK
  <2>2. \A e \in Deployments : record'[e].lifecycle = record[e].lifecycle
    BY <1>4, BindKeepsLifecycle
  <2> QED BY <1>3, <1>4, <2>1, <2>2, BindAdvances DEF Bind
<1>5. ASSUME NEW d \in Deployments, Append(d) \/ Acknowledge(d) PROVE OrdinalsInv'
  <2>1. PICK s \in {"Appended", "Acknowledged"} :
          (s = "Appended" => Append(d)) /\ (s = "Acknowledged" => Acknowledge(d))
    BY <1>5
  <2>2. allocation' = allocation /\ record' = record
    BY <1>5 DEF Append, Acknowledge
  <2> QED BY <1>3, <2>1, <2>2, DeliveryAdvances
<1>6. CASE Quiet
  BY <1>6 DEF Quiet, OrdinalsInv, UndeliveredIsLast, Present, Undelivered
<1> QED BY <1>1, <1>2, <1>4, <1>5, <1>6, QuietSteps

\* No transition ever leaps over one that is not acknowledged.
THEOREM TransitionsInOrder == Spec => []UndeliveredIsLast
<1>1. Init => TypeInv /\ OrdinalsInv
  BY InitTypeInv, InitOrdinalsInv
<1>2. (TypeInv /\ OrdinalsInv) /\ [Next]_vars => (TypeInv /\ OrdinalsInv)'
  BY TypeInvStep, OrdinalsInvStep
<1>3. TypeInv /\ OrdinalsInv => UndeliveredIsLast
  BY DEF OrdinalsInv
<1> QED BY <1>1, <1>2, <1>3, PTL DEF Spec

-----------------------------------------------------------------------------
(* Markers: every retained source commit is new and names one transition,  *)
(* so a bound marker can only be that of the transition's own commit.      *)

MarkersUnshared ==
  \A d, e \in Deployments : \A o, p \in Ordinals :
    intents[d][o].marker # NoMarker /\ intents[d][o].marker = intents[e][p].marker
      => d = e /\ o = p

MarkerInv ==
  /\ \A entry \in versionedLog : entry.sequence <= commits
  /\ \A x, y \in versionedLog : x.sequence = y.sequence => x = y
  /\ \A d \in Deployments, o \in Ordinals : intents[d][o].marker <= commits
  /\ \A entry \in versionedLog : \A d \in Deployments, o \in Ordinals :
       intents[d][o].marker = entry.sequence => d = entry.deployment /\ o = entry.ordinal
  /\ MarkersUnshared

\* No marker and no commit exists yet.
LEMMA InitMarkerInv == Init => MarkerInv
BY DEF Init, MarkerInv, MarkersUnshared, AbsentIntent, NoMarker

\* Markers and commit numbers are naturals, for the arithmetic below.
LEMMA MarkersTyped ==
  ASSUME TypeInv
  PROVE  /\ commits \in Nat
         /\ \A d \in Deployments, o \in Ordinals : intents[d][o].marker \in Nat
         /\ \A entry \in versionedLog : /\ entry.sequence \in Nat \ {0}
                                        /\ entry.deployment \in Deployments
                                        /\ entry.ordinal \in Ordinals
<1>1. \A i \in Intent : i.marker \in Nat
  BY DEF Intent, AbsentIntent, NoMarker
<1> QED BY <1>1 DEF TypeInv, TypeOK

\* A commit that names (d, o) extends the log with a fresh number.
LEMMA MarkersCommit ==
  ASSUME TypeInv, TypeInv', MarkerInv,
         NEW d \in Deployments, NEW o \in Ordinals,
         CommitWithRecord(d, o),
         MarkersUnshared',
         \A e \in Deployments, p \in Ordinals : intents'[e][p].marker <= commits,
         \A entry \in versionedLog : \A e \in Deployments, p \in Ordinals :
           intents'[e][p].marker = entry.sequence => e = entry.deployment /\ p = entry.ordinal
  PROVE  MarkerInv'
<1> DEFINE new == [sequence |-> commits + 1, deployment |-> d, ordinal |-> o]
<1>1. commits' = commits + 1 /\ versionedLog' = versionedLog \union {new}
  BY DEF CommitWithRecord
<1>2. commits \in Nat /\ \A e \in Deployments, p \in Ordinals : intents'[e][p].marker \in Nat
  <2>1. \A i \in Intent : i.marker \in Nat
    BY DEF Intent, AbsentIntent, NoMarker
  <2>2. intents' \in [Deployments -> [Ordinals -> Intent]]
    BY DEF TypeInv, TypeOK
  <2> QED BY <2>1, <2>2, MarkersTyped
<1>3. \A entry \in versionedLog : entry.sequence \in Nat /\ entry.sequence <= commits
  BY MarkersTyped DEF MarkerInv
<1>4. \A entry \in versionedLog' : entry.sequence <= commits'
  BY <1>1, <1>2, <1>3
<1>5. \A x, y \in versionedLog' : x.sequence = y.sequence => x = y
  BY <1>1, <1>2, <1>3 DEF MarkerInv
<1>6. \A e \in Deployments, p \in Ordinals : intents'[e][p].marker <= commits'
  BY <1>1, <1>2
<1>7. \A entry \in versionedLog' : \A e \in Deployments, p \in Ordinals :
        intents'[e][p].marker = entry.sequence => e = entry.deployment /\ p = entry.ordinal
  BY <1>1, <1>2
<1> QED BY <1>4, <1>5, <1>6, <1>7 DEF MarkerInv

\* A transition begins unmarked, with a commit newer than every marker.
LEMMA MarkersBegin ==
  ASSUME TypeInv, TypeInv', MarkerInv,
         NEW d \in Deployments, NEW o \in Ordinals, NEW kind, NEW position,
         SetIntent(d, o, NewIntent(kind, position)), CommitWithRecord(d, o)
  PROVE  MarkerInv'
<1>1. \A e \in Deployments, p \in Ordinals :
        intents'[e][p].marker = NoMarker \/ intents'[e][p].marker = intents[e][p].marker
  BY DEF SetIntent, NewIntent, TypeInv, TypeOK
<1>2. \A e \in Deployments, p \in Ordinals : intents'[e][p].marker <= commits
  BY <1>1, MarkersTyped DEF MarkerInv, NoMarker
<1>3. \A entry \in versionedLog : \A e \in Deployments, p \in Ordinals :
        intents'[e][p].marker = entry.sequence => e = entry.deployment /\ p = entry.ordinal
  BY <1>1, MarkersTyped DEF MarkerInv, NoMarker
<1>4. MarkersUnshared'
  BY <1>1 DEF MarkerInv, MarkersUnshared
<1> QED BY <1>2, <1>3, <1>4, MarkersCommit

\* The marker of a binding is the number of this transition's own commit.
LEMMA MarkersBind ==
  ASSUME TypeInv, TypeInv', MarkerInv, NEW d \in Deployments,
         NEW marker \in SourceCommits(d, step[d].ordinal), Bind(d, marker)
  PROVE  MarkerInv'
<1> DEFINE o == step[d].ordinal
           i == Bound(intents[d][o], marker)
<1>1. PICK entry \in versionedLog :
        marker = entry.sequence /\ entry.deployment = d /\ entry.ordinal = o
  BY DEF SourceCommits
<1>2. marker \in Nat \ {0} /\ marker <= commits /\ o \in Ordinals
  BY <1>1, MarkersTyped DEF MarkerInv
<1>3. Advances(d, o, i)
  BY <1>2, BindAdvances
<1>4. i.marker = marker
  <2>1. intents[d][o] \in [kind : Kinds, position : Nat, marker : {NoMarker},
                           state : {"Pending"}]
    BY <1>2, <1>3, UnboundIsPending DEF Advances, Undelivered, Bind, TypeInv, TypeOK
  <2> QED BY <2>1 DEF Bound
<1>5. \A e \in Deployments, p \in Ordinals :
        intents'[e][p].marker = IF e = d /\ p = o THEN marker ELSE intents[e][p].marker
  BY <1>2, <1>3, <1>4 DEF Advances, TypeInv, TypeOK
<1>6. \A e \in Deployments, p \in Ordinals : intents'[e][p].marker <= commits
  BY <1>2, <1>5 DEF MarkerInv
<1>7. \A x \in versionedLog : \A e \in Deployments, p \in Ordinals :
        intents'[e][p].marker = x.sequence => e = x.deployment /\ p = x.ordinal
  BY <1>1, <1>5 DEF MarkerInv
<1>8. MarkersUnshared'
  BY <1>1, <1>5 DEF MarkerInv, MarkersUnshared
<1>9. CASE CommitWithRecord(d, o)
  BY <1>2, <1>6, <1>7, <1>8, <1>9, MarkersCommit
<1>10. CASE UNCHANGED <<commits, versionedLog>>
  BY <1>6, <1>7, <1>8, <1>10 DEF MarkerInv
<1> QED BY <1>9, <1>10 DEF Bind

\* Commits are numbered upwards, and only the transition that made one takes its
\* number as marker.
LEMMA MarkerInvStep ==
  TypeInv /\ TypeInv' /\ MarkerInv /\ [Next]_vars => MarkerInv'
<1> SUFFICES ASSUME TypeInv, TypeInv', MarkerInv, [Next]_vars PROVE MarkerInv'
  OBVIOUS
<1>1. ASSUME NEW d \in Deployments, BeginAdmission(d) \/ BeginRejection(d) PROVE MarkerInv'
  <2>1. 0 \in Ordinals
    BY JournalAssumption DEF JournalAssumption, Ordinals
  <2> QED BY <1>1, <2>1, MarkersBegin DEF BeginAdmission, BeginRejection, BeginFirst
<1>2. ASSUME NEW d \in Deployments, NEW o \in Ordinals, BeginPhase(d, o) \/ BeginTerminal(d, o)
      PROVE  MarkerInv'
  BY <1>2, MarkersBegin DEF BeginPhase, BeginTerminal
<1>3. ASSUME NEW d \in Deployments, NEW marker \in SourceCommits(d, step[d].ordinal),
             Bind(d, marker)
      PROVE  MarkerInv'
  BY <1>3, MarkersBind
<1>4. ASSUME NEW d \in Deployments, Append(d) \/ Acknowledge(d) PROVE MarkerInv'
  <2>1. PICK s \in {"Appended", "Acknowledged"} :
          (s = "Appended" => Append(d)) /\ (s = "Acknowledged" => Acknowledge(d))
    BY <1>4
  <2> DEFINE o == step[d].ordinal
             i == [intents[d][o] EXCEPT !.state = s]
  <2>2. Advances(d, o, i) /\ i.marker = intents[d][o].marker
    BY <2>1, DeliveryAdvances
  <2>3. \A e \in Deployments, p \in Ordinals : intents'[e][p].marker = intents[e][p].marker
    BY <2>2 DEF Advances, TypeInv, TypeOK
  <2>4. commits' = commits /\ versionedLog' = versionedLog
    BY <1>4 DEF Append, Acknowledge
  <2> QED BY <2>3, <2>4 DEF MarkerInv, MarkersUnshared
<1>5. CASE Quiet
  BY <1>5 DEF Quiet, MarkerInv, MarkersUnshared
<1> QED BY <1>1, <1>2, <1>3, <1>4, <1>5, QuietSteps

\* No two transitions ever carry the same marker, and a marker is a commit of the
\* transition that carries it.
THEOREM MarkersNeverShared == Spec => []MarkersAreDistinct
<1>1. Init => TypeInv /\ MarkerInv
  BY InitTypeInv, InitMarkerInv
<1>2. (TypeInv /\ MarkerInv) /\ [Next]_vars => (TypeInv /\ MarkerInv)'
  BY TypeInvStep, MarkerInvStep
<1>3. TypeInv /\ MarkerInv => MarkersAreDistinct
  <2> SUFFICES ASSUME TypeInv, MarkerInv, NEW d \in Deployments, NEW o \in Ordinals,
                      intents[d][o].marker # NoMarker
               PROVE  /\ \A e \in Deployments : \A p \in Ordinals :
                           intents[e][p].marker = intents[d][o].marker => e = d /\ p = o
                      /\ intents[d][o].marker \in 1 .. commits
                      /\ \A entry \in versionedLog :
                           entry.sequence = intents[d][o].marker =>
                             entry.deployment = d /\ entry.ordinal = o
    BY DEF MarkersAreDistinct
  <2>1. intents[d][o].marker \in 1 .. commits
    BY MarkersTyped DEF MarkerInv, NoMarker
  <2>2. \A e \in Deployments : \A p \in Ordinals :
          intents[e][p].marker = intents[d][o].marker => e = d /\ p = o
    BY DEF MarkerInv, MarkersUnshared
  <2>3. \A entry \in versionedLog : entry.sequence = intents[d][o].marker =>
          entry.deployment = d /\ entry.ordinal = o
    BY DEF MarkerInv
  <2> QED BY <2>1, <2>2, <2>3
<1> QED BY <1>1, <1>2, <1>3, PTL DEF Spec

-----------------------------------------------------------------------------
(* Events: what the log says of a deployment, one bound intent said.       *)

EventsInv == OrdinalsInv /\ EveryEventHasItsIntent

\* The event log is empty.
LEMMA InitEvents == Init => EveryEventHasItsIntent
BY DEF Init, EveryEventHasItsIntent, DeploymentEvents

\* The intents that have said their events keep what they said.
LEMMA EventsKept ==
  ASSUME TypeInv, EveryEventHasItsIntent,
         \A d \in Deployments, o \in Ordinals :
           intents[d][o].state \in {"Appended", "Acknowledged"} =>
             intents'[d][o].state \in {"Appended", "Acknowledged"} /\ EventOf(d, o)' = EventOf(d, o),
         eventLog' \subseteq eventLog
  PROVE  EveryEventHasItsIntent'
BY DEF EveryEventHasItsIntent, DeploymentEvents

\* The log grows only by the payload of the intent that is marked appended with it,
\* and loses only whole events.
LEMMA EventsStep ==
  TypeInv /\ TypeInv' /\ EventsInv /\ [Next]_vars => EveryEventHasItsIntent'
<1> SUFFICES ASSUME TypeInv, TypeInv', EventsInv, [Next]_vars PROVE EveryEventHasItsIntent'
  OBVIOUS
<1> USE DEF EventsInv
<1>1. ASSUME NEW d \in Deployments, NEW o \in Ordinals, NEW kind, NEW position,
             SetIntent(d, o, NewIntent(kind, position)), ~ Present(d, o), eventLog' = eventLog
      PROVE  EveryEventHasItsIntent'
  <2>1. \A e \in Deployments, p \in Ordinals :
          intents[e][p].state \in {"Appended", "Acknowledged"} => intents'[e][p] = intents[e][p]
    BY <1>1 DEF SetIntent, Present, TypeInv, TypeOK
  <2> QED BY <1>1, <2>1, EventsKept DEF EventOf
<1>2. ASSUME NEW d \in Deployments, BeginAdmission(d) \/ BeginRejection(d)
      PROVE  EveryEventHasItsIntent'
  <2>1. 0 \in Ordinals /\ d \in Nat /\ d = allocation.deployment
    BY <1>2, JournalAssumption
    DEF JournalAssumption, Ordinals, Deployments, BeginAdmission, BeginRejection, BeginFirst
  <2>2. ~ Present(d, 0)
    BY <2>1 DEF OrdinalsInv
  <2> QED BY <1>1, <1>2, <2>1, <2>2 DEF BeginAdmission, BeginRejection, BeginFirst
<1>3. ASSUME NEW d \in Deployments, NEW o \in Ordinals, BeginPhase(d, o) \/ BeginTerminal(d, o)
      PROVE  EveryEventHasItsIntent'
  <2>1. ~ Present(d, o)
    BY <1>3, JournalAssumption
    DEF BeginPhase, BeginTerminal, NextOrdinal, Ordinals, JournalAssumption
  <2> QED BY <1>1, <1>3, <2>1 DEF BeginPhase, BeginTerminal
<1>4. ASSUME NEW d \in Deployments, NEW marker \in SourceCommits(d, step[d].ordinal),
             Bind(d, marker)
      PROVE  EveryEventHasItsIntent'
  <2> DEFINE o == step[d].ordinal
  <2>1. marker \in Nat
    BY MarkersTyped DEF SourceCommits
  <2>2. Advances(d, o, Bound(intents[d][o], marker))
    BY <1>4, <2>1, BindAdvances
  <2>3. intents[d][o].state = "Pending"
    BY <1>4, <2>2, UnboundIsPending DEF Bind, Advances, Undelivered, TypeInv, TypeOK
  <2>4. \A e \in Deployments, p \in Ordinals :
          intents[e][p].state \in {"Appended", "Acknowledged"} => intents'[e][p] = intents[e][p]
    BY <2>2, <2>3 DEF Advances, TypeInv, TypeOK
  <2>5. eventLog' = eventLog
    BY <1>4 DEF Bind
  <2> QED BY <2>4, <2>5, EventsKept DEF EventOf
<1>5. ASSUME NEW d \in Deployments, NEW s \in {"Appended", "Acknowledged"},
             s = "Appended" => Append(d), s = "Acknowledged" => Acknowledge(d)
      PROVE  /\ step[d].ordinal \in Ordinals
             /\ intents'[d][step[d].ordinal].state = s
             /\ \A e \in Deployments, p \in Ordinals :
                  /\ EventOf(e, p)' = EventOf(e, p)
                  /\ intents[e][p].state \in {"Appended", "Acknowledged"} =>
                       intents'[e][p].state \in {"Appended", "Acknowledged"}
  <2> DEFINE o == step[d].ordinal
             i == [intents[d][o] EXCEPT !.state = s]
  <2>1. /\ Advances(d, o, i) /\ i.marker = intents[d][o].marker /\ i.state = s
    BY <1>5, DeliveryAdvances
  <2>2. \A e \in Deployments, p \in Ordinals :
          intents'[e][p] = IF e = d /\ p = o THEN i ELSE intents[e][p]
    BY <2>1 DEF Advances, TypeInv, TypeOK
  <2> HIDE DEF i
  <2>3. o \in Ordinals /\ i.kind = intents[d][o].kind /\ i.position = intents[d][o].position
    BY <2>1 DEF Advances
  <2>4. \A e \in Deployments, p \in Ordinals : EventOf(e, p)' = EventOf(e, p)
    BY <2>1, <2>2, <2>3 DEF EventOf
  <2> QED BY <2>1, <2>2, <2>3, <2>4
<1>6. ASSUME NEW d \in Deployments, Append(d) PROVE EveryEventHasItsIntent'
  <2> DEFINE o == step[d].ordinal
             said == EventOf(d, o)
  <2>1. /\ o \in Ordinals /\ intents'[d][o].state = "Appended"
        /\ \A e \in Deployments, p \in Ordinals :
             /\ EventOf(e, p)' = EventOf(e, p)
             /\ intents[e][p].state \in {"Appended", "Acknowledged"} =>
                  intents'[e][p].state \in {"Appended", "Acknowledged"}
    BY <1>5, <1>6
  <2>2. eventLog' = eventLog \union {said} /\ said.position = intents[d][o].position
        /\ \A event \in eventLog : event.position = said.position => event = said
    BY <1>6 DEF Append, Appendable, EventOf
  <2>3. \A event \in eventLog' : event.kind # "Other" =>
          \E e \in Deployments, p \in Ordinals :
            intents'[e][p].state \in {"Appended", "Acknowledged"} /\ event = EventOf(e, p)'
    BY <2>1, <2>2 DEF EveryEventHasItsIntent, DeploymentEvents
  <2> HIDE DEF said
  <2>4. \A e, f \in eventLog' : e.position = f.position => e = f
    BY <2>2 DEF EveryEventHasItsIntent
  <2> QED BY <2>3, <2>4 DEF EveryEventHasItsIntent, DeploymentEvents
<1>7. ASSUME NEW d \in Deployments, Acknowledge(d) PROVE EveryEventHasItsIntent'
  <2>1. eventLog' = eventLog
    BY <1>7 DEF Acknowledge
  <2> QED BY <1>5, <1>7, <2>1, EventsKept
<1>8. CASE Quiet
  <2>1. \A d \in Deployments, o \in Ordinals : EventOf(d, o)' = EventOf(d, o)
    BY <1>8 DEF Quiet, EventOf
  <2>2. CASE eventLog' \subseteq eventLog
    BY <1>8, <2>1, <2>2, EventsKept DEF Quiet
  <2>3. ASSUME NEW event \in Event, event.kind = "Other",
               \A f \in eventLog : f.position # event.position,
               eventLog' = eventLog \union {event}
        PROVE  EveryEventHasItsIntent'
    BY <1>8, <2>1, <2>3 DEF Quiet, EveryEventHasItsIntent, DeploymentEvents
  <2> QED BY <1>8, <2>2, <2>3 DEF Quiet
<1> QED BY <1>2, <1>3, <1>4, <1>6, <1>7, <1>8, QuietSteps

\* The public log never invents, duplicates or alters a deployment's event.
THEOREM EventsComeFromIntents == Spec => []EveryEventHasItsIntent
<1>1. Init => TypeInv /\ EventsInv
  BY InitTypeInv, InitOrdinalsInv, InitEvents DEF EventsInv
<1>2. (TypeInv /\ EventsInv) /\ [Next]_vars => (TypeInv /\ EventsInv)'
  BY TypeInvStep, OrdinalsInvStep, EventsStep DEF EventsInv
<1>3. TypeInv /\ EventsInv => EveryEventHasItsIntent
  BY DEF EventsInv
<1> QED BY <1>1, <1>2, <1>3, PTL DEF Spec

-----------------------------------------------------------------------------
(* Cursors and terminals.                                                  *)

\* The opening store has delivered everything before the daemon settles its rows.
DeliveredBeforeJobs ==
  mode \in {"outbox", "jobs"} => \A d \in Deployments : AllDelivered(d)

CursorInv ==
  /\ DeliveredBeforeJobs
  /\ UndeliveredKeepsItsCursor
  /\ \A d \in Deployments :
       record[d].lifecycle = "Terminal" <=> \E o \in Ordinals : intents[d][o].kind = "Terminal"

\* No deployment is accepted and no job row exists.
LEMMA InitCursorInv == Init => CursorInv
BY JournalAssumption
DEF JournalAssumption, Init, CursorInv, UndeliveredKeepsItsCursor, Accepted, TerminalReported,
    DeliveredBeforeJobs, AbsentIntent, AbsentRecord, Ordinals

\* Rows are settled only once every intent the store opened with is delivered.
LEMMA DeliveredStep ==
  ASSUME TypeInv, DeliveredBeforeJobs, [Next]_vars PROVE DeliveredBeforeJobs'
<1> SUFFICES ASSUME mode' \in {"outbox", "jobs"} PROVE \A d \in Deployments : AllDelivered(d)'
  BY DEF DeliveredBeforeJobs
<1>1. ASSUME NEW d \in Deployments, Begin(d) PROVE FALSE
  BY <1>1 DEF Begin, BeginAdmission, BeginRejection, BeginFirst, BeginPhase, BeginTerminal, Serving
<1>2. ASSUME NEW d \in Deployments, Deliver(d) PROVE FALSE
  BY <1>2 DEF Deliver, BindAgain, Bind, Dispatch, Append, Acknowledge, Refuse, Delivering
<1>3. ASSUME NEW w \in Writers, AllocatePosition(w) \/ Maintain(w) PROVE FALSE
  BY <1>3 DEF AllocatePosition, Maintain, CompactRows, CompactVersionedHistory, NothingToCompact,
              CompactConfiguredHistory, Serving
<1>4. ASSUME AppendOther \/ Crash PROVE FALSE
  BY <1>4 DEF AppendOther, Crash, Serving
<1>5. ASSUME NEW d \in Deployments, NEW o \in Ordinals, ReconcileIntent(d, o) PROVE FALSE
  BY <1>5 DEF ReconcileIntent
<1>6. ASSUME Restart \/ RequeueDispatchedOutbox \/ JobsReconciled PROVE FALSE
  BY <1>6 DEF Restart, RequeueDispatchedOutbox, JobsReconciled
<1>7. CASE IntentsReconciled
  BY <1>7 DEF IntentsReconciled, Unreconciled, AllDelivered, Undelivered, durable
<1>8. CASE ReconcileDeploymentOutbox \/ \E d \in Deployments : RetractDeployJob(d)
  <2>1. mode \in {"outbox", "jobs"} /\ intents' = intents
    BY <1>8 DEF ReconcileDeploymentOutbox, RetractDeployJob
  <2> QED BY <2>1 DEF DeliveredBeforeJobs, AllDelivered, Undelivered
<1>9. CASE UNCHANGED vars
  BY <1>9 DEF vars, durable, volatile, DeliveredBeforeJobs, AllDelivered, Undelivered
<1> QED BY <1>1, <1>2, <1>3, <1>4, <1>5, <1>6, <1>7, <1>8, <1>9 DEF Next, Reopen

\* A transition that has not begun has no kind.
LEMMA AbsentHasNoKind ==
  ASSUME TypeInv, NEW d \in Deployments, NEW o \in Ordinals
  PROVE  /\ ~ Present(d, o) => intents[d][o].kind = "None"
         /\ intents[d][o].kind \in Kinds \union {"None"}
<1>1. \A i \in Intent : /\ i.state = "Absent" => i.kind = "None"
                        /\ i.kind \in Kinds \union {"None"}
  BY DEF Intent, AbsentIntent
<1> QED BY <1>1 DEF Present, TypeInv, TypeOK

\* No transition begins on a deployment whose terminal has been written.
LEMMA BeginsAreOpen ==
  ASSUME TypeInv, OrdinalsInv, CursorInv, NEW d \in Deployments, NEW o \in Ordinals,
         BeginPhase(d, o) \/ BeginTerminal(d, o)
  PROVE  /\ record[d].lifecycle # "Terminal"
         /\ \A p \in Ordinals : intents[d][p].kind # "Terminal"
         /\ ~ Present(d, o) /\ o # 0
<1>1. record[d].lifecycle # "Terminal"
  <2>1. CASE BeginTerminal(d, o)
    BY <2>1 DEF BeginTerminal
  <2>2. CASE BeginPhase(d, o)
    <3>1. ~ TerminalReported(d) /\ AllDelivered(d)
      BY <2>2 DEF BeginPhase, HasCursor, CursorInv, UndeliveredKeepsItsCursor
    <3>2. \A p \in Ordinals : intents[d][p].kind = "Terminal" => Present(d, p)
      BY AbsentHasNoKind
    <3> QED BY <3>1, <3>2
      DEF CursorInv, AllDelivered, Undelivered, TerminalReported, Present
  <2> QED BY <2>1, <2>2
<1>2. NextOrdinal(d, o) /\ record[d].lifecycle # "Absent"
  BY DEF BeginPhase, BeginTerminal
<1>3. Present(d, 0)
  BY <1>2 DEF OrdinalsInv
<1>4. ~ Present(d, o)
  BY <1>2, JournalAssumption DEF NextOrdinal, Ordinals, JournalAssumption
<1> QED BY <1>1, <1>3, <1>4 DEF CursorInv

\* The first transition of a deployment finds neither its record nor an intent.
LEMMA FirstIsNew ==
  ASSUME TypeInv, OrdinalsInv, NEW d \in Deployments, BeginAdmission(d) \/ BeginRejection(d)
  PROVE  /\ record[d].lifecycle = "Absent" /\ 0 \in Ordinals
         /\ \A o \in Ordinals : ~ Present(d, o) /\ intents[d][o].kind = "None"
<1>1. d \in Nat /\ 0 \in Ordinals /\ d = allocation.deployment
  BY JournalAssumption
  DEF JournalAssumption, Ordinals, Deployments, BeginAdmission, BeginRejection, BeginFirst
<1> QED BY <1>1, AbsentHasNoKind DEF OrdinalsInv

\* Beginning a transition gives a deployment its job row only with its admission.
LEMMA CursorBegin ==
  ASSUME TypeInv, CursorInv, NEW d \in Deployments, NEW o \in Ordinals,
         NEW kind \in Kinds, NEW position, SetIntent(d, o, NewIntent(kind, position)),
         ~ Present(d, o), o = 0 \/ kind # "Submitted", o # 0 \/ kind # "Phase",
         \A p \in Ordinals : intents[d][p].kind # "Terminal",
         o = 0 => \A p \in Ordinals : intents[d][p].kind = "None",
         jobs' = IF kind = "Submitted" THEN jobs \union {d} ELSE jobs,
         o # 0 => d \in jobs, o = 0 => d \notin jobs, DeliveredBeforeJobs',
         \A e \in Deployments : e # d => record'[e] = record[e],
         record'[d].lifecycle = "Terminal" <=> kind = "Terminal"
  PROVE  CursorInv'
<1>1. \A e \in Deployments : \A p \in Ordinals :
        intents'[e][p] = IF e = d /\ p = o THEN NewIntent(kind, position) ELSE intents[e][p]
  BY DEF SetIntent, TypeInv, TypeOK
<1>2. NewIntent(kind, position).kind = kind /\ NewIntent(kind, position).state = "Pending"
  BY DEF NewIntent
<1>3. 0 \in Ordinals
  BY JournalAssumption DEF JournalAssumption, Ordinals
<1>4. \A e \in Deployments : record'[e].lifecycle = "Terminal" <=>
        \E p \in Ordinals : intents'[e][p].kind = "Terminal"
  BY <1>1, <1>2 DEF CursorInv
<1>5. \A e \in Deployments : TerminalReported(e)' <=> TerminalReported(e)
  BY <1>1, <1>2, AbsentHasNoKind DEF TerminalReported, Present
<1>6. ~ TerminalReported(d)
  BY DEF TerminalReported
<1>7. \A e \in Deployments :
        Accepted(e)' <=> IF e = d /\ o = 0 THEN kind = "Submitted" ELSE Accepted(e)
  BY <1>1, <1>2, <1>3 DEF Accepted
<1>8. o = 0 => ~ Accepted(d)
  BY <1>3 DEF Accepted
<1>9. \A e \in Deployments : e # d =>
        /\ AllDelivered(e) => AllDelivered(e)'
        /\ \A p \in Ordinals : intents'[e][p] = intents[e][p]
        /\ record'[e] = record[e]
        /\ e \in jobs' <=> e \in jobs
  BY <1>1 DEF AllDelivered, Undelivered
<1>10. d \in jobs' <=> o # 0 \/ kind = "Submitted"
  OBVIOUS
<1>11. UndeliveredKeepsItsCursor'
  <2> SUFFICES ASSUME NEW e \in Deployments
               PROVE  /\ e \in jobs' => Accepted(e)' /\ ~ TerminalReported(e)'
                      /\ Accepted(e)' /\ ~ TerminalReported(e)' /\ e \notin jobs' =>
                           /\ AllDelivered(e)'
                           /\ record'[e].lifecycle # "Terminal"
                           /\ \E p \in Ordinals : intents'[e][p].kind = "Phase"
    BY DEF UndeliveredKeepsItsCursor
  <2>1. CASE e = d
    BY <1>5, <1>6, <1>7, <1>10, <2>1 DEF CursorInv, UndeliveredKeepsItsCursor
  <2>2. CASE e # d
    BY <1>5, <1>7, <1>9, <2>2 DEF CursorInv, UndeliveredKeepsItsCursor
  <2> QED BY <2>1, <2>2
<1> QED BY <1>4, <1>11 DEF CursorInv

\* Only the acknowledgement of a terminal transition takes the job row.
LEMMA CursorAdvance ==
  ASSUME TypeInv, CursorInv, NEW d, NEW o, NEW i, Advances(d, o, i),
         \A e \in Deployments : record'[e].lifecycle = record[e].lifecycle,
         jobs' = IF i.kind = "Terminal" /\ i.state = "Acknowledged" THEN jobs \ {d} ELSE jobs,
         DeliveredBeforeJobs'
  PROVE  CursorInv'
<1>1. \A e \in Deployments : \A p \in Ordinals :
        intents'[e][p] = IF e = d /\ p = o THEN i ELSE intents[e][p]
  BY DEF Advances, TypeInv, TypeOK
<1>2. /\ i.kind = intents[d][o].kind /\ d \in Deployments /\ o \in Ordinals
      /\ intents[d][o].state # "Acknowledged"
  BY DEF Advances, Undelivered
<1>3. 0 \in Ordinals
  BY JournalAssumption DEF JournalAssumption, Ordinals
<1>4. \A e \in Deployments : Accepted(e)' <=> Accepted(e)
  BY <1>1, <1>2, <1>3 DEF Accepted
<1>5. \A e \in Deployments : TerminalReported(e)' <=>
        \/ TerminalReported(e)
        \/ e = d /\ i.kind = "Terminal" /\ i.state = "Acknowledged"
  BY <1>1, <1>2 DEF TerminalReported
<1>6. \A e \in Deployments : record'[e].lifecycle = "Terminal" <=>
        \E p \in Ordinals : intents'[e][p].kind = "Terminal"
  BY <1>1, <1>2 DEF CursorInv
<1>7. ~ AllDelivered(d)
  BY <1>2 DEF Advances, AllDelivered
<1>8. \A e \in Deployments : e # d =>
        /\ AllDelivered(e) => AllDelivered(e)'
        /\ \A p \in Ordinals : intents'[e][p] = intents[e][p]
        /\ e \in jobs' <=> e \in jobs
  BY <1>1 DEF AllDelivered, Undelivered
<1>9. UndeliveredKeepsItsCursor'
  <2> SUFFICES ASSUME NEW e \in Deployments
               PROVE  /\ e \in jobs' => Accepted(e)' /\ ~ TerminalReported(e)'
                      /\ Accepted(e)' /\ ~ TerminalReported(e)' /\ e \notin jobs' =>
                           /\ AllDelivered(e)'
                           /\ record'[e].lifecycle # "Terminal"
                           /\ \E p \in Ordinals : intents'[e][p].kind = "Phase"
    BY DEF UndeliveredKeepsItsCursor
  <2>1. CASE e = d
    BY <1>4, <1>5, <1>7, <2>1 DEF CursorInv, UndeliveredKeepsItsCursor
  <2>2. CASE e # d
    BY <1>4, <1>5, <1>8, <2>2 DEF CursorInv, UndeliveredKeepsItsCursor
  <2> QED BY <2>1, <2>2
<1> QED BY <1>6, <1>9 DEF CursorInv

\* A job row belongs to an accepted deployment whose terminal is not acknowledged,
\* and only a start takes one before that, once everything is delivered.
LEMMA CursorInvStep ==
  TypeInv /\ TypeInv' /\ OrdinalsInv /\ CursorInv /\ [Next]_vars => CursorInv'
<1> SUFFICES ASSUME TypeInv, TypeInv', OrdinalsInv, CursorInv, [Next]_vars PROVE CursorInv'
  OBVIOUS
<1>0. DeliveredBeforeJobs'
  BY DeliveredStep DEF CursorInv
<1>1. ASSUME NEW d \in Deployments, BeginAdmission(d) \/ BeginRejection(d) PROVE CursorInv'
  <2>1. PICK l \in {"Open", "Terminal"} :
          /\ BeginFirst(d, l, IF l = "Open" THEN "Submitted" ELSE "Terminal")
          /\ jobs' = IF l = "Open" THEN jobs \union {d} ELSE jobs
    BY <1>1 DEF BeginAdmission, BeginRejection
  <2> DEFINE kind == IF l = "Open" THEN "Submitted" ELSE "Terminal"
  <2>2. kind \in Kinds /\ (kind = "Submitted" <=> l = "Open") /\ kind # "Phase"
        /\ (kind = "Terminal" <=> l = "Terminal")
    BY DEF Kinds
  <2>3. /\ SetIntent(d, 0, NewIntent(kind, allocation.position))
        /\ record' = [record EXCEPT ![d].lifecycle = l]
    BY <2>1 DEF BeginFirst
  <2>4. /\ \A e \in Deployments : e # d => record'[e] = record[e]
        /\ record'[d].lifecycle = l
    BY <2>3 DEF TypeInv, TypeOK, Record
  <2> HIDE DEF kind
  <2>5. jobs' = IF kind = "Submitted" THEN jobs \union {d} ELSE jobs
    BY <2>1, <2>2
  <2>6. 0 \in Ordinals /\ d \notin jobs /\ ~ Present(d, 0)
        /\ \A p \in Ordinals : intents[d][p].kind = "None"
    BY <1>1, FirstIsNew DEF CursorInv, UndeliveredKeepsItsCursor, Accepted
  <2> QED BY <1>0, <2>2, <2>3, <2>4, <2>5, <2>6, CursorBegin
<1>2. ASSUME NEW d \in Deployments, NEW o \in Ordinals, BeginPhase(d, o) PROVE CursorInv'
  <2>1. /\ \A p \in Ordinals : intents[d][p].kind # "Terminal"
        /\ ~ Present(d, o) /\ o # 0
    BY <1>2, BeginsAreOpen
  <2>2. SetIntent(d, o, NewIntent("Phase", reserved[d])) /\ "Phase" \in Kinds /\ jobs' = jobs
        /\ d \in jobs
    BY <1>2 DEF BeginPhase, Kinds, HasCursor
  <2>3. /\ \A e \in Deployments : e # d => record'[e] = record[e]
        /\ record'[d].lifecycle = "Open"
    BY <1>2 DEF BeginPhase, TypeInv, TypeOK, Record
  <2> QED BY <1>0, <2>1, <2>2, <2>3, CursorBegin
<1>3. ASSUME NEW d \in Deployments, NEW o \in Ordinals, BeginTerminal(d, o) PROVE CursorInv'
  <2>1. /\ \A p \in Ordinals : intents[d][p].kind # "Terminal"
        /\ ~ Present(d, o) /\ o # 0
    BY <1>3, BeginsAreOpen
  <2>2. /\ SetIntent(d, o, NewIntent("Terminal", allocation.position))
        /\ "Terminal" \in Kinds /\ jobs' = jobs /\ d \in jobs
    BY <1>3 DEF BeginTerminal, Kinds, Driven
  <2>3. /\ \A e \in Deployments : e # d => record'[e] = record[e]
        /\ record'[d].lifecycle = "Terminal"
    BY <1>3 DEF BeginTerminal, TypeInv, TypeOK, Record
  <2> QED BY <1>0, <2>1, <2>2, <2>3, CursorBegin
<1>4. ASSUME NEW d \in Deployments, NEW marker \in SourceCommits(d, step[d].ordinal),
             Bind(d, marker)
      PROVE  CursorInv'
  <2>1. marker \in Nat
    BY MarkersTyped DEF SourceCommits
  <2> DEFINE i == Bound(intents[d][step[d].ordinal], marker)
  <2>2. Advances(d, step[d].ordinal, i)
    BY <1>4, <2>1, BindAdvances
  <2>3. i.state # "Acknowledged"
    <3>1. intents[d][step[d].ordinal] \in
            [kind : Kinds, position : Nat, marker : {NoMarker}, state : {"Pending"}]
      BY <1>4, <2>2, UnboundIsPending DEF Bind, Advances, Undelivered, TypeInv, TypeOK
    <3> QED BY <3>1 DEF Bound
  <2>4. \A e \in Deployments : record'[e].lifecycle = record[e].lifecycle
    BY <1>4, BindKeepsLifecycle
  <2>5. jobs' = jobs
    BY <1>4 DEF Bind
  <2> HIDE DEF i
  <2> QED BY <1>0, <2>2, <2>3, <2>4, <2>5, CursorAdvance
<1>5. ASSUME NEW d \in Deployments, NEW s \in {"Appended", "Acknowledged"},
             s = "Appended" => Append(d), s = "Acknowledged" => Acknowledge(d)
      PROVE  CursorInv'
  <2> DEFINE o == step[d].ordinal
             i == [intents[d][o] EXCEPT !.state = s]
  <2>1. Advances(d, o, i) /\ i.state = s
    BY <1>5, DeliveryAdvances
  <2>2. record' = record
    BY <1>5 DEF Append, Acknowledge
  <2>3. jobs' = IF intents[d][o].kind = "Terminal" /\ s = "Acknowledged"
                THEN jobs \ {d} ELSE jobs
    BY <1>5 DEF Append, Acknowledge, JobsAfter
  <2>4. i.kind = intents[d][o].kind
    BY <2>1 DEF Advances
  <2> HIDE DEF i
  <2> QED BY <1>0, <2>1, <2>2, <2>3, <2>4, CursorAdvance
<1>6. CASE Quiet
  <2>1. \A d \in Deployments :
          /\ Accepted(d)' <=> Accepted(d)
          /\ TerminalReported(d)' <=> TerminalReported(d)
          /\ AllDelivered(d)' <=> AllDelivered(d)
          /\ intents'[d] = intents[d] /\ record'[d] = record[d]
    BY <1>6 DEF Quiet, Accepted, TerminalReported, AllDelivered, Undelivered
  <2>2. CASE jobs' = jobs
    BY <1>0, <2>1, <2>2 DEF CursorInv, UndeliveredKeepsItsCursor
  <2>3. ASSUME NEW d \in Deployments, RetractDeployJob(d) PROVE CursorInv'
    <3>1. /\ d \in jobs /\ mode = "jobs" /\ jobs' = jobs \ {d}
          /\ \E o \in Ordinals : intents[d][o].kind = "Phase"
      BY <2>3 DEF RetractDeployJob
    <3>2. AllDelivered(d) /\ ~ TerminalReported(d)
      BY <3>1 DEF CursorInv, DeliveredBeforeJobs, UndeliveredKeepsItsCursor
    <3>3. record[d].lifecycle # "Terminal"
      <4>1. \A p \in Ordinals : intents[d][p].kind = "Terminal" => Present(d, p)
        BY AbsentHasNoKind
      <4> QED BY <3>2, <4>1
        DEF CursorInv, AllDelivered, Undelivered, TerminalReported, Present
    <3> QED BY <1>0, <2>1, <3>1, <3>2, <3>3 DEF CursorInv, UndeliveredKeepsItsCursor
  <2> QED BY <1>6, <2>2, <2>3 DEF Quiet
<1> QED
  <2>1. ASSUME NEW d \in Deployments, Append(d) PROVE CursorInv'
    BY <1>5, <2>1
  <2>2. ASSUME NEW d \in Deployments, Acknowledge(d) PROVE CursorInv'
    BY <1>5, <2>2
  <2> QED BY <1>1, <1>2, <1>3, <1>4, <1>6, <2>1, <2>2, QuietSteps

\* A transition that is still to be delivered, a terminal one above all, has its
\* restart cursor: the commit that acknowledges the terminal event takes it, or a
\* start that finds everything delivered and no terminal written.
THEOREM CursorsOutliveTerminals == Spec => []UndeliveredKeepsItsCursor
<1>1. Init => TypeInv /\ OrdinalsInv /\ CursorInv
  BY InitTypeInv, InitOrdinalsInv, InitCursorInv
<1>2. (TypeInv /\ OrdinalsInv /\ CursorInv) /\ [Next]_vars
        => (TypeInv /\ OrdinalsInv /\ CursorInv)'
  BY TypeInvStep, OrdinalsInvStep, CursorInvStep
<1>3. TypeInv /\ OrdinalsInv /\ CursorInv => UndeliveredKeepsItsCursor
  BY DEF CursorInv
<1> QED BY <1>1, <1>2, <1>3, PTL DEF Spec

FinalStep ==
  \A d \in Deployments :
    record[d].lifecycle = "Terminal" =>
      /\ record'[d].lifecycle = "Terminal"
      /\ \A o \in Ordinals : Present(d, o)' => Present(d, o)

\* A terminal deployment stays terminal and gets no further transition.
LEMMA TerminalStep ==
  TypeInv /\ TypeInv' /\ OrdinalsInv /\ CursorInv /\ [Next]_vars => FinalStep
<1> SUFFICES ASSUME TypeInv, TypeInv', OrdinalsInv, CursorInv, [Next]_vars PROVE FinalStep
  OBVIOUS
<1>1. ASSUME NEW d \in Deployments, record[d].lifecycle # "Terminal",
             \A e \in Deployments : e # d =>
               record'[e] = record[e] /\ intents'[e] = intents[e]
      PROVE  FinalStep
  BY <1>1 DEF FinalStep, Present
<1>2. ASSUME NEW d \in Deployments, BeginAdmission(d) \/ BeginRejection(d) PROVE FinalStep
  <2>1. \A e \in Deployments : e # d => record'[e] = record[e] /\ intents'[e] = intents[e]
    BY <1>2 DEF BeginAdmission, BeginRejection, BeginFirst, SetIntent, TypeInv, TypeOK
  <2> QED BY <1>1, <1>2, <2>1, FirstIsNew
<1>3. ASSUME NEW d \in Deployments, NEW o \in Ordinals, BeginPhase(d, o) \/ BeginTerminal(d, o)
      PROVE  FinalStep
  <2>1. \A e \in Deployments : e # d => record'[e] = record[e] /\ intents'[e] = intents[e]
    BY <1>3 DEF BeginPhase, BeginTerminal, SetIntent, TypeInv, TypeOK
  <2> QED BY <1>1, <1>3, <2>1, BeginsAreOpen
<1>4. ASSUME NEW d \in Deployments, NEW marker \in SourceCommits(d, step[d].ordinal),
             Bind(d, marker)
      PROVE  FinalStep
  <2>1. marker \in Nat
    BY MarkersTyped DEF SourceCommits
  <2>2. \A e \in Deployments : record'[e].lifecycle = record[e].lifecycle
    BY <1>4, BindKeepsLifecycle
  <2> QED BY <1>4, <2>1, <2>2, BindAdvances, OrdinalsAdvance DEF FinalStep
<1>5. ASSUME NEW d \in Deployments, NEW s \in {"Appended", "Acknowledged"},
             s = "Appended" => Append(d), s = "Acknowledged" => Acknowledge(d)
      PROVE  FinalStep
  <2>1. record' = record
    BY <1>5 DEF Append, Acknowledge
  <2> QED BY <1>5, <2>1, DeliveryAdvances, OrdinalsAdvance DEF FinalStep
<1>6. CASE Quiet
  BY <1>6 DEF Quiet, FinalStep, Present
<1> QED
  <2>1. ASSUME NEW d \in Deployments, Append(d) PROVE FinalStep
    BY <1>5, <2>1
  <2>2. ASSUME NEW d \in Deployments, Acknowledge(d) PROVE FinalStep
    BY <1>5, <2>2
  <2> QED BY <1>2, <1>3, <1>4, <1>6, <2>1, <2>2, QuietSteps

\* A terminal deployment stays terminal and begins nothing more, because its
\* job row is gone before any further transition could begin.
THEOREM TerminalsAreFinal == Spec => TerminalIsFinal
<1>1. Init => TypeInv /\ OrdinalsInv /\ CursorInv
  BY InitTypeInv, InitOrdinalsInv, InitCursorInv
<1>2. (TypeInv /\ OrdinalsInv /\ CursorInv) /\ [Next]_vars
        => (TypeInv /\ OrdinalsInv /\ CursorInv)'
  BY TypeInvStep, OrdinalsInvStep, CursorInvStep
<1>3. (TypeInv /\ OrdinalsInv /\ CursorInv) /\ (TypeInv /\ OrdinalsInv /\ CursorInv)'
        /\ [Next]_vars => [FinalStep]_vars
  BY TerminalStep
<1> QED BY <1>1, <1>2, <1>3, PTL DEF Spec, TerminalIsFinal, FinalStep

-----------------------------------------------------------------------------
(* The journal implements DeploymentDelivery.                              *)

IInv == TypeInv /\ OrdinalsInv /\ MarkerInv /\ EveryEventHasItsIntent /\ CursorInv

\* The initial state satisfies the whole inductive invariant.
LEMMA InitIInv == Init => IInv
BY InitTypeInv, InitOrdinalsInv, InitMarkerInv, InitEvents, InitCursorInv DEF IInv

\* Every step preserves the whole inductive invariant.
LEMMA IInvStep == IInv /\ [Next]_vars => IInv'
BY TypeInvStep, OrdinalsInvStep, MarkerInvStep, EventsStep, CursorInvStep DEF IInv, EventsInv

\* An event in the log was appended by its intent and no other.
LEMMA PublishedIsAppended ==
  ASSUME IInv, NEW d \in Deployments, NEW o \in Ordinals, EventOf(d, o) \in eventLog
  PROVE  /\ intents[d][o].state \in {"Appended", "Acknowledged"}
         /\ intents[d][o].marker # NoMarker
<1>1. intents[d][o].kind \in Kinds \union {"None"} /\ EventOf(d, o).kind = intents[d][o].kind
      /\ EventOf(d, o).marker = intents[d][o].marker /\ EventOf(d, o).deployment = d
  BY AbsentHasNoKind DEF IInv, EventOf
<1>2. EventOf(d, o) \in DeploymentEvents
  BY <1>1 DEF DeploymentEvents, Kinds
<1>3. PICK e \in Deployments, p \in Ordinals :
        intents[e][p].state \in {"Appended", "Acknowledged"} /\ EventOf(d, o) = EventOf(e, p)
  BY <1>2 DEF IInv, EveryEventHasItsIntent
<1>4. intents[e][p].marker = intents[d][o].marker
  BY <1>3 DEF EventOf
<1>5. intents[e][p].marker # NoMarker
  BY <1>3 DEF IInv, TypeInv, TypeOK, Intent, AbsentIntent
<1>6. d = e /\ o = p
  BY <1>4, <1>5 DEF IInv, MarkerInv, MarkersUnshared
<1> QED BY <1>3, <1>5, <1>6

\* An event in the log belongs to an intent that is marked appended.
LEMMA PublishedStates ==
  IInv => \A d \in Deployments, o \in Ordinals : EventOf(d, o) \in eventLog =>
            intents[d][o].state \in {"Appended", "Acknowledged"}
BY PublishedIsAppended

\* The same of the next state.
LEMMA PublishedStatesNext ==
  IInv' => \A d \in Deployments, o \in Ordinals : EventOf(d, o)' \in eventLog' =>
             intents'[d][o].state \in {"Appended", "Acknowledged"}
<1>1. (IInv => \A d \in Deployments, o \in Ordinals : EventOf(d, o) \in eventLog =>
             intents[d][o].state \in {"Appended", "Acknowledged"})'
  BY PublishedStates, PTL
<1> QED BY <1>1

\* An update of one entry of a table, from what it does entry by entry.
LEMMA TableUpdate ==
  ASSUME NEW S, NEW T, NEW V, NEW F \in [S -> [T -> V]], NEW G \in [S -> [T -> V]],
         NEW d \in S, NEW o \in T, NEW v \in V,
         \A e \in S, p \in T : G[e][p] = IF e = d /\ p = o THEN v ELSE F[e][p]
  PROVE  G = [F EXCEPT ![d][o] = v]
<1> DEFINE H == [F EXCEPT ![d][o] = v]
<1>1. H \in [S -> [T -> V]]
  OBVIOUS
<1>2. ASSUME NEW e \in S PROVE G[e] = H[e]
  <2>1. G[e] \in [T -> V] /\ H[e] \in [T -> V]
    BY <1>1
  <2>2. \A p \in T : H[e][p] = IF e = d /\ p = o THEN v ELSE F[e][p]
    OBVIOUS
  <2> HIDE DEF H
  <2> QED BY <2>1, <2>2
<1> HIDE DEF H
<1>3. G = H
  BY <1>1, <1>2
<1> QED BY <1>3 DEF H

\* Likewise for the abstract status of the transitions.
LEMMA StatusUpdate ==
  ASSUME NEW d \in Deployments, NEW o \in Ordinals,
         NEW v \in {"none", "begun", "delivered"},
         \A e \in Deployments, p \in Ordinals :
           DeliveryStatus'[e][p] = IF e = d /\ p = o THEN v ELSE DeliveryStatus[e][p]
  PROVE  DeliveryStatus' = [DeliveryStatus EXCEPT ![d][o] = v]
<1>1. /\ DeliveryStatus \in [Deployments -> [Ordinals -> {"none", "begun", "delivered"}]]
      /\ DeliveryStatus' \in [Deployments -> [Ordinals -> {"none", "begun", "delivered"}]]
  BY DEF DeliveryStatus
<1> QED BY <1>1, TableUpdate

\* The initial state is an initial state of DeploymentDelivery.
LEMMA InitDelivery == Init => Delivery!Init
<1> SUFFICES ASSUME Init PROVE Delivery!Init
  OBVIOUS
<1>1. DeliveryStatus = [d \in Deployments |-> [o \in Ordinals |-> "none"]]
  BY DEF Init, DeliveryStatus, Present, AbsentIntent
<1>2. DeliveryFinal = {}
  BY DEF Init, DeliveryFinal, AbsentRecord
<1>3. DeliveryPublished = {}
  BY DEF Init, DeliveryPublished
<1> QED BY <1>1, <1>2, <1>3 DEF Delivery!Init

\* A new intent is not in the log, before it is written or after.
LEMMA BeginIsDelivery ==
  ASSUME IInv, IInv', FinalStep,
         NEW d \in Deployments, NEW o \in Ordinals, NEW kind \in Kinds, NEW position,
         SetIntent(d, o, NewIntent(kind, position)), ~ Present(d, o),
         AllDelivered(d), NextOrdinal(d, o), record[d].lifecycle # "Terminal",
         \A e \in Deployments : e # d => record'[e] = record[e],
         eventLog' = eventLog
  PROVE  Delivery!Begin(d, o)
<1>1. \A e \in Deployments : \A p \in Ordinals :
        intents'[e][p] = IF e = d /\ p = o THEN NewIntent(kind, position) ELSE intents[e][p]
  BY DEF SetIntent, IInv, TypeInv, TypeOK
<1>2. DeliveryStatus[d][o] = "none" /\ d \notin DeliveryFinal
  BY DEF DeliveryStatus, DeliveryFinal
<1>3. ASSUME NEW p \in Ordinals
      PROVE  DeliveryStatus[d][p] = (IF p < o THEN "delivered" ELSE "none")
  <2>1. o \in Nat /\ p \in Nat /\ (p < o => o - 1 \in Ordinals /\ o # 0)
    BY JournalAssumption DEF JournalAssumption, Ordinals
  <2>2. CASE p < o
    <3>1. Present(d, o - 1) /\ o - 1 \in Ordinals
      BY <2>1, <2>2 DEF NextOrdinal
    <3>2. p = o - 1 \/ p < o - 1
      BY <2>1, <2>2
    <3>3. Present(d, p)
      BY <3>1, <3>2 DEF IInv, OrdinalsInv
    <3> QED BY <2>2, <3>3 DEF DeliveryStatus, AllDelivered
  <2>3. CASE ~ (p < o)
    BY <2>3 DEF DeliveryStatus, NextOrdinal
  <2> QED BY <2>2, <2>3
<1>4. DeliveryStatus' = [DeliveryStatus EXCEPT ![d][o] = "begun"]
  <2>1. \A e \in Deployments, p \in Ordinals :
          DeliveryStatus'[e][p] = IF e = d /\ p = o THEN "begun" ELSE DeliveryStatus[e][p]
    BY <1>1 DEF DeliveryStatus, Present, Undelivered, NewIntent
  <2> QED BY <2>1, StatusUpdate
<1>5. DeliveryFinal' \in {DeliveryFinal, DeliveryFinal \union {d}}
  BY DEF DeliveryFinal
<1>6. DeliveryPublished' = DeliveryPublished
  <2>1. \A e \in Deployments, p \in Ordinals :
          ~ (e = d /\ p = o) => EventOf(e, p)' = EventOf(e, p)
    BY <1>1 DEF EventOf
  <2>2. EventOf(d, o) \notin eventLog
    BY PublishedIsAppended DEF Present
  <2>3. EventOf(d, o)' \notin eventLog'
    <3>1. intents'[d][o].state = "Pending"
      BY <1>1 DEF NewIntent
    <3> QED BY <3>1, PublishedStatesNext
  <2> QED BY <2>1, <2>2, <2>3 DEF DeliveryPublished
<1> QED BY <1>2, <1>3, <1>4, <1>5, <1>6 DEF Delivery!Begin

\* Every step of the journal is a step or a stutter of DeploymentDelivery.
LEMMA DeliveryStep == IInv /\ IInv' /\ [Next]_vars => [Delivery!Next]_(Delivery!vars)
<1> SUFFICES ASSUME IInv, IInv', [Next]_vars PROVE [Delivery!Next]_(Delivery!vars)
  OBVIOUS
<1>0. FinalStep
  BY TerminalStep DEF IInv
<1>1. ASSUME NEW d \in Deployments, BeginAdmission(d) \/ BeginRejection(d)
      PROVE  \E o \in Ordinals : Delivery!Begin(d, o)
  <2>1. PICK l \in {"Open", "Terminal"}, kind \in Kinds : BeginFirst(d, l, kind)
    BY <1>1 DEF BeginAdmission, BeginRejection, Kinds
  <2>2. /\ record[d].lifecycle = "Absent" /\ 0 \in Ordinals
        /\ \A o \in Ordinals : ~ Present(d, o)
    BY <1>1, FirstIsNew DEF IInv
  <2>3. AllDelivered(d) /\ NextOrdinal(d, 0)
    BY <2>2 DEF AllDelivered, NextOrdinal, Present, Undelivered
  <2>4. \A e \in Deployments : e # d => record'[e] = record[e]
    BY <2>1 DEF BeginFirst, IInv, TypeInv, TypeOK
  <2>5. SetIntent(d, 0, NewIntent(kind, allocation.position)) /\ eventLog' = eventLog
    BY <2>1 DEF BeginFirst
  <2> QED BY <1>0, <2>2, <2>3, <2>4, <2>5, BeginIsDelivery
<1>2. ASSUME NEW d \in Deployments, NEW o \in Ordinals, BeginPhase(d, o) \/ BeginTerminal(d, o)
      PROVE  Delivery!Begin(d, o)
  <2>1. record[d].lifecycle # "Terminal" /\ ~ Present(d, o)
    BY <1>2, BeginsAreOpen DEF IInv
  <2>2. PICK kind \in Kinds :
          \/ SetIntent(d, o, NewIntent(kind, reserved[d]))
          \/ SetIntent(d, o, NewIntent(kind, allocation.position))
    BY <1>2 DEF BeginPhase, BeginTerminal, Kinds
  <2>3. AllDelivered(d) /\ NextOrdinal(d, o) /\ eventLog' = eventLog
    BY <1>2 DEF BeginPhase, BeginTerminal
  <2>4. \A e \in Deployments : e # d => record'[e] = record[e]
    BY <1>2 DEF BeginPhase, BeginTerminal, IInv, TypeInv, TypeOK
  <2> QED BY <1>0, <2>1, <2>2, <2>3, <2>4, BeginIsDelivery
<1>3. ASSUME NEW d \in Deployments, NEW marker \in SourceCommits(d, step[d].ordinal),
             Bind(d, marker)
      PROVE  UNCHANGED Delivery!vars
  <2> DEFINE o == step[d].ordinal
             i == Bound(intents[d][o], marker)
  <2>1. marker \in Nat
    BY MarkersTyped DEF SourceCommits, IInv
  <2>2. Advances(d, o, i)
    BY <1>3, <2>1, BindAdvances DEF IInv
  <2>3. i.state = "Bound" /\ intents[d][o].state = "Pending"
    <3>1. intents[d][o] \in
            [kind : Kinds, position : Nat, marker : {NoMarker}, state : {"Pending"}]
      BY <1>3, <2>2, UnboundIsPending DEF Bind, Advances, Undelivered, IInv, TypeInv, TypeOK
    <3> QED BY <3>1 DEF Bound
  <2>4. \A e \in Deployments, p \in Ordinals :
          intents'[e][p] = IF e = d /\ p = o THEN i ELSE intents[e][p]
    BY <2>2 DEF Advances, IInv, TypeInv, TypeOK
  <2> HIDE DEF i
  <2>5. DeliveryStatus' = DeliveryStatus
    BY <2>2, <2>3, <2>4 DEF DeliveryStatus, Present, Undelivered, Advances
  <2>6. DeliveryFinal' = DeliveryFinal
    BY <1>3, BindKeepsLifecycle DEF DeliveryFinal, IInv
  <2>7. DeliveryPublished' = DeliveryPublished
    <3>1. eventLog' = eventLog
      BY <1>3 DEF Bind
    <3>2. \A e \in Deployments, p \in Ordinals :
            ~ (e = d /\ p = o) => EventOf(e, p)' = EventOf(e, p)
      BY <2>4 DEF EventOf
    <3>3. EventOf(d, o) \notin eventLog
      BY <2>2, <2>3, PublishedIsAppended DEF Advances
    <3>4. \A e \in Deployments, p \in Ordinals : EventOf(e, p)' \in eventLog' =>
             intents'[e][p].state \in {"Appended", "Acknowledged"}
      BY PublishedStatesNext
    <3>5. \A p \in Ordinals : p = o => EventOf(d, p)' \notin eventLog'
      BY <2>2, <2>3, <2>4, <3>4 DEF Advances
    <3> QED BY <3>1, <3>2, <3>3, <3>5 DEF DeliveryPublished
  <2> QED BY <2>5, <2>6, <2>7 DEF Delivery!vars
<1>4. ASSUME NEW d \in Deployments, NEW s \in {"Appended", "Acknowledged"},
             s = "Appended" => Append(d), s = "Acknowledged" => Acknowledge(d)
      PROVE  LET o == step[d].ordinal
             IN  /\ o \in Ordinals
                 /\ DeliveryStatus[d][o] = "begun"
                 /\ DeliveryStatus' = [DeliveryStatus EXCEPT ![d][o] =
                      IF s = "Appended" THEN "begun" ELSE "delivered"]
                 /\ DeliveryFinal' = DeliveryFinal
                 /\ \A e \in Deployments, p \in Ordinals : EventOf(e, p)' = EventOf(e, p)
  <2> DEFINE o == step[d].ordinal
             i == [intents[d][o] EXCEPT !.state = s]
  <2>1. Advances(d, o, i) /\ i.state = s /\ i.marker = intents[d][o].marker
    BY <1>4, DeliveryAdvances DEF IInv
  <2>2. \A e \in Deployments, p \in Ordinals :
          intents'[e][p] = IF e = d /\ p = o THEN i ELSE intents[e][p]
    BY <2>1 DEF Advances, IInv, TypeInv, TypeOK
  <2>3. i.kind = intents[d][o].kind /\ i.position = intents[d][o].position
    BY <2>1 DEF Advances
  <2> HIDE DEF i
  <2>4. \A e \in Deployments, p \in Ordinals : EventOf(e, p)' = EventOf(e, p)
    BY <2>1, <2>2, <2>3 DEF EventOf
  <2>5. DeliveryStatus[d][o] = "begun" /\ o \in Ordinals
    BY <2>1 DEF DeliveryStatus, Advances, Present, Undelivered
  <2>6. DeliveryStatus' = [DeliveryStatus EXCEPT ![d][o] =
          IF s = "Appended" THEN "begun" ELSE "delivered"]
    <3> DEFINE v == IF s = "Appended" THEN "begun" ELSE "delivered"
    <3>1. \A e \in Deployments, p \in Ordinals :
            DeliveryStatus'[e][p] = IF e = d /\ p = o THEN v ELSE DeliveryStatus[e][p]
      <4>1. \A e \in Deployments, p \in Ordinals :
              intents'[e][p].state = IF e = d /\ p = o THEN s ELSE intents[e][p].state
        BY <2>1, <2>2
      <4> QED BY <4>1 DEF DeliveryStatus, Present, Undelivered
    <3>2. v \in {"none", "begun", "delivered"}
      OBVIOUS
    <3> HIDE DEF v
    <3>3. DeliveryStatus' = [DeliveryStatus EXCEPT ![d][o] = v]
      BY <2>5, <3>1, <3>2, StatusUpdate
    <3> QED BY <3>3 DEF v
  <2>7. DeliveryFinal' = DeliveryFinal
    BY <1>4 DEF Append, Acknowledge, DeliveryFinal
  <2> QED BY <2>4, <2>5, <2>6, <2>7
<1>5. ASSUME NEW d \in Deployments, Append(d)
      PROVE  \E o \in Ordinals : Delivery!Publish(d, o)
  <2> DEFINE o == step[d].ordinal
  <2>1. /\ o \in Ordinals /\ DeliveryStatus[d][o] = "begun"
        /\ DeliveryStatus' = [DeliveryStatus EXCEPT ![d][o] = "begun"]
        /\ DeliveryFinal' = DeliveryFinal
        /\ \A e \in Deployments, p \in Ordinals : EventOf(e, p)' = EventOf(e, p)
    BY <1>4, <1>5
  <2>2. DeliveryStatus' = DeliveryStatus
    <3>1. DeliveryStatus \in [Deployments -> [Ordinals -> {"none", "begun", "delivered"}]]
      BY DEF DeliveryStatus
    <3> QED BY <2>1, <3>1, TableUpdate
  <2>3. eventLog' = eventLog \union {EventOf(d, o)}
    BY <1>5 DEF Append
  <2>4. intents[d][o].marker # NoMarker
    BY <1>5, DeliveryAdvances DEF IInv
  <2>5. ASSUME NEW e \in Deployments, NEW p \in Ordinals, EventOf(e, p) = EventOf(d, o)
        PROVE  e = d /\ p = o
    BY <2>1, <2>4, <2>5 DEF EventOf, IInv, MarkerInv, MarkersUnshared
  <2>6. DeliveryPublished' = DeliveryPublished \union {<<d, o>>}
    BY <2>1, <2>3, <2>5 DEF DeliveryPublished
  <2> QED BY <2>1, <2>2, <2>6 DEF Delivery!Publish
<1>6. ASSUME NEW d \in Deployments, Acknowledge(d)
      PROVE  \E o \in Ordinals : Delivery!Deliver(d, o)
  <2> DEFINE o == step[d].ordinal
  <2>1. /\ o \in Ordinals /\ DeliveryStatus[d][o] = "begun"
        /\ DeliveryStatus' = [DeliveryStatus EXCEPT ![d][o] = "delivered"]
        /\ DeliveryFinal' = DeliveryFinal
        /\ \A e \in Deployments, p \in Ordinals : EventOf(e, p)' = EventOf(e, p)
    BY <1>4, <1>6
  <2>2. eventLog' = eventLog /\ EventOf(d, o) \in eventLog
    BY <1>6 DEF Acknowledge, Acknowledgeable
  <2>3. DeliveryPublished' = DeliveryPublished /\ <<d, o>> \in DeliveryPublished
    BY <2>1, <2>2 DEF DeliveryPublished
  <2> QED BY <2>1, <2>3 DEF Delivery!Deliver
<1>7. ASSUME Quiet PROVE Delivery!Retire
  <2>1. DeliveryStatus' = DeliveryStatus /\ DeliveryFinal' = DeliveryFinal
    BY <1>7 DEF Quiet, DeliveryStatus, DeliveryFinal, Present, Undelivered
  <2>2. \A d \in Deployments, o \in Ordinals :
          EventOf(d, o)' = EventOf(d, o) /\ EventOf(d, o).kind # "Other"
    BY <1>7, AbsentHasNoKind DEF Quiet, EventOf, IInv, Kinds
  <2>3. \A event \in eventLog' : event \in eventLog \/ event.kind = "Other"
    BY <1>7 DEF Quiet
  <2>4. DeliveryPublished' \subseteq DeliveryPublished
    BY <2>2, <2>3 DEF DeliveryPublished
  <2> QED BY <2>1, <2>4 DEF Delivery!Retire
<1> QED BY <1>1, <1>2, <1>3, <1>5, <1>6, <1>7, QuietSteps DEF Delivery!Next, IInv

\* The journal implements the abstract delivery of transitions.
THEOREM JournalImplementsDelivery == Spec => DeliveryImplemented
BY InitIInv, IInvStep, InitDelivery, DeliveryStep, PTL DEF Spec, DeliveryImplemented, Delivery!Spec

=============================================================================
