------------------------ MODULE JournalRecoveryProofs ------------------------
(***************************************************************************)
(* What a crash of TransitionJournal leaves and what a reopening makes of  *)
(* it: the delivery rows, the event positions, and the one cause for which *)
(* a store cannot be opened again.                                         *)
(***************************************************************************)
EXTENDS TransitionJournalProofs

-----------------------------------------------------------------------------
(* Intents and their events.                                               *)

Marked(d, o) == intents[d][o].marker # NoMarker

\* An intent has its marker exactly when it is past its binding.
LEMMA MarkedStates ==
  ASSUME TypeInv, NEW d \in Deployments, NEW o \in Ordinals
  PROVE  /\ Marked(d, o) <=> intents[d][o].state \in {"Bound", "Appended", "Acknowledged"}
         /\ ~ Marked(d, o) <=> intents[d][o].state \in {"Absent", "Pending"}
         /\ Present(d, o) => intents[d][o].kind \in Kinds
         /\ intents[d][o].kind # "Other"
         /\ Present(d, o) => intents[d][o].position \in Nat
<1>1. intents[d][o] \in Intent
  BY DEF TypeInv, TypeOK
<1> QED BY <1>1 DEF Marked, Present, Intent, AbsentIntent, NoMarker, Kinds

\* Marked intents have different events.
LEMMA EventsDiffer ==
  ASSUME MarkerInv, NEW d \in Deployments, NEW o \in Ordinals,
         NEW e \in Deployments, NEW p \in Ordinals,
         Marked(d, o), EventOf(d, o) = EventOf(e, p)
  PROVE  d = e /\ o = p
<1>1. intents[d][o].marker = intents[e][p].marker
  BY DEF EventOf
<1> QED BY <1>1 DEF MarkerInv, MarkersUnshared, Marked

\* A beginning writes one new pending intent and leaves all others.
LEMMA BeginWrites ==
  ASSUME TypeInv, NEW d \in Deployments, NEW o \in Ordinals, NEW kind, NEW position,
         SetIntent(d, o, NewIntent(kind, position))
  PROVE  /\ \A e \in Deployments, p \in Ordinals :
              e # d \/ p # o => intents'[e][p] = intents[e][p]
         /\ intents'[d][o] = NewIntent(kind, position)
BY DEF SetIntent, TypeInv, TypeOK

\* Who begins, and with what: a fresh position, or the one it reserved.
LEMMA BeginKinds ==
  ASSUME TypeInv, OrdinalsInv, NEW d \in Deployments, NEW o \in Ordinals,
         \/ o = 0 /\ (BeginAdmission(d) \/ BeginRejection(d))
         \/ BeginPhase(d, o)
         \/ BeginTerminal(d, o)
  PROVE  \E kind \in Kinds, position \in Nat :
           /\ SetIntent(d, o, NewIntent(kind, position))
           /\ CommitWithRecord(d, o)
           /\ ~ Present(d, o)
           /\ UNCHANGED <<outbox, eventLog, mode>>
           /\ mode = "serving"
           /\ \/ /\ position = allocation.position
                 /\ allocation'.position = allocation.position + 1
                 /\ reserved' = reserved
              \/ /\ position = reserved[d] /\ reserved[d] # NoPosition
                 /\ allocation' = allocation
                 /\ reserved' = [reserved EXCEPT ![d] = NoPosition]
<1>1. allocation.position \in Nat
  BY DEF TypeInv, TypeOK
<1>2. CASE o = 0 /\ (BeginAdmission(d) \/ BeginRejection(d))
  <2>1. d \in Nat /\ d = allocation.deployment
    BY <1>2 DEF Deployments, BeginAdmission, BeginRejection, BeginFirst
  <2>2. ~ Present(d, o)
    BY <1>2, <2>1 DEF OrdinalsInv
  <2>3. ASSUME NEW l, NEW kind \in Kinds, BeginFirst(d, l, kind)
        PROVE  /\ SetIntent(d, o, NewIntent(kind, allocation.position))
               /\ CommitWithRecord(d, o)
               /\ UNCHANGED <<outbox, eventLog, mode>> /\ mode = "serving"
               /\ allocation'.position = allocation.position + 1
               /\ reserved' = reserved
    BY <1>2, <2>3 DEF BeginFirst, Serving
  <2>4. CASE BeginAdmission(d)
    BY <1>1, <2>2, <2>3, <2>4 DEF BeginAdmission, Kinds
  <2>5. CASE BeginRejection(d)
    BY <1>1, <2>2, <2>3, <2>5 DEF BeginRejection, Kinds
  <2> QED BY <1>2, <2>4, <2>5
<1>3. CASE BeginPhase(d, o) \/ BeginTerminal(d, o)
  <2>1. o \in Nat
    BY DEF Ordinals
  <2>2. NextOrdinal(d, o) => ~ Present(d, o)
    BY <2>1 DEF NextOrdinal
  <2>3. CASE BeginPhase(d, o)
    <3>1. reserved[d] \in Nat
      BY <2>3 DEF BeginPhase, TypeInv, TypeOK, Writers
    <3> QED BY <2>2, <2>3, <3>1 DEF BeginPhase, Serving, Kinds
  <2>4. CASE BeginTerminal(d, o)
    <3>1. allocation'.position = allocation.position + 1
      BY <2>4 DEF BeginTerminal, PositionTaken, TypeInv, TypeOK
    <3> QED BY <1>1, <2>2, <2>4, <3>1 DEF BeginTerminal, Serving, Kinds
  <2> QED BY <1>3, <2>3, <2>4
<1> QED BY <1>2, <1>3

\* Binding gives one pending intent its marker, and publishes its row.
LEMMA BindWrites ==
  ASSUME TypeInv, TypeInv', NEW d \in Deployments, NEW o \in Ordinals, o = step[d].ordinal,
         NEW marker \in SourceCommits(d, step[d].ordinal), Bind(d, marker)
  PROVE  /\ intents[d][o].state = "Pending" /\ ~ Marked(d, o)
         /\ intents'[d][o].state = "Bound" /\ Marked(d, o)'
         /\ intents'[d][o].position = intents[d][o].position
         /\ \A e \in Deployments, p \in Ordinals :
              e # d \/ p # o => intents'[e][p] = intents[e][p]
         /\ outbox' = outbox \union {[event |-> EventOf(d, o)', state |-> "Pending"]}
         /\ UNCHANGED <<allocation, eventLog, reserved, mode>>
<1> DEFINE i == Bound(intents[d][o], marker)
<1>1. marker \in Nat \ {0}
  BY MarkersTyped DEF SourceCommits
<1>2. Advances(d, o, i)
  BY <1>1, BindAdvances
<1>3. intents' = [intents EXCEPT ![d][o] = i] /\ Undelivered(d, o)
  BY <1>2 DEF Advances
<1>4. /\ intents[d][o] \in [kind : Kinds, position : Nat, marker : {NoMarker},
                            state : {"Pending"}]
  BY <1>3, UnboundIsPending DEF Bind, Undelivered, TypeInv, TypeOK
<1>5. /\ i.kind = intents[d][o].kind /\ i.position = intents[d][o].position
      /\ i.marker = marker /\ i.state = "Bound"
  BY <1>4 DEF Bound
<1> HIDE DEF i
<1>6. intents'[d][o] = i /\ \A e \in Deployments, p \in Ordinals :
        e # d \/ p # o => intents'[e][p] = intents[e][p]
  BY <1>3 DEF TypeInv, TypeOK
<1>7. EventOf(d, o)' = [EventOf(d, o) EXCEPT !.marker = marker]
  BY <1>5, <1>6 DEF EventOf
<1>8. /\ outbox' = outbox \union {[event |-> [EventOf(d, o) EXCEPT !.marker = marker],
                                   state |-> "Pending"]}
      /\ UNCHANGED <<allocation, eventLog, reserved, mode>>
  BY DEF Bind
<1>9. intents[d][o].state = "Pending" /\ ~ Marked(d, o)
  BY <1>4 DEF Marked
<1>10. intents'[d][o].state = "Bound" /\ intents'[d][o].marker # NoMarker
  BY <1>1, <1>5, <1>6 DEF NoMarker
<1> QED BY <1>5, <1>6, <1>7, <1>8, <1>9, <1>10 DEF Marked

\* Appending and acknowledging change nothing of an intent but its state.
LEMMA DeliveryWrites ==
  ASSUME TypeInv, TypeInv', NEW d \in Deployments, NEW o \in Ordinals, o = step[d].ordinal,
         NEW s \in {"Appended", "Acknowledged"},
         s = "Appended" => Append(d), s = "Acknowledged" => Acknowledge(d)
  PROVE  /\ Marked(d, o) /\ intents[d][o].state \in {"Bound", "Appended"}
         /\ intents'[d][o].state = s
         /\ \A e \in Deployments, p \in Ordinals :
              /\ e # d \/ p # o => intents'[e][p] = intents[e][p]
              /\ Marked(e, p)' <=> Marked(e, p)
              /\ Present(e, p)' <=> Present(e, p)
              /\ intents'[e][p].position = intents[e][p].position
              /\ EventOf(e, p)' = EventOf(e, p)
<1> DEFINE i == [intents[d][o] EXCEPT !.state = s]
<1>1. /\ Advances(d, o, i) /\ i.marker = intents[d][o].marker /\ i.marker # NoMarker
      /\ i.state = s
  BY DeliveryAdvances
<1>2. /\ intents' = [intents EXCEPT ![d][o] = i] /\ Undelivered(d, o)
      /\ i.kind = intents[d][o].kind /\ i.position = intents[d][o].position
  BY <1>1 DEF Advances
<1> HIDE DEF i
<1>3. intents'[d][o] = i /\ \A e \in Deployments, p \in Ordinals :
        e # d \/ p # o => intents'[e][p] = intents[e][p]
  BY <1>2 DEF TypeInv, TypeOK
<1>4. Marked(d, o)
  BY <1>1 DEF Marked
<1>5. intents[d][o].state \in {"Bound", "Appended"}
  BY <1>2, <1>4, MarkedStates DEF Undelivered
<1> QED BY <1>1, <1>2, <1>3, <1>4, <1>5 DEF Marked, EventOf, Present

-----------------------------------------------------------------------------
(* Delivery rows: each carries the payload of one marked intent, is        *)
(* acknowledged together with it, and is kept until then.                  *)

\* Every delivery row carries the payload of one marked intent, and is
\* acknowledged together with it.
RowsHaveIntents ==
  \A row \in outbox : \E d \in Deployments, o \in Ordinals :
    /\ intents[d][o].marker # NoMarker
    /\ row.event = EventOf(d, o)
    /\ row.state = "Acknowledged" <=> intents[d][o].state = "Acknowledged"

RowsInv == RowsHaveIntents /\ RecoveryPayloadKept


\* No row and no event exists yet.
LEMMA InitRows == Init => RowsInv
BY DEF Init, RowsInv, RowsHaveIntents, RecoveryPayloadKept, AbsentIntent

\* Rows may be relabelled, as long as none is acknowledged or reopened.
LEMMA RowsRelabelled ==
  ASSUME RowsInv, intents' = intents,
         \A e \in Deployments, p \in Ordinals : EventOf(e, p) \in eventLog' <=> EventOf(e, p) \in eventLog,
         \A row \in outbox' : \E old \in outbox :
           row.event = old.event /\ (row.state = "Acknowledged" <=> old.state = "Acknowledged"),
         \A old \in outbox : \E row \in outbox' :
           row.event = old.event /\ (row.state = "Acknowledged" <=> old.state = "Acknowledged")
  PROVE  RowsInv'
<1>1. \A e \in Deployments, p \in Ordinals : EventOf(e, p)' = EventOf(e, p)
  BY DEF EventOf
<1>2. RowsHaveIntents'
  BY <1>1 DEF RowsInv, RowsHaveIntents
<1>3. RecoveryPayloadKept'
  BY <1>1 DEF RowsInv, RecoveryPayloadKept
<1> QED BY <1>2, <1>3 DEF RowsInv

\* A new intent has no row yet.
LEMMA RowsBegin ==
  ASSUME TypeInv, TypeInv', RowsInv, NEW d \in Deployments, NEW o \in Ordinals,
         NEW kind, NEW position, SetIntent(d, o, NewIntent(kind, position)), ~ Present(d, o),
         outbox' = outbox, eventLog' = eventLog
  PROVE  RowsInv'
<1>1. /\ \A e \in Deployments, p \in Ordinals : e # d \/ p # o => intents'[e][p] = intents[e][p]
      /\ intents'[d][o].state = "Pending"
  BY BeginWrites DEF NewIntent
<1>2. ~ Marked(d, o)
  BY MarkedStates DEF Present
<1>3. \A e \in Deployments, p \in Ordinals : e # d \/ p # o => EventOf(e, p)' = EventOf(e, p)
  BY <1>1 DEF EventOf
<1>4. RowsHaveIntents'
  <2> SUFFICES ASSUME NEW row \in outbox
               PROVE  \E e \in Deployments, p \in Ordinals :
                 /\ intents'[e][p].marker # NoMarker
                 /\ row.event = EventOf(e, p)'
                 /\ row.state = "Acknowledged" <=> intents'[e][p].state = "Acknowledged"
    BY DEF RowsHaveIntents
  <2>1. PICK e \in Deployments, p \in Ordinals :
          /\ Marked(e, p) /\ row.event = EventOf(e, p)
          /\ row.state = "Acknowledged" <=> intents[e][p].state = "Acknowledged"
    BY DEF RowsInv, RowsHaveIntents, Marked
  <2>2. e # d \/ p # o
    BY <1>2, <2>1
  <2> QED BY <1>1, <1>3, <2>1, <2>2 DEF Marked
<1>5. RecoveryPayloadKept'
  BY <1>1, <1>3 DEF RowsInv, RecoveryPayloadKept
<1> QED BY <1>4, <1>5 DEF RowsInv

\* A bound intent gets its row, which is not acknowledged.
LEMMA RowsBind ==
  ASSUME TypeInv, TypeInv', RowsInv, NEW d \in Deployments,
         NEW marker \in SourceCommits(d, step[d].ordinal), Bind(d, marker)
  PROVE  RowsInv'
<1>1. PICK o \in Ordinals : o = step[d].ordinal
  BY DEF TypeInv, TypeOK, Writers
<1>2. /\ ~ Marked(d, o)
      /\ intents'[d][o].state = "Bound" /\ Marked(d, o)'
      /\ \A e \in Deployments, p \in Ordinals :
           e # d \/ p # o => intents'[e][p] = intents[e][p]
      /\ outbox' = outbox \union {[event |-> EventOf(d, o)', state |-> "Pending"]}
      /\ eventLog' = eventLog
  BY <1>1, BindWrites
<1> DEFINE new == [event |-> EventOf(d, o)', state |-> "Pending"]
<1>3. new.event = EventOf(d, o)' /\ new.state = "Pending" /\ outbox' = outbox \union {new}
  BY <1>2
<1>4. \A e \in Deployments, p \in Ordinals : e # d \/ p # o => EventOf(e, p)' = EventOf(e, p)
  BY <1>2 DEF EventOf
<1> HIDE DEF new
<1>5. RowsHaveIntents'
  <2>1. ASSUME NEW row \in outbox
        PROVE  \E e \in Deployments, p \in Ordinals :
                 /\ intents'[e][p].marker # NoMarker
                 /\ row.event = EventOf(e, p)'
                 /\ row.state = "Acknowledged" <=> intents'[e][p].state = "Acknowledged"
    BY <1>2, <1>4 DEF RowsInv, RowsHaveIntents, Marked
  <2> QED BY <1>2, <1>3, <2>1 DEF RowsHaveIntents, Marked
<1>6. RecoveryPayloadKept'
  <2>1. ASSUME NEW e \in Deployments, NEW p \in Ordinals,
               intents'[e][p].state \in {"Bound", "Appended"}
        PROVE  \E row \in outbox' : row.event = EventOf(e, p)' /\ row.state # "Acknowledged"
    <3>1. CASE e = d /\ p = o
      BY <1>3, <3>1
    <3>2. CASE e # d \/ p # o
      BY <1>2, <1>3, <1>4, <2>1, <3>2 DEF RowsInv, RecoveryPayloadKept
    <3> QED BY <3>1, <3>2
  <2>2. ASSUME NEW e \in Deployments, NEW p \in Ordinals,
               intents'[e][p].state = "Acknowledged"
        PROVE  EventOf(e, p)' \in eventLog' <=>
               \E row \in outbox' : row.event = EventOf(e, p)' /\ row.state = "Acknowledged"
    <3>1. e # d \/ p # o
      BY <1>2, <2>2
    <3> QED BY <1>2, <1>3, <1>4, <2>2, <3>1 DEF RowsInv, RecoveryPayloadKept
  <2> QED BY <2>1, <2>2 DEF RecoveryPayloadKept
<1> QED BY <1>5, <1>6 DEF RowsInv

\* Appending leaves the rows, and the events of other intents.
LEMMA RowsAppend ==
  ASSUME TypeInv, TypeInv', MarkerInv, RowsInv, NEW d \in Deployments, Append(d)
  PROVE  RowsInv'
<1>1. PICK o \in Ordinals : o = step[d].ordinal
  BY DEF TypeInv, TypeOK, Writers
<1>2. /\ Marked(d, o) /\ intents[d][o].state \in {"Bound", "Appended"}
      /\ intents'[d][o].state = "Appended"
      /\ \A e \in Deployments, p \in Ordinals :
           /\ e # d \/ p # o => intents'[e][p] = intents[e][p]
           /\ Marked(e, p)' <=> Marked(e, p)
           /\ EventOf(e, p)' = EventOf(e, p)
  BY <1>1, DeliveryWrites
<1>3. outbox' = outbox /\ eventLog' = eventLog \union {EventOf(d, o)}
  BY <1>1 DEF Append
<1>4. RowsHaveIntents'
  BY <1>2, <1>3 DEF RowsInv, RowsHaveIntents, Marked
<1>5. ASSUME NEW e \in Deployments, NEW p \in Ordinals,
             intents'[e][p].state = "Acknowledged"
      PROVE  EventOf(e, p)' \in eventLog' <=>
             \E row \in outbox' : row.event = EventOf(e, p)' /\ row.state = "Acknowledged"
  <2>1. (e # d \/ p # o) /\ intents[e][p].state = "Acknowledged"
    BY <1>2, <1>5
  <2>2. EventOf(e, p) # EventOf(d, o)
    BY <1>2, <2>1, EventsDiffer
  <2> QED BY <1>2, <1>3, <2>1, <2>2 DEF RowsInv, RecoveryPayloadKept
<1>6. ASSUME NEW e \in Deployments, NEW p \in Ordinals,
             intents'[e][p].state \in {"Bound", "Appended"}
      PROVE  \E row \in outbox' : row.event = EventOf(e, p)' /\ row.state # "Acknowledged"
  <2>1. intents[e][p].state \in {"Bound", "Appended"}
    BY <1>2, <1>6
  <2> QED BY <1>2, <1>3, <2>1 DEF RowsInv, RecoveryPayloadKept
<1> QED BY <1>4, <1>5, <1>6 DEF RowsInv, RecoveryPayloadKept

\* Acknowledging takes the rows of its intent and no others with it.
LEMMA RowsAcknowledge ==
  ASSUME TypeInv, TypeInv', MarkerInv, RowsInv, NEW d \in Deployments, Acknowledge(d)
  PROVE  RowsInv'
<1>1. PICK o \in Ordinals : o = step[d].ordinal
  BY DEF TypeInv, TypeOK, Writers
<1>2. /\ Marked(d, o)
      /\ intents'[d][o].state = "Acknowledged"
      /\ \A e \in Deployments, p \in Ordinals :
           /\ e # d \/ p # o => intents'[e][p] = intents[e][p]
           /\ Marked(e, p)' <=> Marked(e, p)
           /\ EventOf(e, p)' = EventOf(e, p)
  BY <1>1, DeliveryWrites
<1>3. eventLog' = eventLog /\ EventOf(d, o) \in eventLog
      /\ \E row \in outbox : row.event = EventOf(d, o)
  BY <1>1 DEF Acknowledge, Acknowledgeable, Dispatchable, ExactRow
<1> DEFINE After(row) == IF ExactRow(d, o, row) THEN [row EXCEPT !.state = "Acknowledged"]
                                                ELSE row
<1>4. outbox' = {After(row) : row \in outbox}
  BY <1>1 DEF Acknowledge
<1>5. ASSUME NEW row \in outbox
      PROVE  /\ After(row).event = row.event
             /\ row.event = EventOf(d, o) => After(row).state = "Acknowledged"
             /\ row.event # EventOf(d, o) => After(row).state = row.state
  <2>1. row \in OutboxRow
    BY DEF TypeInv, TypeOK
  <2>2. [row EXCEPT !.state = "Acknowledged"].event = row.event
        /\ [row EXCEPT !.state = "Acknowledged"].state = "Acknowledged"
    BY <2>1 DEF OutboxRow
  <2>3. ExactRow(d, o, row) <=> row.event = EventOf(d, o)
    <3>1. EventOf(d, o).deployment = d /\ EventOf(d, o).marker = intents[d][o].marker
      BY DEF EventOf
    <3> QED BY <3>1 DEF ExactRow, OutboxRowsOf
  <2> QED BY <2>2, <2>3
<1> HIDE DEF After
<1>6. RowsHaveIntents'
  <2> SUFFICES ASSUME NEW row \in outbox
               PROVE  \E e \in Deployments, p \in Ordinals :
                 /\ intents'[e][p].marker # NoMarker
                 /\ After(row).event = EventOf(e, p)'
                 /\ After(row).state = "Acknowledged" <=> intents'[e][p].state = "Acknowledged"
    BY <1>4 DEF RowsHaveIntents
  <2>1. CASE row.event = EventOf(d, o)
    BY <1>2, <1>5, <2>1 DEF Marked
  <2>2. CASE row.event # EventOf(d, o)
    <3>1. PICK e \in Deployments, p \in Ordinals :
            /\ Marked(e, p) /\ row.event = EventOf(e, p)
            /\ row.state = "Acknowledged" <=> intents[e][p].state = "Acknowledged"
      BY DEF RowsInv, RowsHaveIntents, Marked
    <3>2. e # d \/ p # o
      BY <2>2, <3>1
    <3> QED BY <1>2, <1>5, <2>2, <3>1, <3>2 DEF Marked
  <2> QED BY <2>1, <2>2
<1>7. ASSUME NEW e \in Deployments, NEW p \in Ordinals,
             intents'[e][p].state \in {"Bound", "Appended"}
      PROVE  \E row \in outbox' : row.event = EventOf(e, p)' /\ row.state # "Acknowledged"
  <2>1. (e # d \/ p # o) /\ intents[e][p].state \in {"Bound", "Appended"}
    BY <1>2, <1>7
  <2>2. PICK row \in outbox : row.event = EventOf(e, p) /\ row.state # "Acknowledged"
    BY <2>1 DEF RowsInv, RecoveryPayloadKept
  <2>3. EventOf(e, p) # EventOf(d, o)
    BY <1>2, <2>1, EventsDiffer
  <2>4. After(row) \in outbox'
    BY <1>4
  <2> QED BY <1>2, <1>5, <2>2, <2>3, <2>4
<1>8. ASSUME NEW e \in Deployments, NEW p \in Ordinals,
             intents'[e][p].state = "Acknowledged"
      PROVE  EventOf(e, p)' \in eventLog' <=>
             \E row \in outbox' : row.event = EventOf(e, p)' /\ row.state = "Acknowledged"
  <2>1. CASE e = d /\ p = o
    <3>1. PICK row \in outbox : row.event = EventOf(d, o)
      BY <1>3
    <3>2. After(row) \in outbox' /\ After(row).event = EventOf(d, o)
          /\ After(row).state = "Acknowledged"
      BY <1>4, <1>5, <3>1
    <3> QED BY <1>2, <1>3, <2>1, <3>2
  <2>2. CASE e # d \/ p # o
    <3>1. intents[e][p].state = "Acknowledged"
      BY <1>2, <1>8, <2>2
    <3>2. EventOf(e, p) # EventOf(d, o)
      BY <1>2, <2>2, EventsDiffer
    <3>3. (\E row \in outbox' : row.event = EventOf(e, p) /\ row.state = "Acknowledged")
          <=> (\E row \in outbox : row.event = EventOf(e, p) /\ row.state = "Acknowledged")
      BY <1>4, <1>5, <3>2
    <3> QED BY <1>2, <1>3, <3>1, <3>3 DEF RowsInv, RecoveryPayloadKept
  <2> QED BY <2>1, <2>2
<1> QED BY <1>6, <1>7, <1>8 DEF RowsInv, RecoveryPayloadKept

\* An event retires together with its acknowledged row, and no other row goes.
LEMMA RowsCompact ==
  ASSUME TypeInv, EveryEventHasItsIntent, RowsInv, NEW w \in Writers, CompactRows(w)
  PROVE  RowsInv'
<1>1. intents' = intents /\ eventLog' = eventLog \ Retired /\ outbox' = outbox \ RetiredRows
  BY DEF CompactRows
<1>2. \A e \in Deployments, p \in Ordinals :
        EventOf(e, p)' = EventOf(e, p) /\ EventOf(e, p).position = intents[e][p].position
  BY <1>1 DEF EventOf
<1>3. \A row \in RetiredRows : row \in outbox /\ row.state = "Acknowledged"
        /\ \E event \in Retired : event.position = row.event.position
  BY DEF RetiredRows
<1>4. \A event \in Retired, row \in outbox :
        row.state = "Acknowledged" /\ event.position = row.event.position => row \in RetiredRows
  BY DEF RetiredRows
<1>5. Retired \subseteq eventLog
  BY DEF Retired
<1> HIDE DEF Retired, RetiredRows
<1>6. RowsHaveIntents'
  BY <1>1, <1>2 DEF RowsInv, RowsHaveIntents
<1>7. ASSUME NEW e \in Deployments, NEW p \in Ordinals,
             intents'[e][p].state \in {"Bound", "Appended"}
      PROVE  \E row \in outbox' : row.event = EventOf(e, p)' /\ row.state # "Acknowledged"
  BY <1>1, <1>2, <1>3, <1>7 DEF RowsInv, RecoveryPayloadKept
<1>8. ASSUME NEW e \in Deployments, NEW p \in Ordinals,
             intents'[e][p].state = "Acknowledged"
      PROVE  EventOf(e, p)' \in eventLog' <=>
             \E row \in outbox' : row.event = EventOf(e, p)' /\ row.state = "Acknowledged"
  <2>1. EventOf(e, p) \in eventLog <=>
          \E row \in outbox : row.event = EventOf(e, p) /\ row.state = "Acknowledged"
    BY <1>1, <1>8 DEF RowsInv, RecoveryPayloadKept
  <2>2. ASSUME NEW row \in outbox', row.event = EventOf(e, p), row.state = "Acknowledged"
        PROVE  EventOf(e, p) \in eventLog'
    BY <1>1, <1>4, <2>1, <2>2
  <2>3. ASSUME EventOf(e, p) \in eventLog'
        PROVE  \E row \in outbox' : row.event = EventOf(e, p) /\ row.state = "Acknowledged"
    <3>1. PICK row \in outbox : row.event = EventOf(e, p) /\ row.state = "Acknowledged"
      BY <1>1, <2>1, <2>3
    <3>2. ASSUME row \in RetiredRows PROVE FALSE
      <4>1. PICK event \in Retired : event.position = EventOf(e, p).position
        BY <1>3, <3>1, <3>2
      <4>2. event = EventOf(e, p)
        BY <1>1, <1>5, <2>3, <4>1 DEF EveryEventHasItsIntent
      <4> QED BY <1>1, <2>3, <4>2
    <3> QED BY <1>1, <3>1, <3>2
  <2> QED BY <1>2, <2>2, <2>3
<1> QED BY <1>6, <1>7, <1>8 DEF RowsInv, RecoveryPayloadKept

\* A reopening never finds an event without its row.
LEMMA NoRowIsMissing ==
  ASSUME TypeInv, EveryEventHasItsIntent, RowsInv
  PROVE  MissingRows = {}
<1> SUFFICES ASSUME NEW event \in eventLog, event.kind # "Other"
             PROVE  \E row \in outbox : row.event = event
  BY DEF MissingRows, DeploymentEvents, SameKey
<1>1. PICK d \in Deployments, o \in Ordinals :
        intents[d][o].state \in {"Appended", "Acknowledged"} /\ event = EventOf(d, o)
  BY DEF EveryEventHasItsIntent, DeploymentEvents
<1> QED BY <1>1 DEF RowsInv, RecoveryPayloadKept

\* Whatever carries one delivery key, in the log or in a row, is one payload.
LEMMA NothingMismatches ==
  ASSUME TypeInv, MarkerInv, EveryEventHasItsIntent, RowsInv
  PROVE  ~ Mismatched
<1> SUFFICES ASSUME NEW e \in DeploymentEvents,
                    NEW f \in DeploymentEvents \union {row.event : row \in outbox}, SameKey(e, f)
             PROVE  e = f
  BY DEF Mismatched
<1>1. PICK d \in Deployments, o \in Ordinals : Marked(d, o) /\ e = EventOf(d, o)
  BY MarkedStates DEF EveryEventHasItsIntent
<1>2. PICK c \in Deployments, p \in Ordinals : Marked(c, p) /\ f = EventOf(c, p)
  <2>1. CASE f \in DeploymentEvents
    BY <2>1, MarkedStates DEF EveryEventHasItsIntent
  <2>2. CASE f \in {row.event : row \in outbox}
    BY <2>2 DEF RowsInv, RowsHaveIntents, Marked
  <2> QED BY <2>1, <2>2
<1>3. intents[d][o].marker = intents[c][p].marker
  BY <1>1, <1>2 DEF SameKey, EventOf
<1>4. d = c /\ o = p
  BY <1>1, <1>3 DEF MarkerInv, MarkersUnshared, Marked
<1> QED BY <1>1, <1>2, <1>4

\* Every step keeps the rows in agreement with their intents.
LEMMA RowsStep ==
  ASSUME IInv, IInv', RowsInv, [Next]_vars
  PROVE  RowsInv'
<1> USE DEF IInv
<1>1. ASSUME NEW d \in Deployments, Begin(d) PROVE RowsInv'
  <2>1. 0 \in Ordinals
    BY JournalAssumption DEF JournalAssumption, Ordinals
  <2>2. PICK o \in Ordinals : \/ o = 0 /\ (BeginAdmission(d) \/ BeginRejection(d))
                              \/ BeginPhase(d, o)
                              \/ BeginTerminal(d, o)
    BY <1>1, <2>1 DEF Begin
  <2> QED BY <2>2, BeginKinds, RowsBegin
<1>2. ASSUME NEW d \in Deployments, NEW marker \in SourceCommits(d, step[d].ordinal),
             Bind(d, marker)
      PROVE  RowsInv'
  BY <1>2, RowsBind
<1>3. ASSUME NEW d \in Deployments, Append(d) \/ Acknowledge(d) PROVE RowsInv'
  BY <1>3, RowsAppend, RowsAcknowledge
<1>4. ASSUME NEW d \in Deployments, Dispatch(d) PROVE RowsInv'
  <2> DEFINE o == step[d].ordinal
             After(row) == IF ExactRow(d, o, row) /\ row.state = "Pending"
                           THEN [row EXCEPT !.state = "Dispatched"] ELSE row
  <2>1. intents' = intents /\ eventLog' = eventLog /\ outbox' = {After(row) : row \in outbox}
    BY <1>4 DEF Dispatch
  <2>2. ASSUME NEW row \in outbox
        PROVE  /\ After(row).event = row.event
               /\ After(row).state = "Acknowledged" <=> row.state = "Acknowledged"
    <3>1. row \in OutboxRow
      BY DEF TypeInv, TypeOK
    <3> QED BY <3>1 DEF OutboxRow
  <2> HIDE DEF After
  <2> QED BY <2>1, <2>2, RowsRelabelled
<1>5. CASE RequeueDispatchedOutbox
  <2>1. intents' = intents /\ eventLog' = eventLog /\ outbox' = {Requeued(row) : row \in outbox}
    BY <1>5 DEF RequeueDispatchedOutbox
  <2>2. ASSUME NEW row \in outbox
        PROVE  /\ Requeued(row).event = row.event
               /\ Requeued(row).state = "Acknowledged" <=> row.state = "Acknowledged"
    <3>1. row \in OutboxRow
      BY DEF TypeInv, TypeOK
    <3> QED BY <3>1 DEF OutboxRow, Requeued
  <2> HIDE DEF Requeued
  <2> QED BY <2>1, <2>2, RowsRelabelled
<1>6. ASSUME NEW w \in Writers, CompactRows(w) PROVE RowsInv'
  BY <1>6, RowsCompact
<1>7. CASE AppendOther
  <2>1. \A e \in Deployments, p \in Ordinals : EventOf(e, p).kind # "Other"
    BY MarkedStates DEF EventOf
  <2>2. \A e \in Deployments, p \in Ordinals : EventOf(e, p) \in eventLog' <=> EventOf(e, p) \in eventLog
    BY <1>7, <2>1 DEF AppendOther
  <2> QED BY <1>7, <2>2, RowsRelabelled DEF AppendOther
<1>8. CASE ReconcileDeploymentOutbox
  <2>1. outbox' = outbox /\ intents' = intents /\ eventLog' = eventLog
    BY <1>8, NoRowIsMissing DEF ReconcileDeploymentOutbox
  <2> QED BY <2>1, RowsRelabelled
<1>9. ASSUME UNCHANGED <<intents, outbox, eventLog>> PROVE RowsInv'
  BY <1>9, RowsRelabelled
<1>10. ASSUME NEW d \in Deployments, BindAgain(d) \/ Refuse(d) PROVE RowsInv'
  BY <1>9, <1>10 DEF BindAgain, Refuse, durable
<1>11. ASSUME NEW w \in Writers,
              \/ AllocatePosition(w) \/ CompactVersionedHistory(w) \/ NothingToCompact(w)
              \/ CompactConfiguredHistory(w)
       PROVE  RowsInv'
  BY <1>9, <1>11 DEF AllocatePosition, CompactVersionedHistory, NothingToCompact,
                     CompactConfiguredHistory, durable
<1>12. ASSUME Crash \/ Restart \/ IntentsReconciled \/ JobsReconciled \/ UNCHANGED vars
       PROVE  RowsInv'
  BY <1>9, <1>12 DEF Crash, Restart, IntentsReconciled, JobsReconciled, durable, vars
<1>14. ASSUME NEW d \in Deployments, RetractDeployJob(d) PROVE RowsInv'
  BY <1>9, <1>14 DEF RetractDeployJob
<1>13. ASSUME NEW d \in Deployments, NEW o \in Ordinals, ReconcileIntent(d, o) PROVE RowsInv'
  BY <1>9, <1>13 DEF ReconcileIntent, durable
<1> QED
  BY <1>1, <1>2, <1>3, <1>4, <1>5, <1>6, <1>7, <1>8, <1>10, <1>11, <1>12, <1>13,
     <1>14
  DEF Next, Deliver, Maintain, Reopen

\* The recovery payload of an undelivered transition survives every compaction,
\* crash and reopening, and an acknowledged event and its row retire together.
THEOREM PayloadsAreKept == Spec => []RecoveryPayloadKept
<1>1. Init => IInv /\ RowsInv
  BY InitIInv, InitRows
<1>2. (IInv /\ RowsInv) /\ [Next]_vars => (IInv /\ RowsInv)'
  BY IInvStep, RowsStep
<1>3. IInv /\ RowsInv => RecoveryPayloadKept
  BY DEF RowsInv
<1> QED BY <1>1, <1>2, <1>3, PTL DEF Spec

-----------------------------------------------------------------------------
(* What is acknowledged is never delivered again.                          *)

RetiredStep ==
  \A d \in Deployments, o \in Ordinals :
    intents[d][o].state = "Acknowledged" =>
      /\ EventOf(d, o) \in eventLog' => EventOf(d, o) \in eventLog
      /\ \A row \in outbox' : row.event = EventOf(d, o) => row \in outbox

\* No step brings back the event or a row of an acknowledged transition.
LEMMA RetiredStays ==
  ASSUME IInv, IInv', RowsInv, [Next]_vars
  PROVE  RetiredStep
<1> USE DEF IInv
<1>1. ASSUME NEW d \in Deployments, NEW o \in Ordinals, intents[d][o].state = "Acknowledged"
      PROVE  /\ Marked(d, o)
             /\ EventOf(d, o).kind # "Other"
             /\ \A row \in outbox : row.event = EventOf(d, o) => row.state = "Acknowledged"
  <2>1. Marked(d, o) /\ EventOf(d, o).kind # "Other"
    BY <1>1, MarkedStates DEF EventOf
  <2>2. ASSUME NEW row \in outbox, row.event = EventOf(d, o) PROVE row.state = "Acknowledged"
    <3>1. PICK e \in Deployments, p \in Ordinals :
            /\ row.event = EventOf(e, p)
            /\ row.state = "Acknowledged" <=> intents[e][p].state = "Acknowledged"
      BY DEF RowsInv, RowsHaveIntents
    <3>2. e = d /\ p = o
      BY <2>1, <2>2, <3>1, EventsDiffer
    <3> QED BY <1>1, <3>1, <3>2
  <2> QED BY <2>1, <2>2
<1>2. ASSUME UNCHANGED <<outbox, eventLog>> PROVE RetiredStep
  BY <1>2 DEF RetiredStep
<1>3. ASSUME NEW d \in Deployments, Begin(d) PROVE RetiredStep
  BY <1>2, <1>3 DEF Begin, BeginAdmission, BeginRejection, BeginFirst, BeginPhase, BeginTerminal
<1>4. ASSUME NEW d \in Deployments, NEW marker \in SourceCommits(d, step[d].ordinal),
             Bind(d, marker)
      PROVE  RetiredStep
  <2>1. PICK o \in Ordinals : o = step[d].ordinal
    BY DEF TypeInv, TypeOK, Writers
  <2>2. /\ intents[d][o].state = "Pending" /\ Marked(d, o)'
        /\ \A e \in Deployments, p \in Ordinals :
             e # d \/ p # o => intents'[e][p] = intents[e][p]
        /\ outbox' = outbox \union {[event |-> EventOf(d, o)', state |-> "Pending"]}
        /\ eventLog' = eventLog
    BY <1>4, <2>1, BindWrites
  <2>3. ASSUME NEW e \in Deployments, NEW p \in Ordinals, intents[e][p].state = "Acknowledged"
        PROVE  EventOf(e, p) # EventOf(d, o)'
    <3>1. (e # d \/ p # o) /\ intents'[e][p] = intents[e][p]
      BY <2>2, <2>3
    <3>2. EventOf(e, p).marker = intents'[e][p].marker /\ EventOf(d, o)'.marker = intents'[d][o].marker
      BY <3>1 DEF EventOf
    <3>3. intents'[d][o].marker # intents'[e][p].marker
      BY <2>2, <3>1 DEF MarkerInv, MarkersUnshared, Marked
    <3> QED BY <3>2, <3>3
  <2> DEFINE new == [event |-> EventOf(d, o)', state |-> "Pending"]
  <2>4. new.event = EventOf(d, o)' /\ outbox' = outbox \union {new}
    BY <2>2
  <2> HIDE DEF new
  <2> QED BY <2>2, <2>3, <2>4 DEF RetiredStep
<1>5. ASSUME NEW d \in Deployments, Append(d) PROVE RetiredStep
  <2>1. PICK o \in Ordinals : o = step[d].ordinal
    BY DEF TypeInv, TypeOK, Writers
  <2>2. Marked(d, o) /\ intents[d][o].state \in {"Bound", "Appended"}
    BY <1>5, <2>1, DeliveryWrites
  <2>3. outbox' = outbox /\ eventLog' = eventLog \union {EventOf(d, o)}
    BY <1>5, <2>1 DEF Append
  <2>4. ASSUME NEW e \in Deployments, NEW p \in Ordinals, intents[e][p].state = "Acknowledged"
        PROVE  EventOf(e, p) # EventOf(d, o)
    BY <2>2, <2>4, EventsDiffer
  <2> QED BY <2>3, <2>4 DEF RetiredStep
<1>6. ASSUME NEW d \in Deployments, Dispatch(d) PROVE RetiredStep
  <2> DEFINE o == step[d].ordinal
             After(row) == IF ExactRow(d, o, row) /\ row.state = "Pending"
                           THEN [row EXCEPT !.state = "Dispatched"] ELSE row
  <2>1. eventLog' = eventLog /\ outbox' = {After(row) : row \in outbox}
    BY <1>6 DEF Dispatch
  <2>2. ASSUME NEW row \in outbox
        PROVE  After(row).event = row.event /\ (row.state = "Acknowledged" => After(row) = row)
    <3>1. row \in OutboxRow
      BY DEF TypeInv, TypeOK
    <3> QED BY <3>1 DEF OutboxRow
  <2> HIDE DEF After
  <2> QED BY <1>1, <2>1, <2>2 DEF RetiredStep
<1>7. ASSUME NEW d \in Deployments, Acknowledge(d) PROVE RetiredStep
  <2> DEFINE o == step[d].ordinal
             After(row) == IF ExactRow(d, o, row) THEN [row EXCEPT !.state = "Acknowledged"]
                                                  ELSE row
  <2>1. eventLog' = eventLog /\ outbox' = {After(row) : row \in outbox}
    BY <1>7 DEF Acknowledge
  <2>2. ASSUME NEW row \in outbox
        PROVE  After(row).event = row.event /\ (row.state = "Acknowledged" => After(row) = row)
    <3>1. row \in OutboxRow
      BY DEF TypeInv, TypeOK
    <3> QED BY <3>1 DEF OutboxRow
  <2> HIDE DEF After
  <2> QED BY <1>1, <2>1, <2>2 DEF RetiredStep
<1>8. CASE RequeueDispatchedOutbox
  <2>1. eventLog' = eventLog /\ outbox' = {Requeued(row) : row \in outbox}
    BY <1>8 DEF RequeueDispatchedOutbox
  <2>2. ASSUME NEW row \in outbox
        PROVE  Requeued(row).event = row.event /\ (row.state = "Acknowledged" => Requeued(row) = row)
    <3>1. row \in OutboxRow
      BY DEF TypeInv, TypeOK
    <3> QED BY <3>1 DEF OutboxRow, Requeued
  <2> HIDE DEF Requeued
  <2> QED BY <1>1, <2>1, <2>2 DEF RetiredStep
<1>9. ASSUME NEW w \in Writers, CompactRows(w) PROVE RetiredStep
  BY <1>9 DEF CompactRows, RetiredStep
<1>10. CASE AppendOther
  BY <1>1, <1>10 DEF AppendOther, RetiredStep
<1>11. CASE ReconcileDeploymentOutbox
  BY <1>2, <1>11, NoRowIsMissing DEF ReconcileDeploymentOutbox
<1>12. ASSUME NEW d \in Deployments, BindAgain(d) \/ Refuse(d) PROVE RetiredStep
  BY <1>2, <1>12 DEF BindAgain, Refuse, durable
<1>13. ASSUME NEW w \in Writers,
              \/ AllocatePosition(w) \/ CompactVersionedHistory(w) \/ NothingToCompact(w)
              \/ CompactConfiguredHistory(w)
       PROVE  RetiredStep
  BY <1>2, <1>13 DEF AllocatePosition, CompactVersionedHistory, NothingToCompact,
                     CompactConfiguredHistory, durable
<1>14. ASSUME Crash \/ Restart \/ IntentsReconciled \/ JobsReconciled \/ UNCHANGED vars
       PROVE  RetiredStep
  BY <1>2, <1>14 DEF Crash, Restart, IntentsReconciled, JobsReconciled, durable, vars
<1>16. ASSUME NEW d \in Deployments, RetractDeployJob(d) PROVE RetiredStep
  BY <1>2, <1>16 DEF RetractDeployJob
<1>15. ASSUME NEW d \in Deployments, NEW o \in Ordinals, ReconcileIntent(d, o) PROVE RetiredStep
  BY <1>2, <1>15 DEF ReconcileIntent, durable
<1> QED
  BY <1>3, <1>4, <1>5, <1>6, <1>7, <1>8, <1>9, <1>10, <1>11, <1>12, <1>13, <1>14, <1>15,
     <1>16
  DEF Next, Deliver, Maintain, Reopen

\* An acknowledged event that has been retired never comes back, in the log or in
\* the outbox, whatever is delivered, compacted or reopened.
THEOREM NothingIsRedelivered == Spec => NeverRedelivered
<1>1. Init => IInv /\ RowsInv
  BY InitIInv, InitRows
<1>2. (IInv /\ RowsInv) /\ [Next]_vars => (IInv /\ RowsInv)'
  BY IInvStep, RowsStep
<1>3. (IInv /\ RowsInv) /\ (IInv /\ RowsInv)' /\ [Next]_vars => [RetiredStep]_vars
  BY RetiredStays
<1> QED BY <1>1, <1>2, <1>3, PTL DEF Spec, NeverRedelivered, RetiredStep

-----------------------------------------------------------------------------
(* Event positions: each has one holder.                                   *)

\* A position belongs to one holder: a transition, an event of another kind, or
\* the writer that has reserved it.
PositionInv ==
  /\ \A d \in Deployments, o \in Ordinals :
       Present(d, o) => intents[d][o].position < allocation.position
  /\ \A event \in eventLog : event.position < allocation.position
  /\ \A w \in Writers : reserved[w] # NoPosition => reserved[w] < allocation.position
  /\ \A d, e \in Deployments, o, p \in Ordinals :
       Present(d, o) /\ Present(e, p) /\ intents[d][o].position = intents[e][p].position
         => d = e /\ o = p
  /\ \A w \in Writers : reserved[w] # NoPosition =>
       /\ \A d \in Deployments, o \in Ordinals :
            Present(d, o) => intents[d][o].position # reserved[w]
       /\ \A event \in eventLog : event.position # reserved[w]
       /\ \A v \in Writers : reserved[v] = reserved[w] => v = w
  /\ \A event \in eventLog : event.kind = "Other" =>
       \A d \in Deployments, o \in Ordinals :
         Present(d, o) => intents[d][o].position # event.position


\* No position has been given out.
LEMMA InitPositions == Init => PositionInv
BY DEF Init, PositionInv, Present, AbsentIntent

\* Positions and reservations are numbers.
LEMMA PositionsTyped ==
  ASSUME TypeInv
  PROVE  /\ allocation.position \in Nat
         /\ \A w \in Writers : reserved[w] # NoPosition => reserved[w] \in Nat
         /\ \A d \in Deployments, o \in Ordinals : Present(d, o) => intents[d][o].position \in Nat
         /\ \A event \in eventLog : event.position \in Nat
  BY MarkedStates DEF TypeInv, TypeOK, Event

\* A step that gives out no position, and keeps or forgets the others.
LEMMA PositionsKept ==
  ASSUME PositionInv, allocation'.position = allocation.position,
         \A d \in Deployments, o \in Ordinals :
           /\ Present(d, o)' <=> Present(d, o)
           /\ intents'[d][o].position = intents[d][o].position,
         \A event \in eventLog' :
           \/ event \in eventLog
           \/ /\ event.kind # "Other"
              /\ \E d \in Deployments, o \in Ordinals :
                   Present(d, o) /\ event.position = intents[d][o].position,
         \A w \in Writers : reserved'[w] = reserved[w] \/ reserved'[w] = NoPosition
  PROVE  PositionInv'
<1>1. \A event \in eventLog' :
        /\ event.position < allocation.position
        /\ \A w \in Writers : reserved[w] # NoPosition => event.position # reserved[w]
        /\ event.kind = "Other" =>
             \A d \in Deployments, o \in Ordinals :
               Present(d, o) => intents[d][o].position # event.position
  BY DEF PositionInv
<1>2. /\ \A d \in Deployments, o \in Ordinals :
           Present(d, o)' => intents'[d][o].position < allocation'.position
      /\ \A w \in Writers : reserved'[w] # NoPosition => reserved'[w] < allocation'.position
      /\ \A d, e \in Deployments, o, p \in Ordinals :
           Present(d, o)' /\ Present(e, p)' /\ intents'[d][o].position = intents'[e][p].position
             => d = e /\ o = p
  BY DEF PositionInv
<1>3. \A w \in Writers : reserved'[w] # NoPosition =>
        /\ \A d \in Deployments, o \in Ordinals :
             Present(d, o)' => intents'[d][o].position # reserved'[w]
        /\ \A event \in eventLog' : event.position # reserved'[w]
        /\ \A v \in Writers : reserved'[v] = reserved'[w] => v = w
  BY <1>1 DEF PositionInv
<1> QED BY <1>1, <1>2, <1>3 DEF PositionInv

\* A transition begins with a position that nothing else holds.
LEMMA PositionsBegin ==
  ASSUME TypeInv, TypeInv', OrdinalsInv, PositionInv,
         NEW d \in Deployments, NEW o \in Ordinals,
         \/ o = 0 /\ (BeginAdmission(d) \/ BeginRejection(d))
         \/ BeginPhase(d, o)
         \/ BeginTerminal(d, o)
  PROVE  PositionInv'
<1>1. PICK kind \in Kinds, position \in Nat :
        /\ SetIntent(d, o, NewIntent(kind, position))
        /\ ~ Present(d, o)
        /\ eventLog' = eventLog
        /\ \/ /\ position = allocation.position
              /\ allocation'.position = allocation.position + 1
              /\ reserved' = reserved
           \/ /\ position = reserved[d] /\ reserved[d] # NoPosition
              /\ allocation' = allocation
              /\ reserved' = [reserved EXCEPT ![d] = NoPosition]
  BY BeginKinds
<1>2. /\ intents'[d][o].position = position /\ Present(d, o)'
      /\ \A e \in Deployments, p \in Ordinals :
           e # d \/ p # o => /\ intents'[e][p].position = intents[e][p].position
                             /\ Present(e, p)' <=> Present(e, p)
  BY <1>1, BeginWrites DEF NewIntent, Present
<1>3. d \in Writers
  BY DEF Writers
<1>4. /\ allocation.position \in Nat
      /\ \A w \in Writers : reserved[w] # NoPosition => reserved[w] \in Nat
      /\ \A e \in Deployments, p \in Ordinals : Present(e, p) => intents[e][p].position \in Nat
      /\ \A event \in eventLog : event.position \in Nat
  BY PositionsTyped
\* The new position is nobody else's, and below the next one.
<1>5. /\ position < allocation'.position /\ allocation.position <= allocation'.position
      /\ allocation'.position \in Nat
      /\ \A e \in Deployments, p \in Ordinals : Present(e, p) => intents[e][p].position # position
      /\ \A event \in eventLog : event.position # position
      /\ \A w \in Writers : reserved'[w] # NoPosition => reserved'[w] # position
      /\ \A w \in Writers : reserved'[w] # NoPosition => reserved'[w] = reserved[w]
  <2>1. CASE position = allocation.position /\ allocation'.position = allocation.position + 1
             /\ reserved' = reserved
    BY <1>4, <2>1 DEF PositionInv
  <2>2. CASE position = reserved[d] /\ reserved[d] # NoPosition /\ allocation' = allocation
             /\ reserved' = [reserved EXCEPT ![d] = NoPosition]
    <3>1. \A w \in Writers : reserved'[w] = IF w = d THEN NoPosition ELSE reserved[w]
      BY <2>2 DEF TypeInv, TypeOK
    <3> QED BY <1>3, <1>4, <2>2, <3>1 DEF PositionInv
  <2> QED BY <1>1, <2>1, <2>2
<1>6. \A e \in Deployments, p \in Ordinals :
        Present(e, p)' => intents'[e][p].position < allocation'.position
  BY <1>2, <1>4, <1>5 DEF PositionInv
<1>7. \A event \in eventLog' : event.position < allocation'.position
  BY <1>1, <1>4, <1>5 DEF PositionInv
<1>8. \A w \in Writers : reserved'[w] # NoPosition => reserved'[w] < allocation'.position
  BY <1>4, <1>5 DEF PositionInv
<1>9. \A e, f \in Deployments, p, q \in Ordinals :
        Present(e, p)' /\ Present(f, q)' /\ intents'[e][p].position = intents'[f][q].position
          => e = f /\ p = q
  BY <1>2, <1>5 DEF PositionInv
<1>10. \A w \in Writers : reserved'[w] # NoPosition =>
        /\ \A e \in Deployments, p \in Ordinals :
             Present(e, p)' => intents'[e][p].position # reserved'[w]
        /\ \A event \in eventLog' : event.position # reserved'[w]
        /\ \A v \in Writers : reserved'[v] = reserved'[w] => v = w
  BY <1>1, <1>2, <1>5 DEF PositionInv
<1>11. \A event \in eventLog' : event.kind = "Other" =>
         \A e \in Deployments, p \in Ordinals :
           Present(e, p)' => intents'[e][p].position # event.position
  BY <1>1, <1>2, <1>5 DEF PositionInv
<1> QED BY <1>6, <1>7, <1>8, <1>9, <1>10, <1>11 DEF PositionInv

\* A reservation takes the next position.
LEMMA PositionsAllocate ==
  ASSUME TypeInv, PositionInv, NEW w \in Writers, AllocatePosition(w)
  PROVE  PositionInv'
<1> DEFINE next == allocation.position
<1>1. /\ next \in Nat
      /\ \A v \in Writers : reserved[v] # NoPosition => reserved[v] \in Nat
      /\ \A d \in Deployments, o \in Ordinals : Present(d, o) => intents[d][o].position \in Nat
      /\ \A event \in eventLog : event.position \in Nat
  BY PositionsTyped
<1>2. /\ allocation'.position = next + 1
      /\ \A v \in Writers : reserved'[v] = IF v = w THEN next ELSE reserved[v]
      /\ intents' = intents /\ eventLog' = eventLog
  BY DEF AllocatePosition, PositionTaken, TypeInv, TypeOK
<1> HIDE DEF next
<1>3. /\ \A d \in Deployments, o \in Ordinals : Present(d, o) => intents[d][o].position < next
      /\ \A event \in eventLog : event.position < next
      /\ \A v \in Writers : reserved[v] # NoPosition => reserved[v] < next
  BY DEF PositionInv, next
<1>4. /\ \A d \in Deployments, o \in Ordinals : Present(d, o)' =>
           intents'[d][o].position < allocation'.position
      /\ \A event \in eventLog' : event.position < allocation'.position
      /\ \A v \in Writers : reserved'[v] # NoPosition => reserved'[v] < allocation'.position
  BY <1>1, <1>2, <1>3 DEF Present
<1>5. \A v \in Writers : reserved'[v] # NoPosition =>
       /\ \A d \in Deployments, o \in Ordinals :
            Present(d, o)' => intents'[d][o].position # reserved'[v]
       /\ \A event \in eventLog' : event.position # reserved'[v]
       /\ \A u \in Writers : reserved'[u] = reserved'[v] => u = v
  <2> SUFFICES ASSUME NEW v \in Writers, reserved'[v] # NoPosition
               PROVE  /\ \A d \in Deployments, o \in Ordinals :
                           Present(d, o)' => intents'[d][o].position # reserved'[v]
                      /\ \A event \in eventLog' : event.position # reserved'[v]
                      /\ \A u \in Writers : reserved'[u] = reserved'[v] => u = v
    OBVIOUS
  <2>1. \A n \in Nat : n < next => n # next
    BY <1>1
  <2>2. next # NoPosition
    BY <1>1 DEF NoPosition
  <2>3. CASE v = w
    BY <1>1, <1>2, <1>3, <2>1, <2>2, <2>3 DEF Present
  <2>4. CASE v # w
    BY <1>1, <1>2, <1>3, <2>1, <2>2, <2>4 DEF Present, PositionInv
  <2> QED BY <2>3, <2>4
<1>6. \A d, e \in Deployments, o, p \in Ordinals :
         Present(d, o)' /\ Present(e, p)' /\ intents'[d][o].position = intents'[e][p].position
           => d = e /\ o = p
  BY <1>2 DEF PositionInv, Present
<1>7. \A event \in eventLog' : event.kind = "Other" =>
         \A d \in Deployments, o \in Ordinals :
           Present(d, o)' => intents'[d][o].position # event.position
  BY <1>2 DEF PositionInv, Present
<1> QED BY <1>4, <1>5, <1>6, <1>7 DEF PositionInv

\* An event of another kind takes the position that its writer has reserved.
LEMMA PositionsOther ==
  ASSUME TypeInv, PositionInv, AppendOther
  PROVE  PositionInv'
<1> DEFINE new == [deployment |-> Observer, kind |-> "Other",
                   position |-> reserved[Observer], marker |-> NoMarker]
<1>1. /\ Observer \in Writers /\ reserved[Observer] # NoPosition
      /\ eventLog' = eventLog \union {new} /\ new.position = reserved[Observer]
      /\ \A v \in Writers : reserved'[v] = IF v = Observer THEN NoPosition ELSE reserved[v]
      /\ intents' = intents /\ allocation' = allocation
  BY DEF AppendOther, Writers, TypeInv, TypeOK
<1> HIDE DEF new
<1>2. \A event \in eventLog' : event.position < allocation'.position
  BY <1>1 DEF PositionInv
<1>3. \A v \in Writers : reserved'[v] # NoPosition =>
       /\ \A d \in Deployments, o \in Ordinals :
            Present(d, o)' => intents'[d][o].position # reserved'[v]
       /\ \A event \in eventLog' : event.position # reserved'[v]
       /\ \A u \in Writers : reserved'[u] = reserved'[v] => u = v
  BY <1>1 DEF PositionInv, Present
<1>4. \A event \in eventLog' : event.kind = "Other" =>
         \A d \in Deployments, o \in Ordinals :
           Present(d, o)' => intents'[d][o].position # event.position
  BY <1>1 DEF PositionInv, Present
<1> QED BY <1>1, <1>2, <1>3, <1>4 DEF PositionInv, Present

\* Every step leaves each position with one holder.
LEMMA PositionsStep ==
  ASSUME IInv, IInv', PositionInv, [Next]_vars
  PROVE  PositionInv'
<1> USE DEF IInv
<1>1. ASSUME NEW d \in Deployments, Begin(d) PROVE PositionInv'
  <2>1. 0 \in Ordinals
    BY JournalAssumption DEF JournalAssumption, Ordinals
  <2>2. PICK o \in Ordinals : \/ o = 0 /\ (BeginAdmission(d) \/ BeginRejection(d))
                              \/ BeginPhase(d, o)
                              \/ BeginTerminal(d, o)
    BY <1>1, <2>1 DEF Begin
  <2> QED BY <2>2, PositionsBegin
<1>2. ASSUME NEW d \in Deployments, NEW marker \in SourceCommits(d, step[d].ordinal),
             Bind(d, marker)
      PROVE  PositionInv'
  <2>1. PICK o \in Ordinals : o = step[d].ordinal
    BY DEF TypeInv, TypeOK, Writers
  <2>2. /\ intents[d][o].state = "Pending" /\ intents'[d][o].state = "Bound"
        /\ intents'[d][o].position = intents[d][o].position
        /\ \A e \in Deployments, p \in Ordinals :
             e # d \/ p # o => intents'[e][p] = intents[e][p]
        /\ UNCHANGED <<allocation, eventLog, reserved>>
    BY <1>2, <2>1, BindWrites
  <2> QED BY <2>2, PositionsKept DEF Present
<1>3. ASSUME NEW d \in Deployments, NEW s \in {"Appended", "Acknowledged"},
             s = "Appended" => Append(d), s = "Acknowledged" => Acknowledge(d)
      PROVE  PositionInv'
  <2>1. PICK o \in Ordinals : o = step[d].ordinal
    BY DEF TypeInv, TypeOK, Writers
  <2>2. /\ Marked(d, o)
        /\ \A e \in Deployments, p \in Ordinals :
             /\ Present(e, p)' <=> Present(e, p)
             /\ intents'[e][p].position = intents[e][p].position
    BY <1>3, <2>1, DeliveryWrites
  <2>3. allocation' = allocation /\ reserved' = reserved
        /\ (eventLog' = eventLog \/ eventLog' = eventLog \union {EventOf(d, o)})
    BY <1>3, <2>1 DEF Append, Acknowledge
  <2>4. /\ Present(d, o) /\ EventOf(d, o).kind # "Other"
        /\ EventOf(d, o).position = intents[d][o].position
    BY <2>2, MarkedStates DEF EventOf, Present
  <2> QED BY <2>2, <2>3, <2>4, PositionsKept
<1>4. ASSUME NEW w \in Writers, AllocatePosition(w) PROVE PositionInv'
  BY <1>4, PositionsAllocate
<1>5. CASE AppendOther
  BY <1>5, PositionsOther
<1>6. ASSUME intents' = intents, allocation' = allocation, eventLog' \subseteq eventLog,
             \A w \in Writers : reserved'[w] = reserved[w] \/ reserved'[w] = NoPosition
      PROVE  PositionInv'
  BY <1>6, PositionsKept DEF Present
<1>7. ASSUME NEW d \in Deployments, BindAgain(d) \/ Dispatch(d) \/ Refuse(d) PROVE PositionInv'
  BY <1>6, <1>7 DEF BindAgain, Dispatch, Refuse, durable
<1>8. ASSUME NEW w \in Writers, Maintain(w) PROVE PositionInv'
  BY <1>6, <1>8 DEF Maintain, CompactRows, CompactVersionedHistory, NothingToCompact,
                    CompactConfiguredHistory, durable
<1>9. CASE Crash
  BY <1>6, <1>9 DEF Crash, durable
<1>10. CASE Reopen
  BY <1>6, <1>10 DEF Reopen, Restart, RequeueDispatchedOutbox, ReconcileIntent,
                     IntentsReconciled, ReconcileDeploymentOutbox, RetractDeployJob,
                     JobsReconciled, durable, volatile
<1>11. CASE UNCHANGED vars
  BY <1>6, <1>11 DEF vars, durable, volatile
<1>12. ASSUME NEW d \in Deployments, Append(d) \/ Acknowledge(d) PROVE PositionInv'
  BY <1>3, <1>12
<1> QED
  BY <1>1, <1>2, <1>4, <1>5, <1>7, <1>8, <1>9, <1>10, <1>11, <1>12 DEF Next, Deliver

-----------------------------------------------------------------------------
(* Reopening: the only intent that a store cannot deliver is one whose     *)
(* source commit was compacted away.                                       *)

\* A pending transition has one source commit as long as it has any.
OneSource ==
  /\ \A x \in versionedLog : Present(x.deployment, x.ordinal)
  /\ \A d \in Deployments, o \in Ordinals : intents[d][o].state = "Pending" =>
       \A x, y \in versionedLog :
         x.deployment = d /\ x.ordinal = o /\ y.deployment = d /\ y.ordinal = o => x = y

\* The opening store delivers one transition at a time, and no event is retired
\* under it.
OpeningAlone ==
  /\ mode \notin {"serving", "intents"} => AllIdle
  /\ mode = "intents" =>
       \A v, w \in Writers : ~ At(v, "idle") /\ ~ At(w, "idle") => v = w
  /\ mode = "intents" => \A d \in Deployments :
       At(d, "acknowledge") => EventOf(d, step[d].ordinal) \in eventLog

ReopenInv == OneSource /\ OpeningAlone /\ ReopenFailsOnlyWithoutSource

\* The store is new and serves.
LEMMA InitReopen == Init => ReopenInv
BY DEF Init, ReopenInv, OneSource, OpeningAlone, ReopenFailsOnlyWithoutSource, AbsentIntent

\* A step that adds no source commit and makes no intent pending.
LEMMA SourcesKept ==
  ASSUME OneSource, versionedLog' \subseteq versionedLog,
         \A d \in Deployments, o \in Ordinals :
           /\ Present(d, o) => Present(d, o)'
           /\ intents'[d][o].state = "Pending" => intents[d][o].state = "Pending",
         \A x \in versionedLog : x.deployment \in Deployments /\ x.ordinal \in Ordinals
  PROVE  OneSource'
BY DEF OneSource

\* A step adds one source commit, to a transition that had none or that it binds.
LEMMA SourcesCommit ==
  ASSUME TypeInv, OneSource, NEW d \in Deployments, NEW o \in Ordinals, CommitWithRecord(d, o),
         Present(d, o)',
         \A e \in Deployments, p \in Ordinals :
           e # d \/ p # o => intents'[e][p] = intents[e][p],
         ~ Present(d, o) \/ intents'[d][o].state # "Pending"
  PROVE  OneSource'
<1> DEFINE new == [sequence |-> commits + 1, deployment |-> d, ordinal |-> o]
<1>1. /\ versionedLog' = versionedLog \union {new} /\ new.deployment = d /\ new.ordinal = o
  BY DEF CommitWithRecord
<1> HIDE DEF new
<1>2. \A x \in versionedLog : x.deployment \in Deployments /\ x.ordinal \in Ordinals
  BY MarkersTyped
<1>3. ASSUME NEW x \in versionedLog' PROVE Present(x.deployment, x.ordinal)'
  <2>1. CASE x.deployment = d /\ x.ordinal = o
    BY <2>1
  <2>2. CASE ~ (x.deployment = d /\ x.ordinal = o)
    BY <1>1, <1>2, <2>2 DEF OneSource, Present
  <2> QED BY <2>1, <2>2
<1>4. ASSUME NEW e \in Deployments, NEW p \in Ordinals, intents'[e][p].state = "Pending",
             NEW x \in versionedLog', NEW y \in versionedLog',
             x.deployment = e /\ x.ordinal = p /\ y.deployment = e /\ y.ordinal = p
      PROVE  x = y
  <2>1. CASE e = d /\ p = o
    <3>1. \A z \in versionedLog : ~ (z.deployment = d /\ z.ordinal = o)
      BY <1>4, <2>1 DEF OneSource
    <3> QED BY <1>1, <1>4, <2>1, <3>1
  <2>2. CASE e # d \/ p # o
    BY <1>1, <1>4, <2>2 DEF OneSource
  <2> QED BY <2>1, <2>2
<1> QED BY <1>3, <1>4 DEF OneSource

\* Every step leaves a pending transition at most one source commit.
LEMMA SourcesStep ==
  ASSUME IInv, IInv', OneSource, [Next]_vars
  PROVE  OneSource'
<1> USE DEF IInv
<1>1. \A x \in versionedLog : x.deployment \in Deployments /\ x.ordinal \in Ordinals
  BY MarkersTyped
<1>2. ASSUME NEW d \in Deployments, Begin(d) PROVE OneSource'
  <2>1. 0 \in Ordinals
    BY JournalAssumption DEF JournalAssumption, Ordinals
  <2>2. PICK o \in Ordinals : \/ o = 0 /\ (BeginAdmission(d) \/ BeginRejection(d))
                              \/ BeginPhase(d, o)
                              \/ BeginTerminal(d, o)
    BY <1>2, <2>1 DEF Begin
  <2>3. PICK kind \in Kinds, position \in Nat :
          SetIntent(d, o, NewIntent(kind, position)) /\ CommitWithRecord(d, o) /\ ~ Present(d, o)
    BY <2>2, BeginKinds
  <2>4. /\ \A e \in Deployments, p \in Ordinals : e # d \/ p # o => intents'[e][p] = intents[e][p]
        /\ Present(d, o)'
    BY <2>3, BeginWrites DEF NewIntent, Present
  <2> QED BY <2>3, <2>4, SourcesCommit
<1>3. ASSUME NEW d \in Deployments, NEW marker \in SourceCommits(d, step[d].ordinal),
             Bind(d, marker)
      PROVE  OneSource'
  <2>1. PICK o \in Ordinals : o = step[d].ordinal
    BY DEF TypeInv, TypeOK, Writers
  <2>2. /\ intents'[d][o].state = "Bound"
        /\ \A e \in Deployments, p \in Ordinals :
             e # d \/ p # o => intents'[e][p] = intents[e][p]
    BY <1>3, <2>1, BindWrites
  <2>3. Present(d, o)'
    BY <2>2 DEF Present
  <2>4. CASE CommitWithRecord(d, o)
    BY <2>2, <2>3, <2>4, SourcesCommit
  <2>5. CASE versionedLog' = versionedLog
    BY <1>1, <2>2, <2>3, <2>5, SourcesKept DEF Present
  <2> QED BY <1>3, <2>1, <2>4, <2>5 DEF Bind
<1>4. ASSUME NEW d \in Deployments, NEW s \in {"Appended", "Acknowledged"},
             s = "Appended" => Append(d), s = "Acknowledged" => Acknowledge(d)
      PROVE  OneSource'
  <2>1. PICK o \in Ordinals : o = step[d].ordinal
    BY DEF TypeInv, TypeOK, Writers
  <2>2. /\ intents'[d][o].state = s
        /\ \A e \in Deployments, p \in Ordinals :
             e # d \/ p # o => intents'[e][p] = intents[e][p]
    BY <1>4, <2>1, DeliveryWrites
  <2>3. versionedLog' = versionedLog
    BY <1>4 DEF Append, Acknowledge
  <2> QED BY <1>1, <2>2, <2>3, SourcesKept DEF Present
<1>5. ASSUME NEW d \in Deployments, Append(d) \/ Acknowledge(d) PROVE OneSource'
  BY <1>4, <1>5
<1>6. CASE Quiet
  BY <1>1, <1>6, SourcesKept DEF Quiet, Present
<1>7. ASSUME NEW d \in Deployments, NEW o \in Ordinals,
             BeginAdmission(d) \/ BeginRejection(d) \/ BeginPhase(d, o) \/ BeginTerminal(d, o)
      PROVE  OneSource'
  BY <1>2, <1>7 DEF Begin
<1>8. 0 \in Ordinals
  BY JournalAssumption DEF JournalAssumption, Ordinals
<1> QED BY <1>3, <1>5, <1>6, <1>7, <1>8, QuietSteps

\* A delivery stops only at an intent that no commit names any more, when the
\* store is being opened.
LEMMA RefusalLacksSource ==
  ASSUME IInv, RowsInv, PositionInv, OneSource, OpeningAlone,
         NEW d \in Deployments, Refuse(d), mode = "intents"
  PROVE  \E e \in Deployments, p \in Ordinals : SourceWiped(e, p)
<1> USE DEF IInv
<1>1. PICK o \in Ordinals : o = step[d].ordinal
  BY DEF TypeInv, TypeOK, Writers
<1>2. /\ step[d].at \in {"bind", "dispatch", "append", "acknowledge"}
      /\ ~ Ready(d, o)
  BY <1>1 DEF Refuse, Delivering, At
<1>3. Undelivered(d, o) /\ (step[d].at # "bind" => Marked(d, o))
  BY <1>1, <1>2 DEF TypeInv, DriversHoldIntents, Marked
\* The row of a bound intent is there.
<1>4. ASSUME Marked(d, o) PROVE Dispatchable(d, o)
  <2>1. intents[d][o].state \in {"Bound", "Appended"}
    BY <1>3, <1>4, MarkedStates DEF Undelivered
  <2>2. PICK row \in outbox : row.event = EventOf(d, o)
    BY <2>1 DEF RowsInv, RecoveryPayloadKept
  <2>3. EventOf(d, o).deployment = d /\ EventOf(d, o).marker = intents[d][o].marker
    BY DEF EventOf
  <2> QED BY <2>2, <2>3 DEF Dispatchable, ExactRow, OutboxRowsOf
\* No other event has taken its position.
<1>5. ASSUME Marked(d, o) PROVE Appendable(d, o)
  <2> SUFFICES ASSUME NEW event \in eventLog, event.position = intents[d][o].position
               PROVE  event = EventOf(d, o)
    BY DEF Appendable
  <2>1. Present(d, o)
    BY <1>3 DEF Undelivered, Present
  <2>2. event.kind # "Other"
    BY <2>1 DEF PositionInv
  <2>3. PICK e \in Deployments, p \in Ordinals :
          intents[e][p].state \in {"Appended", "Acknowledged"} /\ event = EventOf(e, p)
    BY <2>2 DEF EveryEventHasItsIntent, DeploymentEvents
  <2>4. Present(e, p) /\ intents[e][p].position = intents[d][o].position
    BY <2>3 DEF Present, EventOf
  <2>5. e = d /\ p = o
    BY <2>1, <2>4 DEF PositionInv
  <2> QED BY <2>3, <2>5
<1>6. CASE step[d].at = "dispatch"
  BY <1>2, <1>3, <1>4, <1>6 DEF Ready, At
<1>7. CASE step[d].at = "append"
  BY <1>2, <1>3, <1>5, <1>7 DEF Ready, At
<1>8. CASE step[d].at = "acknowledge"
  BY <1>1, <1>2, <1>3, <1>4, <1>8 DEF Ready, At, Acknowledgeable, OpeningAlone
<1>9. CASE step[d].at = "bind"
  <2>1. intents[d][o].marker = NoMarker /\ \A m \in SourceCommits(d, o) : ~ Bindable(d, o, m)
    BY <1>2, <1>9 DEF Ready, At
  <2>2. intents[d][o].state = "Pending"
    BY <1>3, <2>1, MarkedStates DEF Marked, Undelivered
  <2>3. ASSUME NEW m \in SourceCommits(d, o) PROVE Bindable(d, o, m)
    <3>1. PICK x \in versionedLog : m = x.sequence /\ x.deployment = d /\ x.ordinal = o
      BY DEF SourceCommits
    <3>2. SourceCommits(d, o) = {m}
      BY <2>2, <3>1 DEF SourceCommits, OneSource
    <3>3. intents[d][o].kind = "Terminal" => record[d].lifecycle = "Terminal"
      BY DEF CursorInv
    <3>4. ASSUME NEW row \in outbox, row.event.deployment = d, row.event.marker = m PROVE FALSE
      <4>1. PICK e \in Deployments, p \in Ordinals :
              intents[e][p].marker # NoMarker /\ row.event = EventOf(e, p)
        BY DEF RowsInv, RowsHaveIntents
      <4>2. intents[e][p].marker = m
        BY <3>4, <4>1 DEF EventOf
      <4>3. e = d /\ p = o
        BY <3>1, <4>2 DEF MarkerInv
      <4> QED BY <2>1, <4>1, <4>3
    <3> QED BY <3>2, <3>3, <3>4 DEF Bindable
  <2>4. SourceCommits(d, o) = {}
    BY <2>1, <2>3
  <2> QED BY <2>2, <2>4 DEF SourceWiped
<1> QED BY <1>2, <1>6, <1>7, <1>8, <1>9

\* While the store is being opened, at most one transition is on its way.
LEMMA OpeningStep ==
  ASSUME IInv, IInv', OpeningAlone, [Next]_vars
  PROVE  OpeningAlone'
<1> USE DEF IInv
<1>1. ASSUME mode' = "serving" PROVE OpeningAlone'
  BY <1>1 DEF OpeningAlone
\* A delivery moves the one writer that is on its way.
<1>2. ASSUME NEW d \in Deployments, mode \in {"serving", "intents"}, mode' = mode, ~ At(d, "idle"),
             \A w \in Writers : w # d => step'[w] = step[w],
             (At(d, "acknowledge") => EventOf(d, step[d].ordinal) \in eventLog)'
      PROVE  OpeningAlone'
  <2>1. CASE mode = "serving"
    BY <1>1, <1>2, <2>1
  <2>2. CASE mode = "intents"
    <3>1. d \in Writers /\ \A w \in Writers : w # d => step[w].at = "idle"
      BY <1>2, <2>2 DEF OpeningAlone, At, Writers
    <3>2. \A w \in Writers : w # d => step'[w].at = "idle"
      BY <1>2, <3>1
    <3>3. \A v, w \in Writers : ~ At(v, "idle")' /\ ~ At(w, "idle")' => v = w
      BY <3>1, <3>2 DEF At
    <3>4. \A e \in Deployments :
            (At(e, "acknowledge") => EventOf(e, step[e].ordinal) \in eventLog)'
      BY <1>2, <3>2 DEF At, Writers
    <3> QED BY <1>2, <2>2, <3>3, <3>4 DEF OpeningAlone
  <2> QED BY <1>2, <2>1, <2>2
<1>3. ASSUME NEW d \in Deployments, NEW s \in Steps \ {"acknowledge"}, mode \in {"serving", "intents"},
             mode' = mode, ~ At(d, "idle"), GoTo(d, s)
      PROVE  OpeningAlone'
  <2>1. step'[d].at = s /\ \A w \in Writers : w # d => step'[w] = step[w]
    BY <1>3 DEF GoTo, TypeInv, TypeOK, Writers
  <2> QED BY <1>2, <1>3, <2>1 DEF At
<1>4. ASSUME NEW d \in Deployments, Begin(d) PROVE OpeningAlone'
  BY <1>1, <1>4 DEF Begin, BeginAdmission, BeginRejection, BeginFirst, BeginPhase, BeginTerminal,
                    Serving
<1>5. ASSUME NEW d \in Deployments, BindAgain(d) PROVE OpeningAlone'
  BY <1>3, <1>5 DEF BindAgain, Delivering, At, Steps
<1>6. ASSUME NEW d \in Deployments, NEW marker \in SourceCommits(d, step[d].ordinal),
             Bind(d, marker)
      PROVE  OpeningAlone'
  BY <1>3, <1>6 DEF Bind, Delivering, At, Steps
<1>7. ASSUME NEW d \in Deployments, Dispatch(d) PROVE OpeningAlone'
  BY <1>3, <1>7 DEF Dispatch, Delivering, At, Steps
<1>8. ASSUME NEW d \in Deployments, Append(d) PROVE OpeningAlone'
  <2>1. PICK o \in Ordinals : o = step[d].ordinal
    BY DEF TypeInv, TypeOK, Writers
  <2>2. /\ step'[d].ordinal = o /\ \A w \in Writers : w # d => step'[w] = step[w]
        /\ mode \in {"serving", "intents"} /\ mode' = mode /\ ~ At(d, "idle")
        /\ eventLog' = eventLog \union {EventOf(d, o)}
    BY <1>8, <2>1 DEF Append, GoTo, Delivering, At, TypeInv, TypeOK, Writers
  <2>3. EventOf(d, o)' = EventOf(d, o)
    BY <1>8, <2>1, DeliveryWrites
  <2>4. (EventOf(d, step[d].ordinal) \in eventLog)'
    BY <2>2, <2>3 DEF EventOf
  <2> QED BY <1>2, <2>2, <2>4
<1>9. ASSUME NEW d \in Deployments, Acknowledge(d) PROVE OpeningAlone'
  <2> DEFINE s == IF mode = "serving" /\ step[d].ordinal > 0 THEN "maintain" ELSE "idle"
  <2>1. GoTo(d, s) /\ mode \in {"serving", "intents"} /\ mode' = mode /\ ~ At(d, "idle")
    BY <1>9 DEF Acknowledge, Delivering, At
  <2>2. s \in Steps \ {"acknowledge"}
    BY DEF Steps
  <2> HIDE DEF s
  <2> QED BY <1>3, <2>1, <2>2
<1>10. ASSUME NEW d \in Deployments, Refuse(d) PROVE OpeningAlone'
  <2>1. /\ \A w \in Writers : step'[w] = IF w = d THEN Idle ELSE step[w]
        /\ mode \in {"serving", "intents"} /\ ~ At(d, "idle") /\ d \in Writers
    BY <1>10 DEF Refuse, Delivering, At, TypeInv, TypeOK, Writers
  <2>2. CASE mode = "intents"
    <3>1. \A w \in Writers : w # d => step[w].at = "idle"
      BY <2>1, <2>2 DEF OpeningAlone, At
    <3>2. AllIdle'
      BY <2>1, <3>1 DEF AllIdle, At, Idle
    <3>3. mode' = "failed"
      BY <1>10, <2>2 DEF Refuse
    <3> QED BY <3>2, <3>3 DEF OpeningAlone
  <2>3. CASE mode = "serving"
    BY <1>1, <1>10, <2>3 DEF Refuse
  <2> QED BY <2>1, <2>2, <2>3
<1>11. ASSUME NEW w \in Writers, AllocatePosition(w) \/ Maintain(w) PROVE OpeningAlone'
  BY <1>1, <1>11 DEF AllocatePosition, Maintain, CompactRows, CompactVersionedHistory,
                     NothingToCompact, CompactConfiguredHistory, Serving
<1>12. CASE AppendOther
  BY <1>1, <1>12 DEF AppendOther, Serving
<1>13. CASE Crash
  BY <1>13 DEF Crash, OpeningAlone, AllIdle, At, Idle
<1>14. ASSUME mode' # "serving", AllIdle, step' = step PROVE OpeningAlone'
  BY <1>14 DEF OpeningAlone, AllIdle, At, Writers
<1>15. CASE Restart \/ RequeueDispatchedOutbox
  BY <1>14, <1>15 DEF Restart, RequeueDispatchedOutbox, OpeningAlone
<1>16. CASE IntentsReconciled
  BY <1>14, <1>16 DEF IntentsReconciled
<1>17. CASE ReconcileDeploymentOutbox
  BY <1>14, <1>17 DEF ReconcileDeploymentOutbox, OpeningAlone
<1>20. ASSUME NEW d \in Deployments, RetractDeployJob(d) PROVE OpeningAlone'
  BY <1>14, <1>20 DEF RetractDeployJob, volatile, OpeningAlone
<1>21. CASE JobsReconciled
  BY <1>1, <1>21 DEF JobsReconciled
<1>18. ASSUME NEW d \in Deployments, NEW o \in Ordinals, ReconcileIntent(d, o) PROVE OpeningAlone'
  <2>1. /\ \A w \in Writers : step'[w] = IF w = d THEN [at |-> "bind", ordinal |-> o] ELSE step[w]
        /\ mode' = "intents" /\ \A w \in Writers : step[w].at = "idle"
    BY <1>18 DEF ReconcileIntent, AllIdle, At, TypeInv, TypeOK
  <2>2. \A w \in Writers : step'[w].at = IF w = d THEN "bind" ELSE "idle"
    BY <2>1
  <2> QED BY <2>1, <2>2 DEF OpeningAlone, At, Writers
<1>19. CASE UNCHANGED vars
  BY <1>19 DEF vars, durable, volatile, OpeningAlone, AllIdle, At, EventOf
<1> QED
  BY <1>4, <1>5, <1>6, <1>7, <1>8, <1>9, <1>10, <1>11, <1>12, <1>13, <1>15, <1>16, <1>17, <1>18,
     <1>19, <1>20, <1>21
  DEF Next, Deliver, Reopen

\* A store that does not open keeps the intent that stopped it.
LEMMA FailureStep ==
  ASSUME IInv, RowsInv, PositionInv, ReopenInv, [Next]_vars
  PROVE  ReopenFailsOnlyWithoutSource'
<1> SUFFICES ASSUME mode' = "failed" PROVE ReopenFailsOnlyWithoutSource'
  BY DEF ReopenFailsOnlyWithoutSource
<1>1. ASSUME UNCHANGED <<intents, versionedLog>>,
             \E d \in Deployments, o \in Ordinals : SourceWiped(d, o)
      PROVE  ReopenFailsOnlyWithoutSource'
  BY <1>1 DEF ReopenFailsOnlyWithoutSource, SourceWiped, SourceCommits
<1>2. ASSUME NEW d \in Deployments, Refuse(d) PROVE ReopenFailsOnlyWithoutSource'
  <2>1. mode = "intents"
    BY <1>2 DEF Refuse, Delivering
  <2> QED BY <1>1, <1>2, <2>1, RefusalLacksSource DEF ReopenInv, Refuse, durable
<1>3. CASE UNCHANGED vars
  BY <1>1, <1>3 DEF ReopenInv, ReopenFailsOnlyWithoutSource, vars, durable, volatile
<1>4. ASSUME NEW d \in Deployments, Begin(d) PROVE FALSE
  BY <1>4 DEF Begin, BeginAdmission, BeginRejection, BeginFirst, BeginPhase, BeginTerminal, Serving
<1>5. ASSUME NEW d \in Deployments,
             \/ BindAgain(d)
             \/ \E marker \in SourceCommits(d, step[d].ordinal) : Bind(d, marker)
             \/ Dispatch(d) \/ Append(d) \/ Acknowledge(d)
      PROVE  FALSE
  BY <1>5 DEF BindAgain, Bind, Dispatch, Append, Acknowledge, Delivering
<1>6. ASSUME NEW w \in Writers, AllocatePosition(w) \/ Maintain(w) PROVE FALSE
  BY <1>6 DEF AllocatePosition, Maintain, CompactRows, CompactVersionedHistory,
              NothingToCompact, CompactConfiguredHistory, Serving
<1>7. CASE AppendOther
  BY <1>7 DEF AppendOther, Serving
<1>9. ~ Mismatched
  BY NothingMismatches DEF IInv
<1>8. CASE Crash \/ Reopen
  BY <1>8, <1>9 DEF Crash, Reopen, Restart, RequeueDispatchedOutbox, ReconcileIntent,
              IntentsReconciled, ReconcileDeploymentOutbox, RetractDeployJob, JobsReconciled,
              volatile
<1> QED BY <1>2, <1>3, <1>4, <1>5, <1>6, <1>7, <1>8 DEF Next, Deliver

\* A store that cannot be opened again holds a pending transition whose source
\* commit has been compacted away: nothing else ever stops a reopening.
THEOREM OnlyCompactionStopsReopening == Spec => []ReopenFailsOnlyWithoutSource
<1> DEFINE Inv == IInv /\ RowsInv /\ PositionInv /\ ReopenInv
<1>1. Init => Inv
  BY InitIInv, InitRows, InitPositions, InitReopen
<1>2. Inv /\ [Next]_vars => Inv'
  BY IInvStep, RowsStep, PositionsStep, SourcesStep, OpeningStep, FailureStep DEF ReopenInv
<1>3. Inv => ReopenFailsOnlyWithoutSource
  BY DEF ReopenInv
<1> HIDE DEF Inv
<1> QED BY <1>1, <1>2, <1>3, PTL DEF Spec
=============================================================================
