---------------------------- MODULE StoreOpening ----------------------------
(***************************************************************************)
(* Opening the Lojix store (src/lib.rs open_with_default_configuration and *)
(* what it calls, src/quarantine.rs) and the writes that leave it behind.  *)
(*                                                                         *)
(* An opening is first tried on a disposable copy, the startup probe, and  *)
(* only a store whose copy opens is opened in place.  Opening sets aside   *)
(* every row the current schema does not read, one atomic commit per row,  *)
(* rebuilds the configuration and the identifier allocation when they are  *)
(* missing, and completes the transitions a stopped Nexus left undelivered.*)
(* The Nexus opens its store twice: to read the configuration, and to      *)
(* serve.  It may die between any two commits, and an upgrade may make the *)
(* rows of some families unreadable.                                       *)
(*                                                                         *)
(* A store is its tables of rows and the rows set aside.  Of the families  *)
(* nothing below reads back (GC roots, containers, test runs) the live set *)
(* stands for all.  A deployment has two transitions, its admission and    *)
(* its terminal; TransitionJournal has the others, the retention and the   *)
(* source commits.                                                         *)
(***************************************************************************)
EXTENDS Integers, FiniteSets, Sequences

CONSTANTS
  Pids,           \* process identifiers the operating system hands out
  Schemas,        \* the sets of families one schema change makes unreadable
  MaxIdentifier,  \* bound: deployments admitted
  MaxUpgrades,    \* bound: schema changes
  MaxFaults       \* bound: crashes of the Nexus, failed copies and failed removals

\* The order in which the families are read for undecodable rows.
Families == <<"live", "log", "job", "record", "allocation", "outbox", "intent", "configuration">>
Tables   == {Families[i] : i \in 1 .. Len(Families)}

ASSUME OpeningAssumption ==
  /\ Schemas \subseteq SUBSET Tables
  /\ MaxIdentifier \in Nat /\ MaxUpgrades \in Nat /\ MaxFaults \in Nat

VARIABLES
  real,       \* the store file; [exists |-> FALSE] before the first opening
  probe,      \* the copy being tried
  leftovers,  \* probe files nobody removed, by the process and its counter
  process,    \* the Nexus process
  upgrades,   \* bound only
  faults      \* bound only

vars == <<real, probe, leftovers, process, upgrades, faults>>

NoRows == [t \in Tables |-> {}]
Fresh  == [exists |-> FALSE, schema |-> "Current", sidecars |-> FALSE,
           rows |-> NoRows, aside |-> NoRows]

Row(key, value) == [key |-> key, value |-> value, decodes |-> TRUE]

\* A store of the release that kept its configuration in an archive.
Unmigrated ==
  [Fresh EXCEPT !.exists = TRUE,
     !.rows = [NoRows EXCEPT !.live = {Row(1, "Deployed")},
                             !.allocation = {Row(0, [identifier |-> 2, position |-> 1])}]]

\* A store whose schema version this release does not open, with the files an
\* abandoned migration left next to it, and a database that is not Lojix's.
Older   == [Unmigrated EXCEPT !.schema = "Older", !.sidecars = TRUE]
Foreign == [Unmigrated EXCEPT !.schema = "Foreign"]

Stopped == [at |-> "stopped", pid |-> "none", counter |-> 0,
            opened |-> 0, file |-> "none", moved |-> {}, error |-> "none", resets |-> FALSE]

Init ==
  /\ real \in {Fresh, Unmigrated, Older, Foreign}
  /\ probe = Fresh
  /\ leftovers = {}
  /\ process = Stopped
  /\ upgrades = 0
  /\ faults = 0

-----------------------------------------------------------------------------
(* Rows.                                                                   *)

Has(s, t, key)  == \E r \in s.rows[t] : r.key = key
Read(s, t, key) == (CHOOSE r \in s.rows[t] : r.key = key).value
Keys(s, t)      == {r.key : r \in s.rows[t]}

Retract(s, t, key) == [s EXCEPT !.rows[t] = {r \in @ : r.key # key}]
Put(s, t, key, value) == [s EXCEPT !.rows[t] = {r \in @ : r.key # key} \union {Row(key, value)}]

\* The row of a table that holds one.
Only(s, t) == Read(s, t, 0)

OneMoreThan(numbers, otherwise) ==
  IF numbers = {} THEN otherwise ELSE 1 + CHOOSE m \in numbers : \A n \in numbers : n <= m

-----------------------------------------------------------------------------
(* Setting aside what does not decode.                                     *)

Undecodable(s, t) == {r \in s.rows[t] : ~r.decodes}
Unread(s) == {t \in Tables : Undecodable(s, t) # {}}

First(tables) ==
  Families[CHOOSE i \in 1 .. Len(Families) :
             /\ Families[i] \in tables
             /\ \A j \in 1 .. i - 1 : Families[j] \notin tables]

\* Mutant: a row set aside before under the same key is overwritten.
SetAside_Overwrites(s, t, r) ==
  LET set == [key |-> r.key, number |-> 1, value |-> r.value]
  IN  [Retract(s, t, r.key) EXCEPT !.aside[t] = {q \in @ : q.key # r.key} \union {set}]

SetAside(s, t, r) ==
  LET earlier == {q \in s.aside[t] : q.key = r.key}
      set     == [key |-> r.key, number |-> Cardinality(earlier) + 1, value |-> r.value]
  IN  [Retract(s, t, r.key) EXCEPT !.aside[t] = @ \union {set}]

-----------------------------------------------------------------------------
(* Rebuilding the configuration and the allocation.                        *)

BuiltIn == [desired |-> "BuiltIn", meta |-> FALSE]

\* Mutant: only the rows this very opening set aside are looked at.
ConfigurationSetAside_ByThisOpening(s, moved) == "configuration" \in moved

ConfigurationSetAside(s, moved) == s.aside["configuration"] # {}

LegacyState(s) == \E t \in Tables \ {"configuration"} : s.rows[t] # {}

\* The opening is refused: rows, and no configuration they were served with.
ConfigurationMissing(s, moved) ==
  s.rows["configuration"] = {} /\ LegacyState(s) /\ ~ConfigurationSetAside(s, moved)

EnsureConfiguration(s) ==
  IF s.rows["configuration"] # {} THEN s ELSE Put(s, "configuration", 0, BuiltIn)

\* Mutant: the identifiers of the jobs are not looked at.
EnsureAllocation_LiveOnly(s) ==
  IF s.rows["allocation"] # {} THEN s
  ELSE Put(s, "allocation", 0, [identifier |-> OneMoreThan(Keys(s, "live"), 1),
                                position   |-> OneMoreThan(Keys(s, "log"), 0)])

\* Neither the records nor the intents are looked at.  The third counter of the
\* allocation, the generation identifier, is rebuilt alike from the live set and
\* the jobs' generations and left out.
EnsureAllocation(s) ==
  IF s.rows["allocation"] # {} THEN s
  ELSE Put(s, "allocation", 0,
           [identifier |-> OneMoreThan(Keys(s, "live") \union Keys(s, "job"), 1),
            position   |-> OneMoreThan(Keys(s, "log"), 0)])

-----------------------------------------------------------------------------
(* Delivering transitions.  A transition is its deployment and 0 for the   *)
(* admission or 1 for the terminal; its outbox row has the same key.       *)

Unacknowledged(s) == {r.key : r \in {q \in s.rows["intent"] : q.value.state # "Acknowledged"}}

Earliest(transitions) ==
  CHOOSE k \in transitions :
    \A j \in transitions : k[1] < j[1] \/ (k[1] = j[1] /\ k[2] <= j[2])

Journalled(s, k, position) ==
  Has(s, "log", position) /\ Read(s, "log", position) = k

\* Why the next step of a delivery fails.
Obstacle(s, k) ==
  LET intent == Read(s, "intent", k)
  IN  IF intent.state = "Pending" /\ ~Has(s, "record", k[1]) THEN "RecordMissing"
      ELSE IF intent.state # "Pending" /\ ~Has(s, "outbox", k) THEN "OutboxMissing"
      ELSE IF /\ intent.state # "Pending" /\ Read(s, "outbox", k).state # "Pending"
              /\ Has(s, "log", intent.position) /\ ~Journalled(s, k, intent.position)
           THEN "PositionTaken"
      ELSE "none"

WithState(s, t, k, state) == Put(s, t, k, [Read(s, t, k) EXCEPT !.state = state])

Bind(s, k) ==
  Put(WithState(s, "intent", k, "Bound"), "outbox", k, [state |-> "Pending"])

Dispatch(s, k) == WithState(s, "outbox", k, "Dispatched")

AppendEvent(s, k) ==
  Put(WithState(s, "intent", k, "Appended"), "log", Read(s, "intent", k).position, k)

Acknowledge(s, k) ==
  LET acknowledged == WithState(WithState(s, "outbox", k, "Acknowledged"), "intent", k, "Acknowledged")
  IN  IF k[2] = 1 THEN Retract(acknowledged, "job", k[1]) ELSE acknowledged

\* The next commit of a delivery that meets no obstacle.
Deliver(s, k) ==
  LET intent == Read(s, "intent", k)
  IN  IF intent.state = "Pending" THEN Bind(s, k)
      ELSE IF Read(s, "outbox", k).state = "Pending" THEN Dispatch(s, k)
      ELSE IF intent.state = "Appended" /\ Journalled(s, k, intent.position)
      THEN Acknowledge(s, k)
      ELSE AppendEvent(s, k)

Requeue(s) ==
  [s EXCEPT !.rows["outbox"] =
     {IF r.value.state = "Dispatched" THEN [r EXCEPT !.value.state = "Pending"] ELSE r : r \in @}]

\* Every logged event without a delivery row gets one.
ReconcileOutbox(s) ==
  [s EXCEPT !.rows["outbox"] =
     @ \union {Row(r.value, [state |-> "Pending"]) :
                 r \in {q \in s.rows["log"] : ~Has(s, "outbox", q.value)}}]

-----------------------------------------------------------------------------
(* The process and its two openings.                                       *)

Opening == {"quarantine", "configuration", "allocation", "requeue", "intents", "outbox"}

\* The store the opening works on, and the step that changes it.
Opened == IF process.file = "probe" THEN probe ELSE real

Change(s) ==
  IF process.file = "probe" THEN probe' = s /\ UNCHANGED real
                            ELSE real' = s /\ UNCHANGED probe

GoTo(at) == process' = [process EXCEPT !.at = at]

\* The process exits; a probe that did not open is removed.
Refuse(error) ==
  /\ process' = [process EXCEPT !.at = "refused", !.error = error]
  /\ probe' = Fresh
  /\ UNCHANGED real

Start(pid) ==
  /\ process.at \in {"stopped", "refused"}
  /\ process' = [Stopped EXCEPT !.at = "open", !.pid = pid]
  /\ UNCHANGED <<real, probe, leftovers, upgrades, faults>>

ProbeName == <<process.pid, process.counter>>

Begin(file) ==
  process' = [process EXCEPT !.at = "quarantine", !.file = file, !.moved = {}]

\* A file that does not exist is opened, and so created, in place.
Create ==
  /\ process.at = "open" /\ ~real.exists
  /\ real' = [Fresh EXCEPT !.exists = TRUE, !.sidecars = real.sidecars]
  /\ Begin("real")
  /\ UNCHANGED <<probe, leftovers, upgrades, faults>>

\* Mutant: the store is opened in place at once.
Copy_InPlace ==
  /\ process.at = "open" /\ real.exists
  /\ Begin("real")
  /\ UNCHANGED <<real, probe, leftovers, upgrades, faults>>

Copy ==
  /\ process.at = "open" /\ real.exists /\ ProbeName \notin leftovers
  /\ probe' = real
  /\ Begin("probe")
  /\ UNCHANGED <<real, leftovers, upgrades, faults>>

\* The copy fails half way, and the probe file stays.
CopyFails ==
  /\ process.at = "open" /\ real.exists /\ ProbeName \notin leftovers /\ faults < MaxFaults
  /\ faults' = faults + 1
  /\ leftovers' = leftovers \union {ProbeName}
  /\ process' = [process EXCEPT !.at = "refused", !.error = "ProbeNotCopied"]
  /\ UNCHANGED <<real, probe, upgrades>>

\* The probe is created new or not at all.
NameTaken ==
  /\ process.at = "open" /\ real.exists /\ ProbeName \in leftovers
  /\ Refuse("ProbeNameTaken")
  /\ UNCHANGED <<leftovers, upgrades, faults>>

SetOneAside ==
  /\ process.at = "quarantine" /\ Opened.schema = "Current" /\ Unread(Opened) # {}
  /\ LET t == First(Unread(Opened)) IN
       \E r \in Undecodable(Opened, t) :
         /\ Change(SetAside(Opened, t, r))
         /\ process' = [process EXCEPT !.moved = @ \union {t}]
  /\ UNCHANGED <<leftovers, upgrades, faults>>

\* The database itself does not open under another schema version.
OtherSchema ==
  /\ process.at = "quarantine" /\ Opened.schema # "Current"
  /\ Refuse("SchemaVersion")
  /\ UNCHANGED <<leftovers, upgrades, faults>>

AllRead ==
  /\ process.at = "quarantine" /\ Opened.schema = "Current" /\ Unread(Opened) = {}
  /\ GoTo("configuration")
  /\ UNCHANGED <<real, probe, leftovers, upgrades, faults>>

Configured ==
  /\ process.at = "configuration"
  /\ IF ConfigurationMissing(Opened, process.moved)
       THEN Refuse("Unmigrated")
       ELSE Change(EnsureConfiguration(Opened)) /\ GoTo("allocation")
  /\ UNCHANGED <<leftovers, upgrades, faults>>

\* The validation that follows reads every family again and finds what the
\* quarantine left, and a configuration that was validated when it was written.
Allocated ==
  /\ process.at = "allocation"
  /\ Change(EnsureAllocation(Opened))
  /\ GoTo("requeue")
  /\ UNCHANGED <<leftovers, upgrades, faults>>

Requeued ==
  /\ process.at = "requeue"
  /\ Change(Requeue(Opened))
  /\ GoTo("intents")
  /\ UNCHANGED <<leftovers, upgrades, faults>>

\* One commit of the earliest transition that is not acknowledged.
Redelivered ==
  /\ process.at = "intents" /\ Unacknowledged(Opened) # {}
  /\ LET k == Earliest(Unacknowledged(Opened)) IN
       IF Obstacle(Opened, k) = "none"
         THEN Change(Deliver(Opened, k)) /\ UNCHANGED process
         ELSE Refuse(Obstacle(Opened, k))
  /\ UNCHANGED <<leftovers, upgrades, faults>>

AllDelivered ==
  /\ process.at = "intents" /\ Unacknowledged(Opened) = {}
  /\ GoTo("outbox")
  /\ UNCHANGED <<real, probe, leftovers, upgrades, faults>>

\* The probe opened: it is removed, and the store itself is opened.
ProbeOpened ==
  /\ process.at = "outbox" /\ process.file = "probe"
  /\ probe' = Fresh
  /\ process' = [process EXCEPT !.at = "quarantine", !.file = "real", !.moved = {},
                                !.counter = @ + 1]
  /\ UNCHANGED <<real, leftovers, upgrades, faults>>

\* The probe opened but its file cannot be removed: it stays, and the start fails.
ProbeNotRemoved ==
  /\ process.at = "outbox" /\ process.file = "probe" /\ faults < MaxFaults
  /\ faults' = faults + 1
  /\ leftovers' = leftovers \union {ProbeName}
  /\ Refuse("ProbeNotRemoved")
  /\ UNCHANGED upgrades

\* The first opening reads the configuration and closes, the second serves;
\* a reset ends with its only one.
StoreOpened ==
  /\ process.at = "outbox" /\ process.file = "real"
  /\ real' = ReconcileOutbox(real)
  /\ process' = IF process.resets THEN Stopped
                ELSE [process EXCEPT !.at = IF process.opened = 0 THEN "open" ELSE "serving",
                                     !.file = "none", !.opened = 1]
  /\ UNCHANGED <<probe, leftovers, upgrades, faults>>

-----------------------------------------------------------------------------
(* The operator's tools, run while the Nexus is stopped.                   *)

\* The configured store is a plain file with the catalog of a Lojix store.
Recognised(s) == s.exists /\ s.schema # "Foreign"

Resettable(s) == Recognised(s) /\ s.schema # "Current"

\* A store of the current schema is left as it is.
ResetStore(pid) ==
  /\ process.at = "stopped"
  /\ \/ /\ ~Recognised(real)
        /\ process' = [Stopped EXCEPT !.at = "refused", !.error = "NotResettable"]
        /\ UNCHANGED real
     \/ /\ Resettable(real)
        /\ process' = [Stopped EXCEPT !.at = "sidecars", !.pid = pid, !.resets = TRUE]
        /\ real' = [Fresh EXCEPT !.sidecars = real.sidecars]
  /\ UNCHANGED <<probe, leftovers, upgrades, faults>>

RemoveSidecars ==
  /\ process.at = "sidecars"
  /\ real' = [real EXCEPT !.sidecars = FALSE]
  /\ GoTo("open")
  /\ UNCHANGED <<probe, leftovers, upgrades, faults>>

\* The migration opens a copy, seeded with the archived configuration, and the
\* operator puts the copy in the place of its source.
Migrate ==
  /\ process.at = "stopped" /\ real.exists /\ real.schema = "Current"
  /\ real.rows["configuration"] = {} /\ Unread(real) = {}
  /\ real' = EnsureAllocation(Put(real, "configuration", 0, [desired |-> "Archived", meta |-> FALSE]))
  /\ UNCHANGED <<probe, leftovers, process, upgrades, faults>>

-----------------------------------------------------------------------------
(* What the serving Nexus writes.                                          *)

Serve(s) ==
  /\ process.at = "serving"
  /\ real' = s
  /\ UNCHANGED <<probe, leftovers, process, upgrades, faults>>

Settled(d) == \A k \in Unacknowledged(real) : k[1] # d

\* An open record and a cursor: the pipeline of the deployment runs.
UnderWay(d) ==
  /\ Has(real, "job", d) /\ Has(real, "record", d) /\ Read(real, "record", d) = "Open"
  /\ Settled(d)

\* The assertion of a key that exists fails and nothing is written.
Submit ==
  LET next == Only(real, "allocation")
      d    == next.identifier
  IN  /\ process.at = "serving" /\ d <= MaxIdentifier
      /\ ~Has(real, "record", d) /\ ~Has(real, "job", d) /\ ~Has(real, "intent", <<d, 0>>)
      /\ Serve(Put(Put(Put(Put(real, "allocation", 0,
                               [identifier |-> d + 1, position |-> next.position + 1]),
                           "record", d, "Open"),
                       "job", d, "Held"),
                   "intent", <<d, 0>>, [position |-> next.position, state |-> "Pending"]))

\* The admission or the pipeline takes the next step of its own transition.
Advance(k) ==
  /\ k \in Unacknowledged(real) /\ Obstacle(real, k) = "none"
  /\ Serve(Deliver(real, k))

Activate(d) ==
  /\ UnderWay(d) /\ ~Has(real, "live", d)
  /\ Serve(Put(real, "live", d, "Deployed"))

Conclude(d) ==
  /\ UnderWay(d) /\ ~Has(real, "intent", <<d, 1>>)
  /\ LET next == Only(real, "allocation") IN
       Serve(Put(Put(Put(real, "allocation", 0, [next EXCEPT !.position = @ + 1]),
                     "record", d, "Terminal"),
                 "intent", <<d, 1>>, [position |-> next.position, state |-> "Pending"]))

\* The ordinary configuration is closed once the meta one was set.
OrdinaryConfigure ==
  /\ process.at = "serving" /\ ~Only(real, "configuration").meta
  /\ Serve(Put(real, "configuration", 0, [desired |-> "Ordinary", meta |-> FALSE]))

MetaConfigure ==
  Serve(Put(real, "configuration", 0, [desired |-> "Meta", meta |-> TRUE]))

\* The desired configuration stays, and the ordinary one may be set again.
MetaReverse ==
  /\ process.at = "serving"
  /\ Serve(Put(real, "configuration", 0, [Only(real, "configuration") EXCEPT !.meta = FALSE]))

-----------------------------------------------------------------------------
(* The environment.                                                        *)

\* The probe a crash finds open stays on the disk.
Crash ==
  /\ process.at \notin {"stopped", "refused"} /\ faults < MaxFaults
  /\ faults' = faults + 1
  /\ leftovers' = IF process.file = "probe" THEN leftovers \union {ProbeName} ELSE leftovers
  /\ probe' = Fresh
  /\ process' = Stopped
  /\ UNCHANGED <<real, upgrades>>

\* A schema change: the rows stored so far in some families no longer decode.
Upgrade(schema) ==
  /\ process.at = "stopped" /\ real.exists /\ upgrades < MaxUpgrades
  /\ upgrades' = upgrades + 1
  /\ real' = [real EXCEPT !.rows =
               [t \in Tables |-> IF t \in schema
                                  THEN {[r EXCEPT !.decodes = FALSE] : r \in real.rows[t]}
                                  ELSE real.rows[t]]]
  /\ UNCHANGED <<probe, leftovers, process, faults>>

\* The service manager stops the Nexus, a serving one or a refused one.
Stop ==
  /\ process.at \in {"serving", "refused"}
  /\ process' = Stopped
  /\ UNCHANGED <<real, probe, leftovers, upgrades, faults>>

Next ==
  \/ \E pid \in Pids : Start(pid)
  \/ Create \/ Copy \/ CopyFails \/ NameTaken
  \/ \E pid \in Pids : ResetStore(pid)
  \/ RemoveSidecars \/ Migrate
  \/ OtherSchema \/ SetOneAside \/ AllRead \/ Configured \/ Allocated \/ Requeued
  \/ Redelivered \/ AllDelivered \/ ProbeOpened \/ ProbeNotRemoved \/ StoreOpened
  \/ Submit
  \/ \E k \in Keys(real, "intent") : Advance(k)
  \/ \E d \in 1 .. MaxIdentifier : Activate(d) \/ Conclude(d)
  \/ OrdinaryConfigure \/ MetaConfigure \/ MetaReverse
  \/ Crash \/ Stop
  \/ \E schema \in Schemas : Upgrade(schema)

Spec == Init /\ [][Next]_vars

-----------------------------------------------------------------------------
(* Properties.                                                             *)

\* Every table holds one row per key, the configuration and the allocation one.
TypeOK ==
  /\ {real.exists, probe.exists} \subseteq BOOLEAN
  /\ \A s \in {real, probe}, t \in Tables : \A r, q \in s.rows[t] : r.key = q.key => r = q
  /\ process.at \in Opening \union {"stopped", "sidecars", "open", "serving", "refused"}

\* A row of this table was set aside, or is about to be.
Lost(t) == real.aside[t] # {} \/ Undecodable(real, t) # {}

\* The store of the earlier release, whatever a schema change made of it.
AsMigrationFindsIt ==
  real.aside = NoRows /\ \A t \in Tables : Keys(real, t) = Keys(Unmigrated, t)

\* A transition under way misses a row it needs, in a store that lost one to a
\* schema change: its record, its delivery row or, by a rebuilt allocation, its
\* position.
RowErrors == {"RecordMissing", "OutboxMissing", "PositionTaken"}
RefusedForARow ==
  process.error \in RowErrors /\ \E t \in {"record", "outbox", "allocation"} : Lost(t)

\* But for those, a store is refused for a documented cause only: it has another
\* schema or was never migrated, its copy failed, or a probe stays or was left
\* behind.  No transition of a store that kept its records, delivery rows and
\* allocation is one, wherever and however often earlier openings were cut short
\* and whatever else a schema change took (open_unchecked,
\* ensure_nexus_configuration).
RefusedForCause ==
  process.at = "refused" /\ ~RefusedForARow =>
    \/ process.error \in {"ProbeNotCopied", "ProbeNotRemoved"}
    \/ process.error = "ProbeNameTaken" /\ ProbeName \in leftovers
    \/ process.error = "Unmigrated" /\ AsMigrationFindsIt
    \/ process.error \in {"SchemaVersion", "NotResettable"} /\ real.schema # "Current"
    \/ process.error = "NotResettable" /\ ~real.exists

\* What the code says and does not keep: no row that a schema change made
\* unreadable stops the Nexus (quarantine.rs, the comment of the module).
NoRowRefusesTheStore == process.at = "refused" => ~RefusedForARow

\* A store that is refused was refused on its probe: the file is what it was
\* before the Nexus touched it (open_with_default_configuration).
RefusedOnTheProbe ==
  process.at = "refused" => process.file # "real"

\* What a served store allocates next is free: no live generation and no job
\* has the identifier or a later one; and unless the allocation was once set
\* aside and rebuilt, no record and no transition has it, and no event and no
\* transition has the event position (ensure_identifier_allocation).
NextIsFree ==
  process.at = "serving" =>
    LET next == Only(real, "allocation") IN
      /\ \A d \in Keys(real, "live") \union Keys(real, "job") : d < next.identifier
      /\ real.aside["allocation"] = {} =>
           /\ \A d \in Keys(real, "record") : d < next.identifier
           /\ \A r \in real.rows["intent"] : r.key[1] < next.identifier
                                             /\ r.value.position < next.position
           /\ \A p \in Keys(real, "log") : p < next.position

\* A step of an opening.
LosesNothing ==
  process.at \in Opening =>
    \A t \in Tables :
      /\ real.aside[t] \subseteq real'.aside[t]
      /\ \A r \in real.rows[t] :
           \/ Has(real', t, r.key)
           \/ \E q \in real'.aside[t] \ real.aside[t] : q.key = r.key /\ q.value = r.value
           \/ t = "job" /\ Read(real', "intent", <<r.key, 1>>).state = "Acknowledged"

\* Opening a store loses nothing: every row it does not serve is among the
\* rows set aside, as it was, and those only grow.  Only the cursor of a
\* deployment whose terminal is reported goes (quarantine_undecodable).
OpeningLosesNothing == [][LosesNothing]_vars
=============================================================================
