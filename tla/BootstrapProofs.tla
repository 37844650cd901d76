---------------------------- MODULE BootstrapProofs ----------------------------
(***************************************************************************)
(* Proofs about Bootstrap, for any requests and any number of deaths of    *)
(* the process, reboots of the target and polls of its unit.               *)
(*                                                                         *)
(* The inductive invariant ties the place of the process to what is on     *)
(* disk.  RootedBeforeActivation alone is not inductive, because the unit  *)
(* is started from a place, and nothing in it says that a run at that      *)
(* place has passed the root stage: RootInv adds that.  StatusInv says     *)
(* where a run with a status can be, so that no other effect follows one;  *)
(* DoneInv that a run on its way to an effect has not got it behind it;    *)
(* UnitInv what the script leaves line by line; ArmedInv which places only *)
(* a run that saw the unit finish can be at.                               *)
(***************************************************************************)
EXTENDS Bootstrap, TLAPS

-----------------------------------------------------------------------------
(* Types. *)

ProcessType ==
    [running : BOOLEAN, stage : StageNames, at : Steps, writes : Nat, polls : Nat,
     sawEvidence : BOOLEAN]

JournalType ==
    [directory : {"Absent", "Bare", "Open"}, events : SUBSET Events,
     closure : BOOLEAN, overrides : BOOLEAN, rootReceipt : BOOLEAN,
     terminal : Statuses \cup {"None"}]

EvidenceType ==
    [status : Statuses \cup {"None"},
     effects : SUBSET ((StageNames \cup {"JournalCreated"}) \X BOOLEAN)]

FilesType ==
    [generated : BOOLEAN, staging : BOOLEAN, root : {"None", "Closure", "Foreign"},
     sshConfig : {"None", "Full", "WrongMode", "Empty"}, evidence : SUBSET EvidenceType]

Systems == {"Old", "New"}

TargetType ==
    [closure : BOOLEAN, unit : {"NotFound", "Waiting", "Ready", "Failed"}, line : Nat,
     old : Systems, profile : Systems, loader : Systems,
     default : Systems \cup {"None"}, oneshot : Systems \cup {"None"}, running : Systems]

Typed ==
    /\ request \in Requests
    /\ process \in ProcessType
    /\ journal \in JournalType
    /\ files \in FilesType
    /\ target \in TargetType

\* The names of the stages, and what follows each of them.
LEMMA StageFacts ==
    /\ StageNames = {"Materialized", "Tested", "Built", "GcRooted", "Copied",
                     "BootOnceScheduled", "BootOnceActivated", "TerminalEvidenceWritten"}
    /\ Following("Materialized") = "Tested" /\ Following("Tested") = "Built"
    /\ Following("Built") = "GcRooted" /\ Following("GcRooted") = "Copied"
    /\ Following("Copied") = "BootOnceScheduled"
    /\ Following("BootOnceScheduled") = "BootOnceActivated"
    /\ Following("BootOnceActivated") = "TerminalEvidenceWritten"
<1>1. DOMAIN Stages = 1 .. 8
  BY DEF Stages
<1>2. /\ Stages[1] = "Materialized" /\ Stages[2] = "Tested" /\ Stages[3] = "Built"
      /\ Stages[4] = "GcRooted" /\ Stages[5] = "Copied" /\ Stages[6] = "BootOnceScheduled"
      /\ Stages[7] = "BootOnceActivated" /\ Stages[8] = "TerminalEvidenceWritten"
  BY DEF Stages
<1>3. \A i \in 1 .. 8 : i \in {1, 2, 3, 4, 5, 6, 7, 8}
  OBVIOUS
<1>4. StageNames = {"Materialized", "Tested", "Built", "GcRooted", "Copied",
                     "BootOnceScheduled", "BootOnceActivated", "TerminalEvidenceWritten"}
  BY <1>1, <1>2, <1>3 DEF StageNames
<1>5. \A k \in 1 .. 8 : Position(Stages[k]) = k
  BY <1>1, <1>2, <1>3 DEF Position
<1> QED BY <1>1, <1>2, <1>4, <1>5 DEF Following

\* A stage that has a successor has it among the stages.
LEMMA FollowingIsStage ==
  ASSUME NEW s \in StageNames, s # "TerminalEvidenceWritten"
  PROVE  Following(s) \in StageNames
BY StageFacts

\* Where the steps send the process is a place of the process.
LEMMA PlacesTyped ==
  ASSUME process \in ProcessType
  PROVE  /\ NoProcess \in ProcessType
         /\ \A step \in Steps : Here(step) \in ProcessType
         /\ \A step \in Steps, s \in StageNames : To(s, step) \in ProcessType
         /\ \A terminal : Opened(terminal) \in ProcessType
<1>1. NoProcess \in ProcessType
  BY StageFacts DEF NoProcess, ProcessType, Steps
<1>2. \A step \in Steps, s \in StageNames : To(s, step) \in ProcessType
  BY DEF To, ProcessType
<1>3. \A step \in Steps : Here(step) = To(process.stage, step) /\ process.stage \in StageNames
  BY DEF Here, ProcessType
<1>4. \A terminal : Opened(terminal) \in ProcessType
  BY <1>2, StageFacts DEF Opened, Steps
<1> QED BY <1>1, <1>2, <1>3, <1>4

\* Which stage and step these places are.
LEMMA PlaceFields ==
  ASSUME process \in ProcessType
  PROVE  /\ \A s, step : /\ To(s, step).stage = s /\ To(s, step).at = step
                         /\ To(s, step).running = process.running
         /\ \A step : /\ Here(step).stage = process.stage /\ Here(step).at = step
                      /\ Here(step).running = process.running
         /\ \A terminal :
              /\ Opened(terminal).at = "Enter"
              /\ Opened(terminal).stage =
                   IF terminal = "None" THEN "Materialized" ELSE "TerminalEvidenceWritten"
         /\ ~NoProcess.running
<1>1. \A s, step : /\ To(s, step).stage = s /\ To(s, step).at = step
                  /\ To(s, step).running = process.running
  BY DEF To, ProcessType
<1> QED BY <1>1 DEF Here, Opened, NoProcess

\* What an opened journal makes the process.
LEMMA BeginFields ==
  ASSUME Typed, Begin, process'.running
  PROVE  /\ ~process.running
         /\ \/ /\ process'.at = "Create" /\ process'.stage = "Materialized"
               /\ journal.directory = "Absent"
            \/ /\ process'.at = "Enter"
               /\ process'.stage =
                    IF journal.terminal = "None" THEN "Materialized" ELSE "TerminalEvidenceWritten"
<1>1. ~process.running /\ Opened(journal.terminal) \in ProcessType
  BY PlacesTyped DEF Typed, Begin
<1>2. process' # NoProcess
  BY DEF NoProcess
<1>3. \/ /\ journal.directory = "Absent"
         /\ process' = [NoProcess EXCEPT !.running = TRUE, !.at = "Create"]
      \/ process' = [Opened(journal.terminal) EXCEPT !.running = TRUE, !.writes = 0, !.polls = 0,
                                                     !.sawEvidence = files.evidence # {}]
  BY <1>2 DEF Begin, End
<1>4. CASE /\ journal.directory = "Absent"
           /\ process' = [NoProcess EXCEPT !.running = TRUE, !.at = "Create"]
  BY <1>1, <1>4 DEF NoProcess
<1>5. CASE process' = [Opened(journal.terminal) EXCEPT !.running = TRUE, !.writes = 0, !.polls = 0,
                                                       !.sawEvidence = files.evidence # {}]
  <2>1. /\ process'.at = Opened(journal.terminal).at
        /\ process'.stage = Opened(journal.terminal).stage
    BY <1>1, <1>5 DEF ProcessType
  <2> QED BY <1>1, <2>1, PlaceFields DEF Typed
<1> QED BY <1>3, <1>4, <1>5

\* Where a stage is entered or passed over.
LEMMA EnterMoves ==
  ASSUME process \in ProcessType, Enter, process'.running
  PROVE  /\ process.running /\ process.stage # "TerminalEvidenceWritten"
         /\ \/ /\ process'.at = "Intent" /\ process'.stage = process.stage
               /\ ~Passed(process.stage)
            \/ process'.at = "Enter" /\ process'.stage = Following(process.stage)
<1>1. /\ process.running /\ process.stage # "TerminalEvidenceWritten"
      /\ \/ process' = Here("Intent") /\ ~Passed(process.stage)
         \/ process' = To(Following(process.stage), "Enter")
         \/ process' = NoProcess
  BY DEF Enter, GoOn, End
<1>2. CASE process' = Here("Intent") /\ ~Passed(process.stage)
  <2>1. process'.at = "Intent" /\ process'.stage = process.stage
    BY <1>2, PlaceFields
  <2> QED BY <1>1, <1>2, <2>1
<1>3. CASE process' = To(Following(process.stage), "Enter")
  <2>1. process'.at = "Enter" /\ process'.stage = Following(process.stage)
    BY <1>3, PlaceFields
  <2> QED BY <1>1, <2>1
<1>4. CASE process' = NoProcess
  BY <1>4, PlaceFields
<1> QED BY <1>1, <1>2, <1>3, <1>4

\* Where the last stage is entered.
LEMMA EnterEvidenceMoves ==
  ASSUME process \in ProcessType, EnterEvidence, process'.running
  PROVE  /\ process'.stage = "TerminalEvidenceWritten"
         /\ \/ process'.at = "Status" /\ journal.terminal = "None"
            \/ /\ process'.at = "Intent" /\ journal.terminal # "None"
               /\ ~SucceededAt("TerminalEvidenceWritten")
<1>1. /\ process.stage = "TerminalEvidenceWritten"
      /\ \/ process' = Here("Status") /\ journal.terminal = "None"
         \/ /\ process' = Here("Intent") /\ journal.terminal # "None"
            /\ ~SucceededAt("TerminalEvidenceWritten")
         \/ process' = NoProcess
  BY DEF EnterEvidence, At, GoOn, End
<1> QED BY <1>1, PlaceFields

\* Every event a step records is one.
LEMMA RecordedTyped ==
  ASSUME Typed, NEW kind \in Kinds, NEW succeeded \in BOOLEAN
  PROVE  Recorded(process.stage, kind, succeeded) \in JournalType
<1>1. <<process.stage, kind, succeeded>> \in Events
  BY DEF Typed, ProcessType, Events
<1> QED BY <1>1 DEF Typed, JournalType, Recorded

\* A journal write keeps the types.
LEMMA WriteTyped ==
  ASSUME NEW contents \in JournalType, NEW place \in ProcessType, Write(contents, place)
  PROVE  journal' \in JournalType /\ process' \in ProcessType
BY BootstrapBounds DEF BootstrapBounds, Write, GoOn, ProcessType

\* A journal write puts the contents in place and moves the process.
LEMMA WriteFields ==
  ASSUME NEW contents, NEW place \in ProcessType, Write(contents, place)
  PROVE  /\ journal' = contents
         /\ process'.stage = place.stage /\ process'.at = place.at
         /\ process'.running = place.running
BY DEF Write, GoOn, ProcessType

\* The same for a write that stays in its stage.
LEMMA WriteHere ==
  ASSUME process \in ProcessType, NEW contents, NEW step \in Steps, Write(contents, Here(step))
  PROVE  /\ journal' = contents
         /\ process'.stage = process.stage /\ process'.at = step
         /\ process'.running = process.running
<1>1. Here(step) \in ProcessType
  BY PlacesTyped
<1>2. /\ journal' = contents
      /\ process'.stage = Here(step).stage /\ process'.at = Here(step).at
      /\ process'.running = Here(step).running
  BY <1>1, WriteFields
<1> QED BY <1>2, PlaceFields

\* The same for a write that goes to another stage.
LEMMA WriteTo ==
  ASSUME process \in ProcessType, NEW contents, NEW step \in Steps, NEW s \in StageNames,
         Write(contents, To(s, step))
  PROVE  /\ journal' = contents
         /\ process'.stage = s /\ process'.at = step
         /\ process'.running = process.running
<1>1. To(s, step) \in ProcessType
  BY PlacesTyped
<1>2. /\ journal' = contents
      /\ process'.stage = To(s, step).stage /\ process'.at = To(s, step).at
      /\ process'.running = To(s, step).running
  BY <1>1, WriteFields
<1> QED BY <1>2, PlaceFields

\* The steps that only write the journal.
JournalStep ==
    \/ WriteFirstState \/ WriteIntent \/ WriteRecord \/ WriteReceipt \/ WriteOutcome
    \/ WriteFailedOutcome \/ WriteFailedStatus \/ WriteStatus

\* Where each write of the journal leads.
LEMMA JournalMoves ==
  ASSUME Typed, JournalStep
  PROVE  /\ process.running
         /\ \/ process.at = "Create" /\ process'.stage = "Materialized" /\ process'.at = "Enter"
            \/ /\ process'.stage = process.stage
               /\ \/ process.at = "Intent" /\ process'.at = "Effect"
                  \/ process.at = "Record" /\ process'.at = "Receipt"
                  \/ process.at = "Receipt" /\ process'.at = "Outcome"
                  \/ process.at = "FailedOutcome" /\ process'.at = "FailedStatus"
            \/ /\ process.at = "Outcome" /\ process'.at = "Enter"
               /\ IF process.stage = "TerminalEvidenceWritten" THEN process'.stage = process.stage
                  ELSE process'.stage = Following(process.stage)
            \/ /\ process.at = "FailedStatus" /\ process'.at = "Enter"
               /\ process'.stage = "TerminalEvidenceWritten"
            \/ /\ process.at = "Status" /\ process'.at = "Enter"
               /\ process.stage = "TerminalEvidenceWritten" /\ process'.stage = process.stage
<1> USE DEF WriteSteps, Steps
<1>1. process \in ProcessType
  BY DEF Typed
<1>2. CASE WriteFirstState
  BY <1>1, <1>2, WriteFields, PlacesTyped, PlaceFields DEF WriteFirstState
<1>3. CASE WriteIntent
  BY <1>1, <1>3, WriteHere DEF WriteIntent
<1>4. CASE WriteRecord
  BY <1>1, <1>4, WriteHere DEF WriteRecord
<1>5. CASE WriteReceipt
  BY <1>1, <1>5, WriteHere DEF WriteReceipt
<1>6. CASE WriteOutcome
  <2>1. CASE process.stage = "TerminalEvidenceWritten"
    BY <1>1, <1>6, <2>1, WriteHere DEF WriteOutcome
  <2>2. CASE process.stage # "TerminalEvidenceWritten"
    <3>1. Following(process.stage) \in StageNames
      BY <1>1, <2>2, FollowingIsStage DEF ProcessType
    <3> QED BY <1>1, <1>6, <2>2, <3>1, WriteTo DEF WriteOutcome
  <2> QED BY <2>1, <2>2
<1>7. CASE WriteFailedOutcome
  BY <1>1, <1>7, WriteHere DEF WriteFailedOutcome
<1>8. CASE WriteFailedStatus
  BY <1>1, <1>8, WriteTo, StageFacts DEF WriteFailedStatus
<1>9. CASE WriteStatus
  BY <1>1, <1>9, WriteHere DEF WriteStatus, At
<1> QED BY <1>2, <1>3, <1>4, <1>5, <1>6, <1>7, <1>8, <1>9 DEF JournalStep

\* The journal writes keep the types.
LEMMA JournalStepTyped == ASSUME Typed, JournalStep PROVE Typed'
<1>1. /\ UNCHANGED <<files, target, request>>
      /\ process \in ProcessType
  BY DEF JournalStep, WriteFirstState, WriteIntent, WriteRecord, WriteReceipt, WriteOutcome,
         WriteFailedOutcome, WriteFailedStatus, WriteStatus, Idle, Typed
<1> SUFFICES journal' \in JournalType /\ process' \in ProcessType
  BY <1>1 DEF Typed
<1>2. CASE WriteFirstState
  <2>1. FreshJournal \in JournalType
    <3>1. <<"JournalCreated", "Outcome", TRUE>> \in Events
      BY DEF Events
    <3> QED BY <3>1 DEF FreshJournal, JournalType
  <2> QED BY <1>1, <1>2, <2>1, PlacesTyped, WriteTyped DEF WriteFirstState
<1>3. CASE WriteIntent
  BY <1>1, <1>3, PlacesTyped, WriteTyped, RecordedTyped DEF WriteIntent, Steps, Kinds
<1>4. CASE WriteRecord
  <2>1. /\ [journal EXCEPT !.overrides = TRUE] \in JournalType
        /\ [journal EXCEPT !.closure = TRUE] \in JournalType
        /\ [journal EXCEPT !.rootReceipt = TRUE] \in JournalType
    BY DEF Typed, JournalType
  <2> QED BY <1>1, <1>4, <2>1, PlacesTyped, WriteTyped DEF WriteRecord, Steps, WriteSteps
<1>5. CASE WriteReceipt
  BY <1>1, <1>5, PlacesTyped, WriteTyped, RecordedTyped DEF WriteReceipt, Steps, WriteSteps, Kinds
<1>6. CASE WriteOutcome
  <2>1. IF process.stage = "TerminalEvidenceWritten" THEN Here("Enter") \in ProcessType
        ELSE To(Following(process.stage), "Enter") \in ProcessType
    BY <1>1, PlacesTyped, FollowingIsStage DEF Steps, ProcessType
  <2> QED BY <1>1, <1>6, <2>1, WriteTyped, RecordedTyped DEF WriteOutcome, Kinds
<1>7. CASE WriteFailedOutcome
  BY <1>1, <1>7, PlacesTyped, WriteTyped, RecordedTyped
     DEF WriteFailedOutcome, Steps, WriteSteps, Kinds
<1>8. CASE WriteFailedStatus
  <2>1. [journal EXCEPT !.terminal = "Failed"] \in JournalType
    BY DEF Typed, JournalType, Statuses
  <2> QED BY <1>1, <1>8, <2>1, PlacesTyped, WriteTyped, StageFacts DEF WriteFailedStatus, Steps
<1>9. CASE WriteStatus
  <2>1. [journal EXCEPT !.terminal = "Succeeded"] \in JournalType
    BY DEF Typed, JournalType, Statuses
  <2> QED BY <1>1, <1>9, <2>1, PlacesTyped, WriteTyped DEF WriteStatus, Steps
<1> QED BY <1>2, <1>3, <1>4, <1>5, <1>6, <1>7, <1>8, <1>9 DEF JournalStep

\* What a run changes on the target: it holds the closure, or knows the unit.
LEMMA TargetChangesTyped ==
  ASSUME Typed
  PROVE  /\ UnitStarted \in TargetType
         /\ \A held \in BOOLEAN : [target EXCEPT !.closure = held] \in TargetType
         /\ [target EXCEPT !.closure = @ \/ request.mode = "Local"] \in TargetType
<1>1. UnitStarted \in TargetType
  BY DEF UnitStarted, Typed, TargetType
<1>2. \A held \in BOOLEAN : [target EXCEPT !.closure = held] \in TargetType
  BY DEF Typed, TargetType
<1>3. (target.closure \/ request.mode = "Local") \in BOOLEAN
  OBVIOUS
<1> QED BY <1>1, <1>2, <1>3

\* The steps that issue an effect.
EffectStep ==
    \/ Materialize \/ RunTest \/ Build \/ StageRoot \/ LinkRoot \/ UnlinkStaging
    \/ Copy \/ Dispatch \/ Poll \/ WriteEvidence

\* Where an effect leads: on within its stage, or to the end of the run.
LEMMA EffectMoves ==
  ASSUME Typed, EffectStep
  PROVE  /\ process.running
         /\ process'.running =>
              /\ process'.stage = process.stage
              /\ process'.at \in {"Effect", "Link", "Unlink", "Record", "Receipt", "FailedOutcome"}
              /\ process'.at = "Effect" => process.at = "Effect"
              /\ process.stage = "TerminalEvidenceWritten" => process'.at = "Receipt"
<1> DEFINE Places == {Here(step) : step \in {"Link", "Unlink", "Record", "Receipt", "FailedOutcome"}}
<1>1. process \in ProcessType
  BY DEF Typed
<1>2. process.running
  BY DEF EffectStep, Materialize, RunTest, Build, StageRoot, LinkRoot, UnlinkStaging, Copy, Dispatch,
     Poll, WriteEvidence, At
<1>3. \/ process' = NoProcess \/ process' \in Places
      \/ /\ At("BootOnceActivated", "Effect")
         /\ process' = [process EXCEPT !.polls = @ + 1]
  <2>1. CASE Materialize \/ RunTest \/ Build
    BY <2>1 DEF Materialize, RunTest, Build, Fails, GoOn
  <2>2. CASE StageRoot \/ LinkRoot \/ UnlinkStaging
    BY <2>2 DEF StageRoot, LinkRoot, UnlinkStaging, HandOver, Fails, GoOn, End
  <2>3. CASE Copy \/ Dispatch
    BY <2>3 DEF Copy, Dispatch, Fails, GoOn, End
  <2>4. CASE Poll
    BY <2>4 DEF Poll, PolledAgain, Fails, GoOn, End
  <2>5. CASE WriteEvidence
    BY <2>5 DEF WriteEvidence, GoOn, End
  <2> QED BY <2>1, <2>2, <2>3, <2>4, <2>5 DEF EffectStep
<1>4. process.stage = "TerminalEvidenceWritten" => process' = NoProcess \/ process' = Here("Receipt")
  <2>1. process.stage = "TerminalEvidenceWritten" => WriteEvidence
    BY DEF EffectStep, Materialize, RunTest, Build, StageRoot, LinkRoot, UnlinkStaging, Copy,
       Dispatch, Poll, At
  <2> QED BY <2>1 DEF WriteEvidence, GoOn, End
<1>5. CASE process' \in Places
  <2>1. PICK step \in {"Link", "Unlink", "Record", "Receipt", "FailedOutcome"} : process' = Here(step)
    BY <1>5
  <2>2. process'.stage = process.stage /\ process'.at = step
    BY <1>1, <2>1, PlaceFields
  <2>3. process.stage = "TerminalEvidenceWritten" /\ process'.running => process'.at = "Receipt"
    BY <1>1, <1>4, PlaceFields
  <2> QED BY <1>2, <2>2, <2>3
<1>6. CASE At("BootOnceActivated", "Effect") /\ process' = [process EXCEPT !.polls = @ + 1]
  BY <1>1, <1>2, <1>6 DEF At, ProcessType
<1> QED BY <1>1, <1>2, <1>3, <1>5, <1>6, PlaceFields

\* The effects keep the types.
LEMMA EffectStepTyped == ASSUME Typed, EffectStep PROVE Typed'
<1>1. UNCHANGED <<journal, request>>
  BY DEF EffectStep, Materialize, RunTest, Build, StageRoot, LinkRoot, UnlinkStaging,
         Copy, Dispatch, Poll, WriteEvidence, Keeps
<1>2. process' \in ProcessType
  <2>1. CASE Poll
    <3>1. \A place \in PolledAgain : place \in ProcessType
      BY DEF PolledAgain, Typed, ProcessType
    <3> QED BY <2>1, <3>1, PlacesTyped DEF Poll, End, GoOn, Fails, Typed, Steps, WriteSteps
  <2>2. CASE ~Poll
    BY <2>2, PlacesTyped
       DEF EffectStep, Materialize, RunTest, Build, StageRoot, LinkRoot, UnlinkStaging,
           Copy, Dispatch, WriteEvidence, End, GoOn, Fails, HandOver, Typed, Steps, WriteSteps
  <2> QED BY <2>1, <2>2
<1>3. files' \in FilesType
  <2>1. CASE WriteEvidence
    <3>1. EvidenceOf({<<e[1], e[3]>> : e \in {x \in journal.events : x[2] = "Outcome"}})
             \in EvidenceType
      <4>1. \A e \in Events :
               <<e[1], e[3]>> \in (StageNames \cup {"JournalCreated"}) \X BOOLEAN
        BY DEF Events
      <4>2. journal.events \subseteq Events /\ journal.terminal \in Statuses \cup {"None"}
        BY DEF Typed, JournalType
      <4> QED BY <4>1, <4>2 DEF EvidenceOf, EvidenceType
    <3> QED BY <2>1, <3>1 DEF WriteEvidence, NewEvidence, Typed, FilesType
  <2>2. CASE ~WriteEvidence
    BY <2>2
       DEF EffectStep, Materialize, RunTest, Build, StageRoot, LinkRoot, UnlinkStaging,
           Copy, Dispatch, Poll, GeneratedInputs, Typed, FilesType
  <2> QED BY <2>1, <2>2
<1>4. target' \in TargetType
  BY TargetChangesTyped
     DEF EffectStep, Materialize, RunTest, Build, StageRoot, LinkRoot, UnlinkStaging,
         Copy, Dispatch, Poll, WriteEvidence, Typed
<1> QED BY <1>1, <1>2, <1>3, <1>4 DEF Typed

\* A death of the process keeps the types.
LEMMA CrashTyped == ASSUME Typed, Crash PROVE Typed'
<1>1. files' \in FilesType
  BY DEF Crash, Leftovers, GeneratedInputs, Typed, FilesType
<1>2. target' \in TargetType
  BY TargetChangesTyped DEF Crash, Leftovers, Typed
<1> QED BY <1>1, <1>2, PlacesTyped DEF Crash, End, Typed

\* The target's own steps.
LEMMA TargetTyped == ASSUME Typed, Target \/ Reboot PROVE Typed'
<1>1. UNCHANGED <<request, process, journal, files>>
  BY DEF Target, Reboot, durable
<1>2. target' \in TargetType
  <2>1. CASE UnitLine
    BY <2>1 DEF UnitLine, Typed, TargetType, Systems
  <2>2. CASE UnitFails \/ Collect
    BY <2>2 DEF UnitFails, Collect, Typed, TargetType
  <2>3. CASE Reboot
    BY <2>3 DEF Reboot, NextBoot, Typed, TargetType, Systems
  <2> QED BY <2>1, <2>2, <2>3 DEF Target
<1> QED BY <1>1, <1>2 DEF Typed

\* The steps between, which issue no effect and write no journal.
LEMMA PassingTyped ==
  ASSUME Typed, Begin \/ Enter \/ EnterEvidence \/ BlockedWrite
  PROVE  Typed'
<1>1. request' = request /\ target' = target
  BY DEF Begin, Enter, EnterEvidence, BlockedWrite, Idle
<1>2. files' \in FilesType
  BY DEF Begin, Enter, EnterEvidence, BlockedWrite, Idle, SshConfigured, Typed, FilesType
<1>3. journal' \in JournalType
  BY DEF Begin, Enter, EnterEvidence, BlockedWrite, Typed, JournalType
<1>4. process' \in ProcessType
  <2>1. CASE Begin
    <3>1. [Opened(journal.terminal) EXCEPT !.running = TRUE, !.writes = 0, !.polls = 0,
                                           !.sawEvidence = files.evidence # {}] \in ProcessType
      <4>1. Opened(journal.terminal) \in ProcessType /\ (files.evidence # {}) \in BOOLEAN
        BY PlacesTyped DEF Typed
      <4> QED BY <4>1 DEF ProcessType
    <3>2. [NoProcess EXCEPT !.running = TRUE, !.at = "Create"] \in ProcessType
      <4>1. NoProcess \in ProcessType /\ "Create" \in Steps
        BY PlacesTyped DEF Typed, Steps, WriteSteps
      <4> QED BY <4>1 DEF ProcessType
    <3> QED BY <2>1, <3>1, <3>2, PlacesTyped DEF Begin, End, Typed
  <2>2. CASE Enter
    BY <2>2, PlacesTyped, FollowingIsStage
       DEF Enter, End, GoOn, Typed, ProcessType, Steps, WriteSteps
  <2>3. CASE EnterEvidence \/ BlockedWrite
    BY <2>3, PlacesTyped DEF EnterEvidence, BlockedWrite, End, GoOn, Typed, Steps, WriteSteps
  <2> QED BY <2>1, <2>2, <2>3
<1> QED BY <1>1, <1>2, <1>3, <1>4 DEF Typed

\* Every kind of step, for the case splits below.
LEMMA StepKinds ==
  ASSUME [Next]_vars
  PROVE  \/ JournalStep \/ EffectStep \/ Crash \/ Target \/ Reboot
         \/ Begin \/ Enter \/ EnterEvidence \/ BlockedWrite \/ UNCHANGED vars
BY DEF Next, Process, JournalStep, EffectStep

\* Every step keeps the types.
LEMMA TypedStep == ASSUME Typed, [Next]_vars PROVE Typed'
<1>1. CASE UNCHANGED vars
  BY <1>1 DEF vars, Typed
<1> QED BY <1>1, StepKinds, JournalStepTyped, EffectStepTyped, CrashTyped, TargetTyped, PassingTyped

-----------------------------------------------------------------------------
(* The root. *)

\* Past the hand-over, and in every later stage that touches the target, the
\* closure has its root.
PastTheRoot ==
    \/ process.stage = "GcRooted" /\ process.at \in {"Unlink", "Record", "Receipt", "Outcome"}
    \/ process.stage \in {"Copied", "BootOnceScheduled", "BootOnceActivated"}

RootInv ==
    /\ process.running /\ PastTheRoot => files.root = "Closure"
    /\ RootedBeforeActivation

\* A root is made once and never replaced.
LEMMA RootStays ==
  ASSUME Typed, [Next]_vars, files.root # "None"
  PROVE  files'.root = files.root
<1>1. CASE EffectStep
  BY <1>1 DEF EffectStep, Materialize, RunTest, Build, StageRoot, LinkRoot, UnlinkStaging,
     Copy, Dispatch, Poll, WriteEvidence, NewEvidence, GeneratedInputs, Typed, FilesType
<1>2. CASE Crash
  BY <1>2 DEF Crash, Leftovers, GeneratedInputs, Typed, FilesType
<1>3. CASE Enter
  BY <1>3 DEF Enter, SshConfigured, Typed, FilesType
<1>4. CASE JournalStep \/ Target \/ Reboot \/ Begin \/ EnterEvidence \/ BlockedWrite
           \/ UNCHANGED vars
  BY <1>4 DEF JournalStep, WriteFirstState, WriteIntent, WriteRecord, WriteReceipt, WriteOutcome,
     WriteFailedOutcome, WriteFailedStatus, WriteStatus, Target, Reboot, Begin, EnterEvidence,
     BlockedWrite, Idle, durable, vars
<1> QED BY <1>1, <1>2, <1>3, <1>4, StepKinds

\* The target is touched by its own steps and by a run past the root only.
LEMMA RootedTargetStep ==
  ASSUME Typed, RootInv, [Next]_vars
  PROVE  RootedBeforeActivation'
<1>1. CASE files.root = "Closure"
  BY <1>1, RootStays DEF RootedBeforeActivation
<1>2. CASE files.root # "Closure"
  <2>1. target.unit = "NotFound" /\ target.profile # "New"
    BY <1>2 DEF RootInv, RootedBeforeActivation
  <2>2. ~(At("BootOnceScheduled", "Effect"))
    BY <1>2 DEF RootInv, PastTheRoot, At
  <2>3. target'.unit = "NotFound" /\ target'.profile # "New"
    <3>1. CASE EffectStep
      BY <2>1, <2>2, <3>1 DEF EffectStep, Materialize, RunTest, Build, StageRoot, LinkRoot,
         UnlinkStaging, Copy, Dispatch, Poll, WriteEvidence, Typed, TargetType
    <3>2. CASE Crash
      BY <2>1, <2>2, <3>2 DEF Crash, Leftovers, Typed, TargetType
    <3>3. CASE Target
      BY <2>1, <3>3 DEF Target, UnitLine, UnitFails, Collect, Typed, TargetType
    <3>4. CASE Reboot
      BY <2>1, <3>4 DEF Reboot, Typed, TargetType
    <3>5. CASE JournalStep \/ Begin \/ Enter \/ EnterEvidence \/ BlockedWrite \/ UNCHANGED vars
      BY <2>1, <3>5 DEF JournalStep, WriteFirstState, WriteIntent, WriteRecord, WriteReceipt,
         WriteOutcome, WriteFailedOutcome, WriteFailedStatus, WriteStatus, Begin, Enter,
         EnterEvidence, BlockedWrite, Idle, vars
    <3> QED BY <3>1, <3>2, <3>3, <3>4, <3>5, StepKinds
  <2> QED BY <2>3 DEF RootedBeforeActivation
<1> QED BY <1>1, <1>2

\* A run comes past the root only by linking it or by finding it in place.
LEMMA RootInvStep == ASSUME Typed, RootInv, [Next]_vars PROVE RootInv'
<1> SUFFICES ASSUME process'.running, PastTheRoot', ~(process.running /\ PastTheRoot)
             PROVE  files'.root = "Closure"
  <2>1. files.root = "Closure" => files'.root = "Closure"
    BY RootStays
  <2> QED BY <2>1, RootedTargetStep DEF RootInv
<1> USE DEF PastTheRoot
<1>0. process \in ProcessType /\ process.stage \in StageNames
  BY DEF Typed, ProcessType
<1>1. CASE JournalStep
  BY <1>0, <1>1, JournalMoves, StageFacts
<1>2. CASE EffectStep
  <2>1. process.stage = "GcRooted" /\ process'.stage = "GcRooted"
    BY <1>2, EffectMoves
  <2>2. StageRoot \/ LinkRoot \/ UnlinkStaging
    BY <1>2, <2>1 DEF EffectStep, Materialize, RunTest, Build, Copy, Dispatch, Poll,
       WriteEvidence, At
  <2>3. CASE StageRoot
    BY <1>0, <2>3, PlaceFields DEF StageRoot, HandOver, Fails, GoOn, End
  <2>4. CASE LinkRoot
    BY <1>0, <2>4, PlaceFields DEF LinkRoot, GoOn, End, Typed, FilesType
  <2>5. CASE UnlinkStaging
    BY <2>5 DEF UnlinkStaging, At
  <2> QED BY <2>2, <2>3, <2>4, <2>5
<1>3. CASE Enter
  <2>1. /\ process.stage # "TerminalEvidenceWritten"
        /\ process' = Here("Intent") \/ process' = To(Following(process.stage), "Enter")
    BY <1>0, <1>3, PlaceFields DEF Enter, GoOn, End
  <2>2. process' = To(Following("GcRooted"), "Enter") /\ process.stage = "GcRooted"
    BY <1>0, <2>1, PlaceFields, StageFacts
  <2>3. Applies("GcRooted")
    BY DEF Applies
  <2>4. process' # Here("Intent") /\ process' # NoProcess
    BY <1>0, <2>2, PlaceFields, StageFacts
  <2>5. files.root = "Closure"
    BY <1>3, <2>2, <2>3, <2>4 DEF Enter, RootReceiptHolds, GoOn, End
  <2> QED BY <2>5, RootStays
<1>4. CASE Begin
  BY <1>4, BeginFields
<1>7. CASE EnterEvidence \/ BlockedWrite
  BY <1>0, <1>7, PlaceFields DEF EnterEvidence, BlockedWrite, GoOn, End, At
<1>5. CASE Crash
  BY <1>5 DEF Crash, End, NoProcess
<1>6. CASE Target \/ Reboot \/ UNCHANGED vars
  BY <1>6 DEF Target, Reboot, vars, PastTheRoot
<1> QED BY <1>1, <1>2, <1>3, <1>4, <1>5, <1>6, <1>7, StepKinds

-----------------------------------------------------------------------------
(* The status. *)

\* A status is decided in a run's last stage or on the way into it; until then
\* there is none, and no evidence either.
StatusInv ==
    /\ journal.directory = "Absent" => journal.terminal = "None" /\ ~process.running
    /\ process.running /\ process.at = "Create" => journal.terminal = "None"
    /\ process.running /\ journal.terminal # "None" =>
         /\ process.stage = "TerminalEvidenceWritten"
         /\ process.at \in {"Enter", "Intent", "Effect", "Receipt", "Outcome"}
    /\ /\ process.running /\ process.stage = "TerminalEvidenceWritten"
       /\ process.at \in {"Intent", "Effect", "Record", "Receipt", "Outcome"}
       => journal.terminal # "None"
    /\ \A e \in files.evidence : e.status = journal.terminal /\ journal.terminal # "None"

\* The journal's status is set by the two writes that set it only, and then
\* from none.
LEMMA TerminalSet ==
  ASSUME Typed, StatusInv, [Next]_vars
  PROVE  \/ /\ journal'.terminal = journal.terminal
            /\ ~WriteFailedStatus /\ ~WriteStatus
         \/ /\ WriteFailedStatus \/ WriteStatus
            /\ journal.terminal = "None" /\ journal'.terminal \in Statuses
            /\ process'.running = process.running
            /\ process'.stage = "TerminalEvidenceWritten" /\ process'.at = "Enter"
<1>1. process \in ProcessType /\ journal \in JournalType
  BY DEF Typed
<1>2. CASE WriteFailedStatus
  <2>1. journal.terminal = "None"
    BY <1>2 DEF WriteFailedStatus, StatusInv
  <2>2. "TerminalEvidenceWritten" \in StageNames /\ "Enter" \in Steps
    BY StageFacts DEF Steps
  <2>3. /\ journal' = [journal EXCEPT !.terminal = "Failed"]
        /\ process'.stage = "TerminalEvidenceWritten" /\ process'.at = "Enter"
        /\ process'.running = process.running
    BY <1>1, <1>2, <2>2, WriteTo DEF WriteFailedStatus
  <2> QED BY <1>1, <1>2, <2>1, <2>3 DEF JournalType, Statuses
<1>3. CASE WriteStatus
  <2>1. journal.terminal = "None"
    BY <1>3 DEF WriteStatus, At, StatusInv
  <2>2. "Enter" \in Steps
    BY DEF Steps
  <2>3. /\ journal' = [journal EXCEPT !.terminal = "Succeeded"]
        /\ process'.stage = "TerminalEvidenceWritten" /\ process'.at = "Enter"
        /\ process'.running = process.running
    BY <1>1, <1>3, <2>2, WriteHere DEF WriteStatus, At
  <2> QED BY <1>1, <1>3, <2>1, <2>3 DEF JournalType, Statuses
<1>4. CASE ~WriteFailedStatus /\ ~WriteStatus
  <2>5. SUFFICES journal'.terminal = journal.terminal
    BY <1>4
  <2>1. CASE WriteFirstState
    BY <2>1 DEF WriteFirstState, Write, FreshJournal, StatusInv
  <2>2. CASE WriteIntent \/ WriteRecord \/ WriteReceipt \/ WriteOutcome \/ WriteFailedOutcome
    BY <1>1, <2>2 DEF WriteIntent, WriteRecord, WriteReceipt, WriteOutcome, WriteFailedOutcome,
       Write, Recorded, JournalType
  <2>3. CASE Begin
    BY <1>1, <2>3 DEF Begin, JournalType
  <2>4. CASE EffectStep \/ Crash \/ Target \/ Reboot \/ Enter \/ EnterEvidence
             \/ BlockedWrite \/ UNCHANGED vars
    BY <2>4 DEF EffectStep, Materialize, RunTest, Build, StageRoot, LinkRoot, UnlinkStaging, Copy,
       Dispatch, Poll, WriteEvidence, Keeps, Crash, Target, Reboot, Enter, EnterEvidence,
       BlockedWrite, durable, vars
  <2> QED BY <1>4, <2>1, <2>2, <2>3, <2>4, StepKinds DEF JournalStep
<1> QED BY <1>2, <1>3, <1>4

\* The evidence is written by the step that writes it only, and then from none.
LEMMA EvidenceSet ==
  ASSUME Typed, [Next]_vars
  PROVE  \/ files'.evidence = files.evidence
         \/ /\ WriteEvidence /\ files.evidence = {}
            /\ \A e \in files'.evidence : e.status = journal.terminal
<1>1. CASE WriteEvidence
  BY <1>1 DEF WriteEvidence, NewEvidence, EvidenceOf, Typed, FilesType
<1>2. CASE EffectStep /\ ~WriteEvidence
  BY <1>2 DEF EffectStep, Materialize, RunTest, Build, StageRoot, LinkRoot, UnlinkStaging, Copy,
     Dispatch, Poll, GeneratedInputs, Typed, FilesType
<1>3. CASE Crash
  BY <1>3 DEF Crash, Leftovers, GeneratedInputs, Typed, FilesType
<1>4. CASE Enter
  BY <1>4 DEF Enter, SshConfigured, Typed, FilesType
<1>5. CASE JournalStep \/ Target \/ Reboot \/ Begin \/ EnterEvidence \/ BlockedWrite
           \/ UNCHANGED vars
  BY <1>5 DEF JournalStep, WriteFirstState, WriteIntent, WriteRecord, WriteReceipt, WriteOutcome,
     WriteFailedOutcome, WriteFailedStatus, WriteStatus, Target, Reboot, Begin, EnterEvidence,
     BlockedWrite, Idle, durable, vars
<1> QED BY <1>1, <1>2, <1>3, <1>4, <1>5, StepKinds

\* Every step keeps the place of a status.
LEMMA StatusInvStep == ASSUME Typed, StatusInv, [Next]_vars PROVE StatusInv'
<1>1. process \in ProcessType /\ process.stage \in StageNames /\ process.at \in Steps
  BY DEF Typed, ProcessType
<1>2. journal'.directory = "Absent" => journal'.terminal = "None" /\ ~process'.running
  <2> SUFFICES ASSUME journal'.directory = "Absent"
               PROVE  journal'.terminal = "None" /\ ~process'.running
    OBVIOUS
  <2>1. CASE JournalStep
    <3>1. CASE WriteFirstState
      BY <3>1 DEF WriteFirstState, Write, FreshJournal
    <3>2. process.running
      BY <2>1, JournalMoves
    <3>3. CASE ~WriteFirstState
      BY <2>1, <3>2, <3>3 DEF JournalStep, WriteIntent, WriteRecord, WriteReceipt, WriteOutcome,
         WriteFailedOutcome, WriteFailedStatus, WriteStatus, Write, Recorded, Typed, JournalType,
         StatusInv
    <3> QED BY <3>1, <3>3
  <2>2. CASE EffectStep
    BY <2>2, EffectMoves DEF EffectStep, Materialize, RunTest, Build, StageRoot, LinkRoot,
       UnlinkStaging, Copy, Dispatch, Poll, WriteEvidence, Keeps, StatusInv
  <2>3. CASE Begin
    BY <2>3 DEF Begin, End, NoProcess, StatusInv, Typed, JournalType
  <2>4. CASE Crash \/ Target \/ Reboot \/ Enter \/ EnterEvidence \/ BlockedWrite \/ UNCHANGED vars
    BY <2>4 DEF Crash, Target, Reboot, Enter, EnterEvidence, BlockedWrite, At, durable, vars,
       StatusInv
  <2> QED BY <2>1, <2>2, <2>3, <2>4, StepKinds
<1>3. \A e \in files'.evidence : e.status = journal'.terminal /\ journal'.terminal # "None"
  <2>1. CASE files'.evidence = files.evidence
    BY <2>1, TerminalSet DEF StatusInv, Statuses
  <2>2. CASE WriteEvidence /\ \A e \in files'.evidence : e.status = journal.terminal
    <3>1. journal.terminal # "None" /\ journal' = journal
      BY <2>2 DEF WriteEvidence, At, Keeps, StatusInv
    <3> QED BY <2>2, <3>1
  <2> QED BY <2>1, <2>2, EvidenceSet
<1>4. SUFFICES ASSUME process'.running
               PROVE  /\ process'.at = "Create" => journal'.terminal = "None"
                      /\ journal'.terminal # "None" =>
                           /\ process'.stage = "TerminalEvidenceWritten"
                           /\ process'.at \in {"Enter", "Intent", "Effect", "Receipt", "Outcome"}
                      /\ /\ process'.stage = "TerminalEvidenceWritten"
                         /\ process'.at \in {"Intent", "Effect", "Record", "Receipt", "Outcome"}
                         => journal'.terminal # "None"
  BY <1>2, <1>3 DEF StatusInv
<1>5. CASE WriteFailedStatus \/ WriteStatus
  BY <1>4, <1>5, TerminalSet
<1>6. CASE JournalStep /\ ~WriteFailedStatus /\ ~WriteStatus
  BY <1>1, <1>4, <1>6, TerminalSet, JournalMoves, StageFacts DEF StatusInv
<1>7. CASE EffectStep
  <2>1. journal' = journal
    BY <1>7 DEF EffectStep, Materialize, RunTest, Build, StageRoot, LinkRoot, UnlinkStaging, Copy,
       Dispatch, Poll, WriteEvidence, Keeps
  <2>2. process.stage = "TerminalEvidenceWritten" => process.at = "Effect"
    BY <1>7 DEF EffectStep, Materialize, RunTest, Build, StageRoot, LinkRoot, UnlinkStaging, Copy,
       Dispatch, Poll, WriteEvidence, At
  <2> QED BY <1>1, <1>4, <1>7, <2>1, <2>2, EffectMoves DEF StatusInv
<1>8. CASE Begin
  <2>1. journal'.terminal = journal.terminal
    BY <1>8 DEF Begin, Typed, JournalType
  <2> QED BY <1>4, <1>8, <2>1, BeginFields DEF StatusInv
<1>9. CASE Enter
  <2>1. journal'.terminal = journal.terminal
    BY <1>9 DEF Enter
  <2> QED BY <1>1, <1>4, <1>9, <2>1, EnterMoves DEF StatusInv
<1>10. CASE EnterEvidence
  <2>1. journal'.terminal = journal.terminal
    BY <1>10 DEF EnterEvidence
  <2> QED BY <1>1, <1>4, <1>10, <2>1, EnterEvidenceMoves DEF StatusInv
<1>12. CASE BlockedWrite
  BY <1>1, <1>4, <1>12, PlaceFields DEF BlockedWrite, End
<1>11. CASE Crash
  BY <1>4, <1>11 DEF Crash, End, NoProcess
<1>13. CASE Target \/ Reboot \/ UNCHANGED vars
  BY <1>4, <1>13 DEF Target, Reboot, durable, vars, StatusInv
<1> QED BY <1>5, <1>6, <1>7, <1>8, <1>9, <1>10, <1>11, <1>12, <1>13, StepKinds DEF JournalStep

-----------------------------------------------------------------------------
(* What is behind a run. *)

\* A run on its way to an effect has not got the stage of it behind it.
DoneInv ==
    process.running /\ process.at \in {"Intent", "Effect"} => ~Passed(process.stage)

\* Only the journal tells what is behind a run.
LEMMA PassedKept ==
  ASSUME NEW s, journal'.overrides = journal.overrides, journal'.closure = journal.closure,
         SucceededAt(s)' = SucceededAt(s)
  PROVE  Passed(s)' = Passed(s)
BY DEF Passed

\* An effect is reached through its intent, and an intent by a run that found
\* the stage open.
LEMMA DoneInvStep == ASSUME Typed, DoneInv, [Next]_vars PROVE DoneInv'
<1>1. process \in ProcessType /\ process.stage \in StageNames /\ process.at \in Steps
  BY DEF Typed, ProcessType
<1> SUFFICES ASSUME process'.running, process'.at \in {"Intent", "Effect"}
             PROVE  ~Passed(process.stage)'
  BY DEF DoneInv
<1>2. CASE JournalStep
  <2>1. /\ process'.at = "Effect" /\ process.at = "Intent" /\ process.running
        /\ process'.stage = process.stage
    BY <1>2, JournalMoves
  <2>2. WriteIntent
    BY <1>2, <2>1 DEF JournalStep, WriteFirstState, WriteRecord, WriteReceipt, WriteOutcome,
       WriteFailedOutcome, WriteFailedStatus, WriteStatus, At
  <2>3. journal' = Recorded(process.stage, "Intent", TRUE)
    BY <2>2 DEF WriteIntent, Write
  <2>4. /\ journal'.overrides = journal.overrides /\ journal'.closure = journal.closure
        /\ journal'.events = journal.events \cup {<<process.stage, "Intent", TRUE>>}
    BY <2>3 DEF Recorded, Typed, JournalType
  <2>5. <<process.stage, "Outcome", TRUE>> # <<process.stage, "Intent", TRUE>>
    OBVIOUS
  <2>6. (<<process.stage, "Outcome", TRUE>> \in journal'.events)
          <=> (<<process.stage, "Outcome", TRUE>> \in journal.events)
    BY <2>4, <2>5
  <2>7. ~Passed(process.stage)
    BY <2>1 DEF DoneInv
  <2> QED BY <2>1, <2>4, <2>6, <2>7 DEF Passed, SucceededAt
<1>3. CASE EffectStep
  <2>1. journal' = journal
    BY <1>3 DEF EffectStep, Materialize, RunTest, Build, StageRoot, LinkRoot, UnlinkStaging, Copy,
       Dispatch, Poll, WriteEvidence, Keeps
  <2>2. process.running /\ process.at = "Effect" /\ process'.stage = process.stage
    BY <1>3, EffectMoves
  <2> QED BY <2>1, <2>2 DEF DoneInv, Passed, SucceededAt
<1>4. CASE Begin
  BY <1>4, BeginFields
<1>5. CASE Enter
  <2>1. journal' = journal
    BY <1>5 DEF Enter
  <2>2. process'.stage = process.stage /\ ~Passed(process.stage)
    BY <1>1, <1>5, EnterMoves
  <2> QED BY <2>1, <2>2 DEF Passed, SucceededAt
<1>6. CASE EnterEvidence
  <2>1. journal' = journal
    BY <1>6 DEF EnterEvidence
  <2>2. process'.stage = "TerminalEvidenceWritten" /\ ~SucceededAt("TerminalEvidenceWritten")
    BY <1>1, <1>6, EnterEvidenceMoves
  <2> QED BY <2>1, <2>2 DEF Passed, SucceededAt
<1>7. CASE BlockedWrite \/ Crash
  BY <1>1, <1>7, PlaceFields DEF BlockedWrite, Crash, End
<1>8. CASE Target \/ Reboot \/ UNCHANGED vars
  <2>1. journal' = journal /\ process' = process
    BY <1>8 DEF Target, Reboot, durable, vars
  <2> QED BY <2>1 DEF DoneInv, Passed, SucceededAt
<1> QED BY <1>2, <1>3, <1>4, <1>5, <1>6, <1>7, <1>8, StepKinds

-----------------------------------------------------------------------------
(* The unit and the status. *)

\* What each line of the script has left on the target when the next one runs,
\* and what a unit that ran the last one leaves.
UnitInv ==
    /\ target.default # "New"
    /\ target.unit = "Waiting" =>
         /\ target.line \in 1 .. 6
         /\ target.line > 3 => target.loader = "New"
         /\ target.line > 4 => target.old = "Old"
         /\ target.line > 5 => target.default = "Old"
    /\ target.unit = "Ready" => armed /\ target.oneshot = "New" /\ target.default = "Old"

\* What a run may do only after it saw the unit finish: be past the poll of it,
\* have it behind it, be about to decide a success, or have decided one.
Owed ==
    \/ SucceededAt("BootOnceActivated")
    \/ /\ process.running /\ process.stage = "BootOnceActivated"
       /\ process.at \in {"Record", "Receipt", "Outcome"}
    \/ /\ process.running /\ process.stage = "TerminalEvidenceWritten"
       /\ journal.terminal = "None" /\ request.mode # "BuildOnly"
    \/ journal.terminal = "Succeeded" /\ request.mode # "BuildOnly"

ArmedInv == Owed => armed

\* A target that was armed has been armed.
LEMMA ArmedStays ==
  ASSUME [Next]_vars, armed
  PROVE  armed'
<1>1. CASE EffectStep
  BY <1>1 DEF EffectStep, Materialize, RunTest, Build, StageRoot, LinkRoot, UnlinkStaging,
     Copy, Dispatch, Poll, WriteEvidence
<1>2. CASE Target
  BY <1>2 DEF Target, UnitLine, UnitFails, Collect
<1>3. CASE JournalStep \/ Crash \/ Reboot \/ Begin \/ Enter \/ EnterEvidence \/ BlockedWrite
           \/ UNCHANGED vars
  BY <1>3 DEF JournalStep, WriteFirstState, WriteIntent, WriteRecord, WriteReceipt, WriteOutcome,
     WriteFailedOutcome, WriteFailedStatus, WriteStatus, Crash, Reboot, Begin, Enter, EnterEvidence,
     BlockedWrite, Idle, vars
<1> QED BY <1>1, <1>2, <1>3, StepKinds

\* The lines of the script by their numbers.
LEMMA Script ==
    /\ ScriptLines[1] = "ReadOld" /\ ScriptLines[2] = "SetProfile"
    /\ ScriptLines[3] = "BootConfiguration" /\ ScriptLines[4] = "ReadNew"
    /\ ScriptLines[5] = "DefaultOld" /\ ScriptLines[6] = "OneshotNew"
BY DEF ScriptLines

\* A line of the unit keeps what the lines before it left.
LEMMA UnitLineKeeps ==
  ASSUME Typed, UnitInv, UnitLine
  PROVE  UnitInv'
<1>1. target \in TargetType /\ target.unit = "Waiting" /\ target.line \in 1 .. 6
  BY DEF Typed, UnitInv, UnitLine
<1>2. target.line \in {1, 2, 3, 4, 5, 6}
  BY <1>1
<1>3. CASE target.line = 1
  <2>1. target' = [[target EXCEPT !.old = target.running] EXCEPT !.line = @ + 1]
    BY <1>1, <1>3, Script DEF UnitLine
  <2>2. /\ target'.default = target.default /\ target'.unit = "Waiting" /\ target'.line = 2
    BY <1>1, <1>3, <2>1 DEF TargetType
  <2> QED BY <2>2 DEF UnitInv
<1>4. CASE target.line = 2
  <2>1. target' = [[target EXCEPT !.profile = "New"] EXCEPT !.line = @ + 1]
    BY <1>1, <1>4, Script DEF UnitLine
  <2>2. target'.default = target.default /\ target'.unit = "Waiting" /\ target'.line = 3
    BY <1>1, <1>4, <2>1 DEF TargetType
  <2> QED BY <2>2 DEF UnitInv
<1>5. CASE target.line = 3
  <2>1. target' = [[target EXCEPT !.loader = "New"] EXCEPT !.line = @ + 1]
    BY <1>1, <1>5, Script DEF UnitLine
  <2>2. /\ target'.default = target.default /\ target'.unit = "Waiting" /\ target'.line = 4
        /\ target'.loader = "New"
    BY <1>1, <1>5, <2>1 DEF TargetType
  <2> QED BY <2>2 DEF UnitInv
<1>6. CASE target.line = 4
  <2>1. target' = [target EXCEPT !.line = 5] /\ target.loader # target.old
    BY <1>1, <1>6, Script DEF UnitLine, TargetType
  <2>2. target.loader = "New" /\ target.old = "Old"
    BY <1>1, <1>6, <2>1 DEF UnitInv, TargetType, Systems
  <2>3. /\ target'.default = target.default /\ target'.unit = "Waiting" /\ target'.line = 5
        /\ target'.loader = "New" /\ target'.old = "Old"
    BY <1>1, <2>1, <2>2 DEF TargetType
  <2> QED BY <2>3 DEF UnitInv
<1>7. CASE target.line = 5
  <2>1. target' = [[target EXCEPT !.default = target.old] EXCEPT !.line = @ + 1]
    BY <1>1, <1>7, Script DEF UnitLine
  <2>2. target.loader = "New" /\ target.old = "Old"
    BY <1>7 DEF UnitInv, UnitLine
  <2>3. /\ target'.default = "Old" /\ target'.unit = "Waiting" /\ target'.line = 6
        /\ target'.loader = "New" /\ target'.old = "Old"
    BY <1>1, <1>7, <2>1, <2>2 DEF TargetType
  <2> QED BY <2>3 DEF UnitInv
<1>8. CASE target.line = 6
  <2>1. /\ target' = [target EXCEPT !.oneshot = target.loader, !.unit = "Ready"]
        /\ armed'
    BY <1>1, <1>8, Script DEF UnitLine, TargetType
  <2>2. target.loader = "New" /\ target.default = "Old"
    BY <1>8 DEF UnitInv, UnitLine
  <2>3. /\ target'.default = "Old" /\ target'.unit = "Ready" /\ target'.oneshot = "New"
    BY <1>1, <2>1, <2>2 DEF TargetType
  <2> QED BY <2>1, <2>3 DEF UnitInv
<1> QED BY <1>2, <1>3, <1>4, <1>5, <1>6, <1>7, <1>8

\* Every step keeps what the script has left on the target.
LEMMA UnitInvStep == ASSUME Typed, UnitInv, [Next]_vars PROVE UnitInv'
<1>1. target \in TargetType
  BY DEF Typed
<1>2. CASE Target /\ UnitLine
  BY <1>2, UnitLineKeeps
<1> DEFINE Kept == /\ target'.unit = target.unit /\ target'.line = target.line
                   /\ target'.loader = target.loader /\ target'.old = target.old
                   /\ target'.default = target.default /\ target'.oneshot = target.oneshot
           Fresh == /\ target'.default = target.default
                    /\ \/ target'.unit \in {"NotFound", "Failed"}
                       \/ target'.unit = "Waiting" /\ target'.line = 1
<1>3. Kept \/ Fresh \/ (Target /\ UnitLine)
  <2>1. ASSUME UNCHANGED target PROVE Kept
    BY <2>1
  <2>2. ASSUME NEW held, target' = [target EXCEPT !.closure = held] PROVE Kept
    BY <1>1, <2>2 DEF TargetType
  <2>3. ASSUME target' = UnitStarted PROVE Fresh
    BY <1>1, <2>3 DEF TargetType, UnitStarted
  <2>4. CASE EffectStep
    <3>1. \/ UNCHANGED target \/ (\E held : target' = [target EXCEPT !.closure = held])
          \/ target' = UnitStarted
      BY <2>4 DEF EffectStep, Materialize, RunTest, Build, StageRoot, LinkRoot, UnlinkStaging,
         Copy, Dispatch, Poll, WriteEvidence
    <3> QED BY <2>1, <2>2, <2>3, <3>1
  <2>5. CASE Crash
    <3>1. \/ UNCHANGED target \/ (\E held : target' = [target EXCEPT !.closure = held])
          \/ target' = UnitStarted
      BY <2>5 DEF Crash, Leftovers
    <3> QED BY <2>1, <2>2, <2>3, <3>1
  <2>6. CASE Target /\ ~UnitLine
    <3>1. CASE UnitFails
      BY <1>1, <3>1 DEF UnitFails, TargetType
    <3>2. CASE Collect
      BY <2>2, <3>2 DEF Collect
    <3> QED BY <2>6, <3>1, <3>2 DEF Target
  <2>7. CASE Reboot
    BY <1>1, <2>7 DEF Reboot, TargetType
  <2>8. CASE JournalStep \/ Begin \/ Enter \/ EnterEvidence \/ BlockedWrite \/ UNCHANGED vars
    <3>1. UNCHANGED target
      BY <2>8 DEF JournalStep, WriteFirstState, WriteIntent, WriteRecord, WriteReceipt,
         WriteOutcome, WriteFailedOutcome, WriteFailedStatus, WriteStatus, Begin, Enter,
         EnterEvidence, BlockedWrite, Idle, vars
    <3> QED BY <2>1, <3>1
  <2> QED BY <2>4, <2>5, <2>6, <2>7, <2>8, StepKinds
<1>4. CASE Kept
  BY <1>4, ArmedStays DEF UnitInv
<1>5. CASE Fresh
  BY <1>5 DEF UnitInv
<1> QED BY <1>2, <1>3, <1>4, <1>5

\* Only the outcome of a stage says that it succeeded.
LEMMA SucceededSet ==
  ASSUME Typed, [Next]_vars, NEW s \in StageNames, SucceededAt(s)'
  PROVE  SucceededAt(s) \/ (WriteOutcome /\ process.stage = s)
<1>1. journal \in JournalType
  BY DEF Typed
<1>2. CASE WriteFirstState
  BY <1>2, StageFacts DEF WriteFirstState, Write, FreshJournal, SucceededAt
<1>3. ASSUME NEW kind, NEW succeeded, journal' = Recorded(process.stage, kind, succeeded),
             ~SucceededAt(s)
      PROVE  process.stage = s /\ kind = "Outcome" /\ succeeded = TRUE
  <2>1. journal'.events = journal.events \cup {<<process.stage, kind, succeeded>>}
    BY <1>1, <1>3 DEF Recorded, JournalType
  <2>2. <<s, "Outcome", TRUE>> = <<process.stage, kind, succeeded>>
    BY <1>3, <2>1 DEF SucceededAt
  <2> QED BY <2>2
<1>4. CASE WriteIntent \/ WriteReceipt \/ WriteFailedOutcome
  BY <1>3, <1>4 DEF WriteIntent, WriteReceipt, WriteFailedOutcome, Write
<1>5. CASE WriteOutcome
  BY <1>3, <1>5 DEF WriteOutcome, Write
<1>6. ASSUME journal'.events = journal.events PROVE SucceededAt(s)
  BY <1>6 DEF SucceededAt
<1>7. CASE WriteRecord \/ WriteFailedStatus \/ WriteStatus
  <2>1. journal'.events = journal.events
    BY <1>1, <1>7 DEF WriteRecord, WriteFailedStatus, WriteStatus, Write, JournalType
  <2> QED BY <1>6, <2>1
<1>8. CASE Begin
  <2>1. journal'.events = journal.events
    BY <1>1, <1>8 DEF Begin, JournalType
  <2> QED BY <1>6, <2>1
<1>9. CASE EffectStep \/ Crash \/ Target \/ Reboot \/ Enter \/ EnterEvidence \/ BlockedWrite
           \/ UNCHANGED vars
  <2>1. journal'.events = journal.events
    BY <1>9 DEF EffectStep, Materialize, RunTest, Build, StageRoot, LinkRoot, UnlinkStaging, Copy,
       Dispatch, Poll, WriteEvidence, Keeps, Crash, Target, Reboot, Enter, EnterEvidence,
       BlockedWrite, durable, vars
  <2> QED BY <1>6, <2>1
<1> QED BY <1>2, <1>4, <1>5, <1>7, <1>8, <1>9, StepKinds DEF JournalStep

\* A run comes where it owes an armed target only by polling a unit that is
\* ready, or from where it owed one before.
LEMMA ArmedInvStep ==
  ASSUME Typed, StatusInv, UnitInv, ArmedInv, [Next]_vars
  PROVE  ArmedInv'
<1>1. /\ process \in ProcessType /\ process.stage \in StageNames /\ process.at \in Steps
      /\ request' = request
  <2>1. request' = request
    BY StepKinds DEF JournalStep, WriteFirstState, WriteIntent, WriteRecord, WriteReceipt,
       WriteOutcome, WriteFailedOutcome, WriteFailedStatus, WriteStatus, Idle, EffectStep,
       Materialize, RunTest, Build, StageRoot, LinkRoot, UnlinkStaging, Copy, Dispatch, Poll,
       WriteEvidence, Keeps, Crash, Target, Reboot, Begin, Enter, EnterEvidence, BlockedWrite, vars
  <2> QED BY <2>1 DEF Typed, ProcessType
<1>2. SUFFICES ASSUME Owed', ~Owed PROVE armed'
  BY ArmedStays DEF ArmedInv
<1>3. CASE SucceededAt("BootOnceActivated")'
  <2>1. WriteOutcome /\ process.stage = "BootOnceActivated"
    BY <1>2, <1>3, SucceededSet, StageFacts DEF Owed
  <2> QED BY <1>2, <2>1 DEF WriteOutcome, Owed
<1>4. CASE journal'.terminal = "Succeeded" /\ request.mode # "BuildOnly"
  <2>1. journal.terminal # "Succeeded"
    BY <1>2, <1>4 DEF Owed
  <2>2. WriteFailedStatus \/ WriteStatus
    BY <1>4, <2>1, TerminalSet
  <2>3. ~WriteFailedStatus
    BY <1>4 DEF WriteFailedStatus, Write, Typed, JournalType
  <2>4. At("TerminalEvidenceWritten", "Status") /\ journal.terminal = "None"
    BY <2>2, <2>3, TerminalSet DEF WriteStatus
  <2> QED BY <1>2, <1>4, <2>4 DEF Owed, At
<1>5. CASE /\ process'.running /\ process'.stage = "BootOnceActivated"
           /\ process'.at \in {"Record", "Receipt", "Outcome"}
  <2>1. CASE JournalStep
    BY <1>1, <1>2, <1>5, <2>1, JournalMoves, StageFacts DEF Owed
  <2>2. CASE EffectStep
    <3>1. process.stage = "BootOnceActivated"
      BY <1>5, <2>2, EffectMoves
    <3>2. Poll
      BY <2>2, <3>1 DEF EffectStep, Materialize, RunTest, Build, StageRoot, LinkRoot,
         UnlinkStaging, Copy, Dispatch, WriteEvidence, At
    <3>3. \/ target.unit = "Ready" \/ process' = NoProcess \/ process' = Here("FailedOutcome")
          \/ process' = [process EXCEPT !.polls = @ + 1]
      BY <3>2 DEF Poll, ReadyUnits, PolledAgain, Fails, GoOn, End
    <3>4. process' # NoProcess /\ process' # Here("FailedOutcome")
      BY <1>1, <1>5, PlaceFields
    <3>5. process.at = "Effect"
      BY <3>2 DEF Poll, At
    <3>6. process' # [process EXCEPT !.polls = @ + 1]
      BY <1>1, <1>5, <3>5 DEF ProcessType
    <3> QED BY <3>3, <3>4, <3>6, ArmedStays DEF UnitInv
  <2>3. CASE Begin
    BY <1>5, <2>3, BeginFields
  <2>4. CASE Enter
    BY <1>1, <1>5, <2>4, EnterMoves
  <2>5. CASE EnterEvidence
    BY <1>1, <1>5, <2>5, EnterEvidenceMoves
  <2>6. CASE BlockedWrite \/ Crash
    BY <1>1, <1>5, <2>6, PlaceFields DEF BlockedWrite, Crash, End
  <2>7. CASE Target \/ Reboot \/ UNCHANGED vars
    BY <1>2, <1>5, <2>7 DEF Target, Reboot, vars, Owed
  <2> QED BY <2>1, <2>2, <2>3, <2>4, <2>5, <2>6, <2>7, StepKinds
<1>6. CASE /\ process'.running /\ process'.stage = "TerminalEvidenceWritten"
           /\ journal'.terminal = "None" /\ request.mode # "BuildOnly"
  <2>1. /\ journal.terminal = "None" /\ ~WriteFailedStatus /\ ~WriteStatus
    BY <1>6, TerminalSet DEF Statuses
  <2>2. ~(process.running /\ process.stage = "TerminalEvidenceWritten")
    BY <1>2, <1>6, <2>1 DEF Owed
  <2>3. CASE JournalStep
    <3>1. process.at = "Outcome" /\ process.stage = "BootOnceActivated" /\ process.running
      <4>1. process.at # "FailedStatus"
        BY <2>1, <2>3 DEF JournalStep, WriteFirstState, WriteIntent, WriteRecord, WriteReceipt,
           WriteOutcome, WriteFailedOutcome, WriteStatus, At
      <4> QED BY <1>1, <1>6, <2>2, <2>3, <4>1, JournalMoves, StageFacts
    <3> QED BY <1>2, <3>1 DEF Owed
  <2>4. CASE EffectStep
    BY <1>6, <2>2, <2>4, EffectMoves
  <2>5. CASE Begin
    BY <1>6, <2>1, <2>5, BeginFields
  <2>6. CASE Enter
    <3>1. process.stage = "BootOnceActivated" /\ process.running
      BY <1>1, <1>6, <2>2, <2>6, EnterMoves, StageFacts
    <3>2. Applies("BootOnceActivated")
      BY <1>6 DEF Applies
    <3>3. process' # NoProcess /\ process' # Here("Intent")
      <4>1. ~NoProcess.running /\ Here("Intent").stage = "BootOnceActivated"
        BY <1>1, <3>1, PlaceFields
      <4> QED BY <1>6, <4>1
    <3>4. Passed("BootOnceActivated")
      BY <2>6, <3>1, <3>2, <3>3 DEF Enter, GoOn, End
    <3> QED BY <1>2, <3>4 DEF Passed, Owed
  <2>7. CASE EnterEvidence
    BY <2>2, <2>7 DEF EnterEvidence, At
  <2>8. CASE BlockedWrite \/ Crash
    BY <1>1, <1>6, <2>8, PlaceFields DEF BlockedWrite, Crash, End
  <2>9. CASE Target \/ Reboot \/ UNCHANGED vars
    BY <1>6, <2>2, <2>9 DEF Target, Reboot, vars
  <2> QED BY <2>3, <2>4, <2>5, <2>6, <2>7, <2>8, <2>9, StepKinds
<1> QED BY <1>1, <1>2, <1>3, <1>4, <1>5, <1>6 DEF Owed

-----------------------------------------------------------------------------
(* The theorems. *)

\* The inductive invariant.
IInv == Typed /\ RootInv /\ StatusInv /\ DoneInv /\ UnitInv /\ ArmedInv

\* The invariant holds at the start.
LEMMA InitIInv == Init => IInv
<1> SUFFICES ASSUME Init PROVE IInv
  OBVIOUS
<1>1. NoProcess \in ProcessType /\ ~NoProcess.running
  BY StageFacts DEF NoProcess, ProcessType, Steps
<1>2. NoJournal \in JournalType /\ NoJournal.directory = "Absent" /\ NoJournal.terminal = "None"
  BY DEF NoJournal, FreshJournal, JournalType
<1>3. FirstTarget \in TargetType /\ FirstTarget.unit = "NotFound" /\ FirstTarget.profile = "Old"
  BY DEF FirstTarget, TargetType, Systems
<1>4. files \in FilesType /\ files.evidence = {}
  BY DEF Init, FilesType
<1>5. Typed
  BY <1>1, <1>2, <1>3, <1>4 DEF Init, Typed
<1>6. RootInv
  BY <1>1, <1>3 DEF Init, RootInv, RootedBeforeActivation
<1>7. StatusInv
  BY <1>1, <1>2, <1>4 DEF Init, StatusInv
<1>8. DoneInv
  BY <1>1 DEF Init, DoneInv
<1>9. UnitInv
  BY <1>3 DEF Init, UnitInv, FirstTarget
<1>10. ArmedInv
  BY <1>1, <1>2 DEF Init, ArmedInv, Owed, SucceededAt, NoJournal, FreshJournal
<1> QED BY <1>5, <1>6, <1>7, <1>8, <1>9, <1>10 DEF IInv

\* Every step keeps the invariant.
LEMMA IInvStep == IInv /\ [Next]_vars => IInv'
BY TypedStep, RootInvStep, StatusInvStep, DoneInvStep, UnitInvStep, ArmedInvStep DEF IInv

\* Every state of every run has its types, is rooted before it is past the
\* root, has a status only where one is decided, and goes to no effect it has
\* behind it.
THEOREM Invariant == Spec => []IInv
<1>1. Init => IInv
  BY InitIInv
<1>2. IInv /\ [Next]_vars => IInv'
  BY IInvStep
<1> QED BY <1>1, <1>2, PTL DEF Spec

\* No target is armed, nor has its profile set, before the closure has its
\* root under the name the caller chose, whichever runs died where
\* (bootstrap.rs, run: the root stage stands before the copy and the boot).
THEOREM RootedFirst == Spec => []RootedBeforeActivation
<1>1. IInv => RootedBeforeActivation
  BY DEF IInv, RootInv
<1> QED BY <1>1, Invariant, PTL

\* The link that keeps the closure is under the staging name or the final one
\* at every moment of the hand-over, and the final name is never replaced
\* (bootstrap.rs, ensure_gc_root: a hard link first, then the unlink).
THEOREM RootKept == Spec => RootLinkNeverLost
<1>1. IInv /\ [Next]_vars => LinkKept
  <2> SUFFICES ASSUME IInv, [Next]_vars, files.staging
               PROVE  files'.staging \/ files'.root = "Closure"
    BY RootStays DEF IInv, LinkKept
  <2>1. CASE UnlinkStaging
    <3>1. files.root = "Closure"
      BY <2>1 DEF UnlinkStaging, At, IInv, RootInv, PastTheRoot
    <3> QED BY <3>1, RootStays DEF IInv
  <2>2. CASE EffectStep /\ ~UnlinkStaging
    BY <2>2 DEF EffectStep, Materialize, RunTest, Build, StageRoot, LinkRoot, Copy, Dispatch, Poll,
       WriteEvidence, NewEvidence, GeneratedInputs, IInv, Typed, FilesType
  <2>3. CASE Crash
    BY <2>3 DEF Crash, Leftovers, GeneratedInputs, IInv, Typed, FilesType
  <2>4. CASE Enter
    BY <2>4 DEF Enter, SshConfigured, IInv, Typed, FilesType
  <2>5. CASE JournalStep \/ Target \/ Reboot \/ Begin \/ EnterEvidence \/ BlockedWrite
             \/ UNCHANGED vars
    BY <2>5 DEF JournalStep, WriteFirstState, WriteIntent, WriteRecord, WriteReceipt, WriteOutcome,
       WriteFailedOutcome, WriteFailedStatus, WriteStatus, Target, Reboot, Begin, EnterEvidence,
       BlockedWrite, Idle, durable, vars
  <2> QED BY <2>1, <2>2, <2>3, <2>4, <2>5, StepKinds
<1>2. IInv /\ [Next]_vars => [LinkKept]_vars
  BY <1>1
<1> QED BY <1>2, Invariant, PTL DEF Spec, RootLinkNeverLost

\* Evidence is written once and says what the journal decided; a status never
\* changes, and once it is there no effect but the evidence is issued
\* (bootstrap.rs, run and write_terminal_evidence).
THEOREM EvidenceSettled == Spec => EvidenceIsFinal
<1>1. IInv /\ IInv' /\ [Next]_vars => [DecidedOnce]_vars
  <2> SUFFICES ASSUME IInv, IInv', Next PROVE DecidedOnce \/ UNCHANGED vars
    OBVIOUS
  <2>1. journal.terminal # "None" => journal'.terminal = journal.terminal
    BY TerminalSet DEF IInv
  <2>2. files.evidence # {} => files'.evidence = files.evidence
    BY EvidenceSet DEF IInv
  <2>3. \A e \in files'.evidence : e.status = journal'.terminal
    BY DEF IInv, StatusInv
  <2>4. journal.terminal # "None" => issued' \in {"None", "TerminalEvidenceWritten"}
    <3> SUFFICES ASSUME journal.terminal # "None"
                 PROVE  issued' \in {"None", "TerminalEvidenceWritten"}
      OBVIOUS
    <3>1. process.running => process.stage = "TerminalEvidenceWritten"
      BY DEF IInv, StatusInv
    <3>2. CASE EffectStep
      BY <3>1, <3>2 DEF EffectStep, Materialize, RunTest, Build, StageRoot, LinkRoot, UnlinkStaging,
         Copy, Dispatch, Poll, WriteEvidence, At
    <3>3. CASE ~EffectStep
      BY <3>3 DEF Next, Process, EffectStep, Begin, Enter, EnterEvidence, BlockedWrite, Crash,
         Target, Reboot, WriteFirstState, WriteIntent, WriteRecord, WriteReceipt, WriteOutcome,
         WriteFailedOutcome, WriteFailedStatus, WriteStatus
    <3> QED BY <3>2, <3>3
  <2> QED BY <2>1, <2>2, <2>3, <2>4 DEF DecidedOnce
<1> QED BY <1>1, Invariant, PTL DEF Spec, EvidenceIsFinal

\* A unit that the target knows is never started again, and runs line by line.
LEMMA UnitRunsOnce ==
  ASSUME IInv, Next, target.unit # "NotFound", target'.unit # "NotFound"
  PROVE  /\ target.unit # "Waiting" => target'.unit = target.unit
         /\ target'.line \in {target.line, target.line + 1}
<1>1. target \in TargetType
  BY DEF IInv, Typed
<1>2. CASE UNCHANGED target
  BY <1>2
<1>3. CASE UnitLine
  <2>1. \/ target' = [target EXCEPT !.old = target.running, !.line = @ + 1]
        \/ target' = [target EXCEPT !.profile = "New", !.line = @ + 1]
        \/ target' = [target EXCEPT !.loader = "New", !.line = @ + 1]
        \/ target' = [target EXCEPT !.default = target.old, !.line = @ + 1]
        \/ target' = [target EXCEPT !.oneshot = target.loader, !.unit = "Ready"]
        \/ target' = [target EXCEPT !.line = @ + 1]
    BY <1>1, <1>3 DEF UnitLine, TargetType
  <2>2. target'.line \in {target.line, target.line + 1}
    BY <1>1, <2>1 DEF TargetType
  <2> QED BY <1>3, <2>2 DEF UnitLine
<1>4. CASE UnitFails
  BY <1>1, <1>4 DEF UnitFails, TargetType
<1>5. CASE \E held \in BOOLEAN : target' = [target EXCEPT !.closure = held]
  BY <1>1, <1>5 DEF TargetType
<1>6. CASE Reboot
  BY <1>1, <1>6 DEF Reboot, TargetType
<1>7. CASE Copy \/ Build
  <2>1. UNCHANGED target \/ \E held \in BOOLEAN : target' = [target EXCEPT !.closure = held]
    BY <1>1, <1>7 DEF Copy, Build, TargetType
  <2> QED BY <1>2, <1>5, <2>1
<1>8. CASE Dispatch
  <2>1. UNCHANGED target
    BY <1>8 DEF Dispatch, UnitUnknown
  <2> QED BY <1>2, <2>1
<1>9. CASE Crash
  <2>1. UNCHANGED target \/ target' = [target EXCEPT !.closure = TRUE]
    BY <1>9 DEF Crash, Leftovers
  <2> QED BY <1>2, <1>5, <2>1
<1>10. CASE Collect
  <2>1. target' = [target EXCEPT !.closure = FALSE]
    BY <1>10 DEF Collect
  <2> QED BY <1>5, <2>1
<1>11. \/ UNCHANGED target \/ UnitLine \/ UnitFails \/ Collect
       \/ Reboot \/ Copy \/ Build \/ Dispatch \/ Crash
  BY DEF Next, Process, Target, Begin, Enter, EnterEvidence, BlockedWrite, WriteFirstState,
     WriteIntent, WriteRecord, WriteReceipt, WriteOutcome, WriteFailedOutcome,
     WriteFailedStatus, WriteStatus, Materialize, RunTest, StageRoot, LinkRoot,
     UnlinkStaging, Poll, WriteEvidence, Keeps, Idle
<1> QED BY <1>2, <1>3, <1>4, <1>6, <1>7, <1>8, <1>9, <1>10, <1>11

\* Whichever runs died where, no effect is issued whose outcome the journal holds,
\* nor a second root command while a staging link or a root is there, and no unit
\* runs its script again while the target knows it (bootstrap.rs, run: every stage
\* asks before it acts).
THEOREM EffectsOnce == Spec => CompletedEffectsNotRepeated
<1>1. IInv /\ [Next]_vars => [EffectsIssuedOnce]_vars
  <2> SUFFICES ASSUME IInv, Next PROVE EffectsIssuedOnce
    OBVIOUS
  <2>1. issued' # "None" => ~InPlace(issued')
    <3>1. CASE StageRoot
      BY <3>1 DEF StageRoot, InPlace, At
    <3>2. CASE Materialize \/ RunTest \/ Build \/ Copy \/ Dispatch \/ WriteEvidence
      <4>1. issued' \in {"None", process.stage} /\ ~Passed(process.stage)
        BY <3>2 DEF Materialize, RunTest, Build, Copy, Dispatch, WriteEvidence, At, IInv, DoneInv
      <4>2. process.stage # "GcRooted"
        BY <3>2 DEF Materialize, RunTest, Build, Copy, Dispatch, WriteEvidence, At
      <4> QED BY <4>1, <4>2 DEF InPlace
    <3>3. CASE LinkRoot \/ UnlinkStaging \/ Poll
      BY <3>3 DEF LinkRoot, UnlinkStaging, Poll
    <3>4. CASE ~EffectStep
      BY <3>4 DEF Next, Process, EffectStep, Begin, Enter, EnterEvidence, BlockedWrite, Crash,
         Target, Reboot, WriteFirstState, WriteIntent, WriteRecord, WriteReceipt, WriteOutcome,
         WriteFailedOutcome, WriteFailedStatus, WriteStatus
    <3> QED BY <3>1, <3>2, <3>3, <3>4 DEF EffectStep
  <2> QED BY <2>1, UnitRunsOnce DEF EffectsIssuedOnce
<1> QED BY <1>1, Invariant, PTL DEF Spec, CompletedEffectsNotRepeated

\* A boot-once that reports success had its unit run the whole script, and until
\* the target restarts it is armed for one boot of the new system and for the old
\* one after it, whichever runs died where (bootstrap.rs, the poll of the unit is
\* the only way past the last stage before the evidence).
THEOREM SuccessArmed == Spec => []SuccessMeansArmed
<1>1. IInv => SuccessMeansArmed
  BY DEF IInv, UnitInv, ArmedInv, Owed, SuccessMeansArmed
<1> QED BY <1>1, Invariant, PTL

=============================================================================
