------------------------------ MODULE Bootstrap ------------------------------
(***************************************************************************)
(* The daemon-free bootstrap (src/src/bootstrap.rs): one request, run       *)
(* again after every interruption until it reports.  A run keeps a private  *)
(* journal, carries the request through its stages, hands a GC root over,   *)
(* may arm one boot of a target into the new system, and leaves one piece   *)
(* of terminal evidence.  The process may die between any two steps, in     *)
(* the middle of a journal write, and in the middle of an effect.           *)
(***************************************************************************)
EXTENDS Naturals, Sequences

CONSTANTS
    Requests,    \* the requests explored: [mode, input, test, unsafe]
    MaxCrashes,  \* bound: how often the bootstrap process dies
    MaxReboots,  \* bound: how often the target machine restarts
    MaxPolls,    \* polls of the unit in one run (30 in the code)
    MaxNumber    \* bound: only writes numbered below it leave temporaries

ASSUME BootstrapBounds ==
    /\ MaxCrashes \in Nat /\ MaxReboots \in Nat
    /\ MaxPolls \in Nat \ {0} /\ MaxNumber \in Nat

VARIABLES
    request,     \* the inline request, the same for every run
    journal,     \* the journal directory and the state file in it
    temporaries, \* numbers of the temporary state files a crash left behind
    files,       \* what else the runs leave on disk
    process,     \* the running bootstrap process, if any
    target,      \* the machine the closure is armed on (external)
    reply,       \* the word the last run printed
    issued,      \* the effect the last step issued, "None" when it issued none
    armed,       \* whether a unit ever finished its whole script
    crashes, reboots

durable == <<journal, temporaries, files>>
vars == <<request, journal, temporaries, files, process, target, reply, issued,
          armed, crashes, reboots>>

-----------------------------------------------------------------------------
(* Requests and their admission. *)

\* What one request may be: a build, or a boot-once of a remote or of this
\* machine, from a direct or a Horizon input, with or without a hermetic test.
\* unsafe holds the names of its fields that do not validate.
RequestShapes ==
    [mode : {"BuildOnly", "Remote", "Local"}, input : {"Direct", "Horizon"},
     test : BOOLEAN, unsafe : SUBSET STRING]

ASSUME BootstrapRequests == Requests \subseteq RequestShapes

\* The fields of an input in the order they are validated.
InputFields(input) ==
    LET built == <<"flakeReference", "nixSystem", "outputSelector">>
    IN  IF input = "Direct"
        THEN built
        ELSE <<"clusterName", "proposalSource", "nodeName", "secretsInput">> \o built

\* The store URI and the ssh destination must also name the same identity.
IdentityFields == <<"nixStoreUri", "sshDestination", "sameIdentity">>

\* Both files are private to the caller.
PolicyFields == <<"identityFile", "knownHostsFile">>

\* The fields of an activation backend in the order they are validated.
BackendFields(mode) ==
    CASE mode = "Remote" ->
           IdentityFields \o PolicyFields \o <<"systemProfilePath", "bootEntriesDirectory">>
      [] mode = "Local" -> <<"systemProfilePath", "bootEntriesDirectory">>
      [] OTHER -> <<>>

TestFields(r) ==
    IF r.test THEN <<"testFlakeReference", "testNixSystem", "testOutputSelector">> ELSE <<>>

\* Every output path must lie in a private directory, and the two must differ.
OutputFields == <<"journalParent", "gcRootPath", "evidencePath", "outputsDiffer">>

FieldOrder(r) ==
    <<"requestId">> \o InputFields(r.input) \o <<"builder">> \o TestFields(r)
      \o BackendFields(r.mode) \o OutputFields

\* The first field that is refused, or "None".  Nothing has been written then.
Refusal(r) ==
    LET order == FieldOrder(r)
        bad == {i \in DOMAIN order : order[i] \in r.unsafe}
    IN  IF bad = {} THEN "None" ELSE order[CHOOSE i \in bad : \A j \in bad : i <= j]

\* The fields that validation looks up on disk.
PathFields(mode) ==
    {"proposalSource", "secretsInput", "identityFile", "knownHostsFile",
     "journalParent", "gcRootPath", "evidencePath"}
      \cup IF mode = "Local" THEN {"systemProfilePath", "bootEntriesDirectory"} ELSE {}

\* What a refusal prints: a path may be wrong, or not be readable at all.
RefusalWords(r) ==
    IF Refusal(r) \in PathFields(r.mode) THEN {"InvalidRequest", "JournalFailure"}
                                         ELSE {"InvalidRequest"}

-----------------------------------------------------------------------------
(* Stages and the journal. *)

Stages == <<"Materialized", "Tested", "Built", "GcRooted", "Copied",
            "BootOnceScheduled", "BootOnceActivated", "TerminalEvidenceWritten">>
StageNames == {Stages[i] : i \in DOMAIN Stages}
Position(stage) == CHOOSE i \in DOMAIN Stages : Stages[i] = stage
Following(stage) == Stages[Position(stage) + 1]

\* The stages that keep a value in the journal beside their three events.
RecordingStages == {"Materialized", "Built", "GcRooted"}

Kinds == {"Intent", "Receipt", "Outcome"}
Events == {"JournalCreated"} \X {"Outcome"} \X {TRUE}
            \cup StageNames \X Kinds \X BOOLEAN
Statuses == {"Succeeded", "Failed"}

\* Which stages the mode of the request calls for.
Applies(stage) ==
    CASE stage = "Tested" -> request.test
      [] stage = "Copied" -> request.mode = "Remote"
      [] stage \in {"BootOnceScheduled", "BootOnceActivated"} -> request.mode # "BuildOnly"
      [] OTHER -> TRUE

\* What tells a run that a stage is behind it.  Two stages are recognised by
\* the value they recorded, the others by a successful outcome.
SucceededAt(stage) == <<stage, "Outcome", TRUE>> \in journal.events
Passed(stage) ==
    CASE stage = "Materialized" -> journal.overrides
      [] stage = "Built" -> journal.closure
      [] OTHER -> SucceededAt(stage)

RootReceiptHolds == files.root = "Closure" /\ journal.rootReceipt

FreshJournal ==
    [directory |-> "Open", events |-> {<<"JournalCreated", "Outcome", TRUE>>},
     closure |-> FALSE, overrides |-> FALSE, rootReceipt |-> FALSE, terminal |-> "None"]
NoJournal == [FreshJournal EXCEPT !.directory = "Absent", !.events = {}]

-----------------------------------------------------------------------------
(* The process.  `stage` is the stage it is at, `at` the step within it,    *)
(* `writes` how many journal writes it has begun: their temporary files are *)
(* numbered from zero in every process.                                     *)

NoProcess == [running |-> FALSE, stage |-> "Materialized", at |-> "Enter", writes |-> 0,
              polls |-> 0, sawEvidence |-> FALSE]

WriteSteps == {"Create", "Intent", "Record", "Receipt", "Outcome", "FailedOutcome",
               "FailedStatus", "Status"}
Steps == WriteSteps \cup {"Enter", "Effect", "Link", "Unlink"}

At(stage, step) == process.running /\ process.stage = stage /\ process.at = step

To(stage, step) == [process EXCEPT !.stage = stage, !.at = step]
Here(step) == To(process.stage, step)

\* The first step behind an open journal: a recorded status skips the stages.
Opened(terminal) ==
    IF terminal = "None" THEN To("Materialized", "Enter")
                         ELSE To("TerminalEvidenceWritten", "Enter")

RefusalReplies == {"InvalidRequest", "JournalFailure", "EvidenceFailure"}
Replies == {"None", "PendingRecovery", "Succeeded", "Failed"} \cup RefusalReplies

\* The run ends and prints one word.
End(word) == process' = NoProcess /\ reply' = word

\* The run goes on in the given place.
GoOn(place) == process' = place /\ UNCHANGED reply

\* A failed effect: an unsuccessful outcome and a failed status will follow.
Fails == GoOn(Here("FailedOutcome"))

\* One replacement of the state file: a new temporary, then a rename over the
\* old one.  A temporary of that number left by a dead process refuses it.
Write(newJournal, place) ==
    /\ process.writes \notin temporaries
    /\ journal' = newJournal
    /\ GoOn([place EXCEPT !.writes = IF @ < MaxNumber THEN @ + 1 ELSE @])

Recorded(stage, kind, succeeded) ==
    [journal EXCEPT !.events = @ \cup {<<stage, kind, succeeded>>}]

Idle == UNCHANGED <<files, target, armed, crashes, reboots, request, temporaries>>

-----------------------------------------------------------------------------
(* Opening. *)

\* Validation reads whether the outputs exist; then the journal directory of
\* this request is created, or the one a former run left is opened.  A fresh
\* journal with an output already there is removed again.  A directory without
\* a state file is refused.
Begin ==
    /\ ~process.running
    /\ issued' = "None"
    /\ UNCHANGED <<temporaries, files, target, armed, crashes, reboots, request>>
    /\ \/ /\ Refusal(request) # "None"
          /\ \E word \in RefusalWords(request) : End(word)
          /\ UNCHANGED journal
       \/ /\ Refusal(request) = "None"
          /\ journal.directory = "Absent"
          /\ IF files.root # "None" \/ files.evidence # {}
             THEN End("InvalidRequest") /\ UNCHANGED journal
             ELSE /\ journal' = [journal EXCEPT !.directory = "Bare"]
                  /\ process' = [NoProcess EXCEPT !.running = TRUE, !.at = "Create"]
                  /\ UNCHANGED reply
       \/ /\ Refusal(request) = "None"
          /\ journal.directory = "Bare"
          /\ End("JournalFailure")
          /\ UNCHANGED journal
       \/ /\ Refusal(request) = "None"
          /\ journal.directory = "Open"
          /\ process' = [Opened(journal.terminal) EXCEPT !.running = TRUE,
                            !.writes = 0, !.polls = 0,
                            !.sawEvidence = files.evidence # {}]
          /\ UNCHANGED <<journal, reply>>

\* The first state file of a journal, with the outcome of its creation.
WriteFirstState ==
    /\ process.running /\ process.at = "Create"
    /\ Write(FreshJournal, Opened("None"))
    /\ issued' = "None"
    /\ Idle

-----------------------------------------------------------------------------
(* The journal writes around an effect. *)

\* The private ssh configuration is written once; a file of the right mode is
\* trusted whatever it holds.
SshConfigured ==
    IF files.sshConfig = "None" THEN [files EXCEPT !.sshConfig = "Full"] ELSE files

\* A stage that does not apply or is behind the run is passed over; the root
\* receipt is verified when it is.  The private ssh configuration is written
\* on the way into the copy stage.
Enter ==
    LET stage == process.stage IN
    /\ process.running /\ process.at = "Enter" /\ stage # "TerminalEvidenceWritten"
    /\ issued' = "None"
    /\ UNCHANGED <<journal, target, armed, crashes, reboots, request, temporaries>>
    /\ \/ /\ ~Applies(stage)
          /\ GoOn(To(Following(stage), "Enter"))
          /\ UNCHANGED files
       \/ /\ stage = "Copied" /\ Applies(stage) /\ files.sshConfig = "WrongMode"
          /\ End("InvalidRequest")
          /\ UNCHANGED files
       \/ /\ Applies(stage) /\ (stage = "Copied" => files.sshConfig # "WrongMode")
          /\ files' = IF stage = "Copied" THEN SshConfigured ELSE files
          /\ IF ~Passed(stage) THEN GoOn(Here("Intent"))
             ELSE IF stage = "GcRooted" /\ ~RootReceiptHolds THEN End("InvalidRequest")
             ELSE GoOn(To(Following(stage), "Enter"))

\* Past the last effect: the status, then the evidence, then the reply.
EnterEvidence ==
    /\ At("TerminalEvidenceWritten", "Enter")
    /\ issued' = "None"
    /\ Idle /\ UNCHANGED journal
    /\ IF journal.terminal = "None" THEN GoOn(Here("Status"))
       ELSE IF SucceededAt("TerminalEvidenceWritten") THEN End(journal.terminal)
       ELSE GoOn(Here("Intent"))

WriteIntent ==
    /\ process.running /\ process.at = "Intent"
    /\ Write(Recorded(process.stage, "Intent", TRUE), Here("Effect"))
    /\ issued' = "None"
    /\ Idle

\* The value of a recording stage: the overrides, the closure, the identity
\* of the root.
WriteRecord ==
    /\ process.running /\ process.at = "Record"
    /\ Write(CASE process.stage = "Materialized" -> [journal EXCEPT !.overrides = TRUE]
               [] process.stage = "Built" -> [journal EXCEPT !.closure = TRUE]
               [] OTHER -> [journal EXCEPT !.rootReceipt = TRUE],
             Here("Receipt"))
    /\ issued' = "None"
    /\ Idle

WriteReceipt ==
    /\ process.running /\ process.at = "Receipt"
    /\ Write(Recorded(process.stage, "Receipt", TRUE), Here("Outcome"))
    /\ issued' = "None"
    /\ Idle

WriteOutcome ==
    /\ process.running /\ process.at = "Outcome"
    /\ Write(Recorded(process.stage, "Outcome", TRUE),
             IF process.stage = "TerminalEvidenceWritten" THEN Here("Enter")
             ELSE To(Following(process.stage), "Enter"))
    /\ issued' = "None"
    /\ Idle

\* A failed effect: its outcome, then the status that ends the request.
WriteFailedOutcome ==
    /\ process.running /\ process.at = "FailedOutcome"
    /\ Write(Recorded(process.stage, "Outcome", FALSE), Here("FailedStatus"))
    /\ issued' = "None"
    /\ Idle

WriteFailedStatus ==
    /\ process.running /\ process.at = "FailedStatus"
    /\ Write([journal EXCEPT !.terminal = "Failed"], To("TerminalEvidenceWritten", "Enter"))
    /\ issued' = "None"
    /\ Idle

WriteStatus ==
    /\ At("TerminalEvidenceWritten", "Status")
    /\ Write([journal EXCEPT !.terminal = "Succeeded"], Here("Enter"))
    /\ issued' = "None"
    /\ Idle

\* A write whose temporary number a dead process left behind.
BlockedWrite ==
    /\ process.running /\ process.at \in WriteSteps
    /\ process.writes \in temporaries
    /\ End("JournalFailure")
    /\ issued' = "None"
    /\ Idle /\ UNCHANGED journal

-----------------------------------------------------------------------------
(* The effects. *)

Keeps == UNCHANGED <<journal, temporaries, crashes, reboots, request>>

\* The four generated flakes, in a directory of their own.
GeneratedInputs == [files EXCEPT !.generated = TRUE]

\* A direct input materializes nothing.  A Horizon input makes its directory,
\* which must not exist, and fills and hashes it.
Materialize ==
    /\ At("Materialized", "Effect")
    /\ issued' = "Materialized"
    /\ Keeps /\ UNCHANGED <<target, armed>>
    /\ \/ /\ request.input = "Direct"
          /\ GoOn(Here("Record"))
          /\ UNCHANGED files
       \/ /\ request.input = "Horizon" /\ ~files.generated
          /\ files' = GeneratedInputs
          /\ GoOn(Here("Record")) \/ Fails
       \/ /\ request.input = "Horizon" /\ files.generated
          /\ Fails
          /\ UNCHANGED files

\* The hermetic test, and the evaluation with the build: one command or two,
\* succeeding or not.
RunTest ==
    /\ At("Tested", "Effect")
    /\ issued' = "Tested"
    /\ GoOn(Here("Receipt")) \/ Fails
    /\ Keeps /\ UNCHANGED <<files, target, armed>>

Build ==
    /\ At("Built", "Effect")
    /\ issued' = "Built"
    /\ Keeps /\ UNCHANGED <<files, armed>>
    /\ \/ /\ GoOn(Here("Record"))
          /\ target' = [target EXCEPT !.closure = @ \/ request.mode = "Local"]
       \/ Fails /\ UNCHANGED target

\* Mutant: the link in staging is taken for the root.
HandOver_Skipped == Here("Record")

\* Mutant: the staging name goes before the final name is there.
HandOver_UnlinksFirst == Here("Unlink")

\* A staging link is handed over: linked, then unlinked.
HandOver == Here("Link")

\* What a former run left decides: the root itself is taken as it is, a
\* staging link is handed over, both at once are refused, neither runs the
\* root command into staging.
StageRoot ==
    /\ At("GcRooted", "Effect")
    /\ Keeps /\ UNCHANGED <<target, armed>>
    /\ \/ /\ files.staging /\ files.root # "None"
          /\ End("InvalidRequest")
          /\ issued' = "None" /\ UNCHANGED files
       \/ /\ files.staging /\ files.root = "None"
          /\ GoOn(HandOver)
          /\ issued' = "None" /\ UNCHANGED files
       \/ /\ ~files.staging /\ files.root # "None"
          /\ IF files.root = "Closure" THEN GoOn(Here("Record")) ELSE End("InvalidRequest")
          /\ issued' = "None" /\ UNCHANGED files
       \/ /\ ~files.staging /\ files.root = "None"
          /\ issued' = "GcRooted"
          /\ \/ GoOn(HandOver) /\ files' = [files EXCEPT !.staging = TRUE]
             \/ Fails /\ UNCHANGED files

\* The hand-over: a hard link under the final name, then the staging name goes.
LinkRoot ==
    /\ At("GcRooted", "Link")
    /\ issued' = "None"
    /\ Keeps /\ UNCHANGED <<target, armed>>
    /\ IF files.root = "None"
       THEN files' = [files EXCEPT !.root = "Closure"] /\ GoOn(Here("Unlink"))
       ELSE End("JournalFailure") /\ UNCHANGED files

UnlinkStaging ==
    /\ At("GcRooted", "Unlink")
    /\ issued' = "None"
    /\ files' = [files EXCEPT !.staging = FALSE]
    /\ GoOn(Here("Record"))
    /\ Keeps /\ UNCHANGED <<target, armed>>

\* The target is asked first.  A closure it says it holds is not copied; a query
\* that fails on the target says that it does not, and the copy is made again.  A
\* target that cannot be reached leaves the run pending.
Copy ==
    /\ At("Copied", "Effect")
    /\ Keeps /\ UNCHANGED <<files, armed>>
    /\ \/ /\ End("PendingRecovery")
          /\ issued' = "None" /\ UNCHANGED target
       \/ /\ target.closure
          /\ GoOn(Here("Receipt"))
          /\ issued' = "None" /\ UNCHANGED target
       \/ /\ issued' = "Copied"
          /\ \/ GoOn(Here("Receipt")) /\ target' = [target EXCEPT !.closure = TRUE]
             \/ Fails /\ UNCHANGED target

\* Mutant: a failed unit is started again.
UnitUnknown_OrFailed == target.unit \in {"NotFound", "Failed"}

UnitUnknown == target.unit = "NotFound"

UnitStarted == [target EXCEPT !.unit = "Waiting", !.line = 1]

\* The unit is started only when the target does not know it; an error, even
\* one after the start, leaves the run pending.  A query that fails on the target
\* says that it does not know the unit: systemd-run then refuses the name, which is
\* the same in every run.
Dispatch ==
    /\ At("BootOnceScheduled", "Effect")
    /\ Keeps /\ UNCHANGED <<files, armed>>
    /\ \/ /\ End("PendingRecovery")
          /\ issued' = "None" /\ UNCHANGED target
       \/ /\ ~UnitUnknown
          /\ GoOn(Here("Receipt"))
          /\ issued' = "None" /\ UNCHANGED target
       \/ /\ ~UnitUnknown
          /\ issued' = "BootOnceScheduled"
          /\ End("PendingRecovery")
          /\ UNCHANGED target
       \/ /\ UnitUnknown
          /\ issued' = "BootOnceScheduled"
          /\ target' = UnitStarted
          /\ GoOn(Here("Receipt")) \/ End("PendingRecovery")

\* Mutant: a unit that is gone counts as done.
ReadyUnits_OrGone == {"Ready", "NotFound"}

ReadyUnits == {"Ready"}

\* Mutant: the count of polls starts again at its bound.
PolledAgain_Wraps == {[process EXCEPT !.polls = (@ + 1) % MaxPolls]}

\* The place of the next poll, if there is one.
PolledAgain ==
    IF process.polls + 1 < MaxPolls THEN {[process EXCEPT !.polls = @ + 1]} ELSE {}

\* One poll of the unit.  A query that fails, a unit that is gone, and the
\* last poll of a unit that still waits leave the run pending.
Poll ==
    /\ At("BootOnceActivated", "Effect")
    /\ issued' = "None"
    /\ Keeps /\ UNCHANGED <<files, target, armed>>
    /\ \/ End("PendingRecovery")
       \/ target.unit \in ReadyUnits /\ GoOn(Here("Receipt"))
       \/ target.unit = "Failed" /\ Fails
       \/ target.unit = "Waiting" /\ \E place \in PolledAgain : GoOn(place)

\* Mutant: the status is judged from the outcomes of the stages.
EvidenceOf_Judged(effects) ==
    [status |-> IF \E e \in effects : ~e[2] THEN "Failed" ELSE "Succeeded", effects |-> effects]

EvidenceOf(effects) == [status |-> journal.terminal, effects |-> effects]

\* What is there binds this request and its status.
EvidenceBinds == \E e \in files.evidence : e.status = journal.terminal

\* What is written is linked under a name that must not exist.
NewEvidence ==
    [files EXCEPT !.evidence =
        {EvidenceOf({<<e[1], e[3]>> : e \in {x \in journal.events : x[2] = "Outcome"}})}]

\* The evidence: written once under a name that must not exist, or, when this
\* run saw it while validating, compared with the status.
WriteEvidence ==
    /\ At("TerminalEvidenceWritten", "Effect")
    /\ issued' = "TerminalEvidenceWritten"
    /\ Keeps /\ UNCHANGED <<target, armed>>
    /\ IF process.sawEvidence
       THEN /\ IF EvidenceBinds THEN GoOn(Here("Receipt")) ELSE End("InvalidRequest")
            /\ UNCHANGED files
       ELSE IF files.evidence # {}
       THEN End("EvidenceFailure") /\ UNCHANGED files
       ELSE /\ files' = NewEvidence
            /\ GoOn(Here("Receipt"))

-----------------------------------------------------------------------------
(* The death of the process, in the middle of what it was doing. *)

\* A write may leave its temporary; the entry into the copy stage a half
\* written ssh configuration; an effect may have taken place.
Leftovers ==
    \/ /\ process.at \in WriteSteps
       /\ process.writes \notin temporaries /\ process.writes < MaxNumber
       /\ temporaries' = temporaries \cup {process.writes}
       /\ UNCHANGED <<files, target>>
    \/ /\ At("Copied", "Enter") /\ Applies("Copied") /\ files.sshConfig = "None"
       /\ \E content \in {"WrongMode", "Empty"} : files' = [files EXCEPT !.sshConfig = content]
       /\ UNCHANGED <<temporaries, target>>
    \/ /\ At("Materialized", "Effect") /\ request.input = "Horizon"
       /\ files' = GeneratedInputs
       /\ UNCHANGED <<temporaries, target>>
    \/ /\ At("Copied", "Effect")
       /\ target' = [target EXCEPT !.closure = TRUE]
       /\ UNCHANGED <<temporaries, files>>
    \/ /\ At("BootOnceScheduled", "Effect") /\ target.unit = "NotFound"
       /\ target' = UnitStarted
       /\ UNCHANGED <<temporaries, files>>
    \/ UNCHANGED <<temporaries, files, target>>

Crash ==
    /\ process.running /\ crashes < MaxCrashes
    /\ crashes' = crashes + 1
    /\ Leftovers
    /\ End("None")
    /\ issued' = "None"
    /\ UNCHANGED <<journal, armed, reboots, request>>

-----------------------------------------------------------------------------
(* The target (external): its unit runs the script line by line, under      *)
(* set -e, and a restart boots the one-shot entry, else the pinned default, *)
(* else the default of loader.conf, and forgets the transient unit.         *)

\* The lines of the unit's script: the old entry stays the default, and the new
\* one is armed for exactly one boot.
ScriptLines == <<"ReadOld", "SetProfile", "BootConfiguration", "ReadNew", "DefaultOld",
                 "OneshotNew">>

FirstTarget ==
    [closure |-> FALSE, unit |-> "NotFound", line |-> 1, old |-> "Old",
     profile |-> "Old", loader |-> "Old", default |-> "None",
     oneshot |-> "None", running |-> "Old"]

NextBoot == IF target.oneshot # "None" THEN target.oneshot
            ELSE IF target.default # "None" THEN target.default ELSE target.loader

UnitLine ==
    LET line == ScriptLines[target.line]
        Done(t) == IF line = "OneshotNew" THEN [t EXCEPT !.unit = "Ready"]
                                          ELSE [t EXCEPT !.line = @ + 1]
    IN  /\ target.unit = "Waiting"
        /\ line = "SetProfile" => target.closure
        /\ line = "ReadNew" => target.loader # target.old
        /\ target' = Done(CASE line = "ReadOld" -> [target EXCEPT !.old = target.running]
                            [] line = "SetProfile" -> [target EXCEPT !.profile = "New"]
                            [] line = "BootConfiguration" -> [target EXCEPT !.loader = "New"]
                            [] line = "DefaultOld" -> [target EXCEPT !.default = target.old]
                            [] line = "OneshotNew" -> [target EXCEPT !.oneshot = target.loader]
                            [] OTHER -> target)
        /\ armed' = (armed \/ line = "OneshotNew")

UnitFails ==
    /\ target.unit = "Waiting"
    /\ target' = [target EXCEPT !.unit = "Failed"]
    /\ UNCHANGED armed

\* The store of a remote target may collect a closure no profile holds yet.
Collect ==
    /\ request.mode = "Remote" /\ target.closure /\ target.profile # "New"
    /\ target' = [target EXCEPT !.closure = FALSE]
    /\ UNCHANGED armed

\* A restart of a local target ends the bootstrap process with it.
Reboot ==
    /\ request.mode # "BuildOnly" /\ reboots < MaxReboots
    /\ request.mode = "Local" => ~process.running
    /\ reboots' = reboots + 1
    /\ target' = [target EXCEPT !.running = NextBoot, !.oneshot = "None",
                                !.unit = "NotFound", !.line = 1]
    /\ UNCHANGED <<durable, armed, process, reply, crashes, request>>
    /\ issued' = "None"

Target ==
    /\ UnitLine \/ UnitFails \/ Collect
    /\ issued' = "None"
    /\ UNCHANGED <<durable, process, reply, crashes, reboots, request>>

-----------------------------------------------------------------------------
Init ==
    /\ request \in Requests
    /\ journal = NoJournal
    /\ temporaries = {}
    /\ files \in [generated : {FALSE}, staging : {FALSE}, root : {"None", "Foreign"},
                  sshConfig : {"None"}, evidence : {{}}]
    /\ process = NoProcess
    /\ target = FirstTarget
    /\ reply = "None" /\ issued = "None" /\ armed = FALSE
    /\ crashes = 0 /\ reboots = 0

Process ==
    \/ WriteFirstState \/ Enter \/ EnterEvidence
    \/ WriteIntent \/ WriteRecord \/ WriteReceipt \/ WriteOutcome
    \/ WriteFailedOutcome \/ WriteFailedStatus \/ WriteStatus \/ BlockedWrite
    \/ Materialize \/ RunTest \/ Build \/ StageRoot \/ LinkRoot \/ UnlinkStaging
    \/ Copy \/ Dispatch \/ Poll \/ WriteEvidence

Next == Begin \/ Process \/ Crash \/ Target \/ Reboot

\* A process that runs is scheduled, and every command it issues returns (the
\* executor waits for one without a timeout); nobody promises to run the request
\* again.
Spec == Init /\ [][Next]_vars /\ WF_vars(Process)

-----------------------------------------------------------------------------
(* Properties. *)

\* The types of the variables.
TypeOK ==
    /\ request \in Requests
    /\ journal \in [directory : {"Absent", "Bare", "Open"}, events : SUBSET Events,
                    closure : BOOLEAN, overrides : BOOLEAN, rootReceipt : BOOLEAN,
                    terminal : Statuses \cup {"None"}]
    /\ temporaries \subseteq Nat
    /\ files.root \in {"None", "Closure", "Foreign"}
    /\ process.stage \in StageNames /\ process.at \in Steps
    /\ target.unit \in {"NotFound", "Waiting", "Ready", "Failed"}
    /\ reply \in Replies

\* No target is armed, or even has its profile set, before the closure has its
\* GC root under the name the caller chose (README: "the built system closure
\* receives a caller-selected durable GC root before any activation"),
\* whichever runs died where.  The link is a root where the collector looks for it.
RootedBeforeActivation ==
    target.unit # "NotFound" \/ target.profile = "New" => files.root = "Closure"

\* Whichever runs died where, an effect whose outcome the journal holds is not
\* issued again, nor a second root command while a staging link or a root is there.
\* A copy and a start of the unit may be issued again when the target does not
\* answer for itself, but no unit runs its script again while the target knows it:
\* one that ended stays so, and no line is run twice.  (README: a rerun "does not
\* repeat a rooted closure, copied closure, or dispatched unit".)
InPlace(effect) ==
    IF effect = "GcRooted" THEN files.staging \/ files.root # "None" ELSE Passed(effect)
EffectsIssuedOnce ==
    /\ issued' # "None" => ~InPlace(issued')
    /\ target.unit # "NotFound" /\ target'.unit # "NotFound" =>
         /\ target.unit # "Waiting" => target'.unit = target.unit
         /\ target'.line \in {target.line, target.line + 1}
CompletedEffectsNotRepeated == [][EffectsIssuedOnce]_vars

\* The link that keeps the closure is under the staging name or the final name
\* at every moment of the hand-over, and the final name is never replaced.
LinkKept ==
    /\ files.staging => files'.staging \/ files'.root = "Closure"
    /\ files.root # "None" => files'.root = files.root
RootLinkNeverLost == [][LinkKept]_vars

\* Evidence is written once, says what the journal decided, and nothing is
\* decided again afterwards: a status never changes, and once it is there no
\* effect but the evidence is issued, whatever is run again.
DecidedOnce ==
    /\ journal.terminal # "None" =>
         journal'.terminal = journal.terminal /\ issued' \in {"None", "TerminalEvidenceWritten"}
    /\ files.evidence # {} => files'.evidence = files.evidence
    /\ \A e \in files'.evidence : e.status = journal'.terminal
EvidenceIsFinal == [][DecidedOnce]_vars

\* A boot-once request that reports success had its unit run the whole
\* script, and until the target restarts it will boot the new system exactly
\* once and then the old one.
SuccessMeansArmed ==
    journal.terminal = "Succeeded" /\ request.mode # "BuildOnly" =>
        /\ armed
        /\ target.unit = "Ready" => target.oneshot = "New" /\ target.default = "Old"

\* Every run whose commands return ends: it does not poll, or go through its stages,
\* for ever.
EveryRunEnds == process.running ~> ~process.running

\* What the README promises of a rerun, and the code does not keep: a request
\* that was admitted is never refused when it is run again.
RerunIsNeverRefused ==
    reply \in RefusalReplies => Refusal(request) # "None" \/ files.root = "Foreign"
=============================================================================
