---------------------------- MODULE DeployPipeline ----------------------------
(***************************************************************************)
(* The life of a deployment in the daemon: the DeployJobs actor admits it  *)
(* under a cap and launches its pipeline (src/daemon.rs), the pipeline     *)
(* runs its effects and records its phases (src/schema_runtime.rs), a      *)
(* detached test activation is watched by an observer, and a restarted     *)
(* daemon reconciles every job row that is left.                           *)
(*                                                                         *)
(* A public transition is two steps here: its first commit, after which it *)
(* is `undelivered', and its delivery.  TransitionJournal models what lies *)
(* between, its recovery by a reopening store, and when it is refused.     *)
(*                                                                         *)
(* The pipeline keeps its cursor in memory and in its job row.  The two    *)
(* agree whenever it waits for anything, so the row stands for both.       *)
(***************************************************************************)
EXTENDS Integers, Sequences, FiniteSets

CONSTANTS
  Deployments,   \* deployment identifiers
  Closures,      \* store paths of what deployments build
  Installed,     \* the closure that the daemon host's system profile names at first
  Requests,      \* bound: what is asked for, and the closure its source builds to
  Cap,           \* MAXIMUM_CONCURRENT_DEPLOYS, 8 in the daemon
  MaxCrashes,    \* bound: crashes of the daemon
  MaxFaults      \* bound: refused deliveries and broken observers

\* What a deployment asks for.  Two deployments of one source build one closure.
\* SelfSwitch and SelfTest are the host actions
\* ActivateNow and TestActivation on the daemon's own host; Activate is any
\* other activation, of a host or of a user environment.  A composed deployment
\* has Horizon inputs to materialize.
Actions == {"Evaluate", "Realize", "Activate", "SelfSwitch", "SelfTest"}

ASSUME PipelineAssumption ==
  /\ Cap \in Nat \ {0} /\ MaxCrashes \in Nat /\ MaxFaults \in Nat
  /\ Requests \subseteq [action : Actions, composed : BOOLEAN, output : Closures]
  /\ Installed \in Closures

ProducesClosure(action) == action # "Evaluate"
Activates(action)       == action \in {"Activate", "SelfSwitch", "SelfTest"}

Phases    == {"Building", "Copying", "Activated"}
Terminals == {"Completed", "Failed", "Rejected"}

Stages == {"Submitted", "BuildingRecorded", "CopyingRecorded", "ActivatedRecorded"}

\* DeployResumeStage, in the order a pipeline passes through it.
ResumeOrder == <<"ResolveFlakeAuth", "MaterializeHorizon", "RecordBuilding", "NixEval",
                 "NixBuild", "CopyClosure", "ActivateGeneration",
                 "RecordGenerationActivated", "FinishDeployment">>
ResumeStages == {ResumeOrder[i] : i \in 1 .. Len(ResumeOrder)}

JobPhases == {"Submitted", "Building", "Built", "Copying", "Activating", "Activated", "Failed"}

Effects == {"ResolveFlakeAuth", "MaterializeHorizon", "NixEval", "NixBuild", "CopyClosure",
            "ActivateGeneration"}

VARIABLES
  request,      \* what each admitted deployment asks for
  lifecycle,    \* lifecycle of each deployment record
  phases,       \* public transitions begun, in order
  undelivered,  \* deployments whose last transition is not acknowledged
  job,          \* deploy job rows, the durable cursors
  live,         \* deployments whose generation record_activation committed
  retired,      \* deployments whose last phase event left the public event log
  world,        \* the activation on its target, outside the daemon
  profile,      \* closure the daemon host's system profile names
  dispatched,   \* how often each activation was started
  engine,       \* volatile: each deployment's pipeline task
  closer,       \* volatile: observer or reconciler of each deployment
  active,       \* volatile: active_count of the DeployJobs actor
  mode,         \* volatile: serving, down, or reconciling persisted jobs
  unreconciled, \* volatile: jobs the reconciling actor has still to visit
  crashes, faults   \* bounds only

durable  == <<request, lifecycle, phases, undelivered, job, live, retired>>
outside  == <<world, profile, dispatched>>
volatile == <<engine, closer, active, mode, unreconciled>>
vars     == <<durable, outside, volatile, crashes, faults>>

NoJob == [phase |-> "None"]

Job == {NoJob} \union
  [phase : JobPhases, resume : ResumeStages,
   closure : {"none", "derivation", "output"}, receipt : {"none"} \union Phases]

\* stage: DeployStage.  next: the transition to begin, or the one in delivery.
Engine == [at : {"idle", "admit", "begin", "deliver", "receipt", "activating",
                 "await", "recordActivation", "markActivated", "completed"} \union Effects,
           stage : Stages, next : {"none", "Submitted"} \union Phases \union Terminals]

IdleEngine == [at |-> "idle", stage |-> "Submitted", next |-> "none"]

Closer == [at : {"none", "watching", "record", "begin", "deliver", "clean"},
           outcome : {"none", "Completed", "Failed"}]

NoCloser == [at |-> "none", outcome |-> "none"]

NoRequest == [action |-> "none", composed |-> FALSE, output |-> "none"]

TypeOK ==
  /\ request \in [Deployments -> {NoRequest} \union Requests]
  /\ lifecycle \in [Deployments -> {"Absent", "Submitted"} \union Phases \union Terminals]
  /\ phases \in [Deployments -> Seq({"Submitted"} \union Phases \union Terminals)]
  /\ undelivered \subseteq Deployments
  /\ job \in [Deployments -> Job]
  /\ live \subseteq Deployments /\ retired \subseteq Deployments
  /\ world \in [Deployments -> {"untouched", "running", "switching", "succeeded", "failed",
                                "cleaned"}]
  /\ profile \in Closures
  /\ dispatched \in [Deployments -> Nat]
  /\ engine \in [Deployments -> Engine]
  /\ closer \in [Deployments -> Closer]
  /\ active \in Nat
  /\ mode \in {"serving", "down", "reconciling"}
  /\ unreconciled \subseteq Deployments
  /\ crashes \in 0 .. MaxCrashes /\ faults \in 0 .. MaxFaults

Init ==
  /\ request = [d \in Deployments |-> NoRequest]
  /\ lifecycle = [d \in Deployments |-> "Absent"]
  /\ phases = [d \in Deployments |-> <<>>]
  /\ undelivered = {}
  /\ job = [d \in Deployments |-> NoJob]
  /\ live = {} /\ retired = {}
  /\ world = [d \in Deployments |-> "untouched"]
  /\ profile = Installed
  /\ dispatched = [d \in Deployments |-> 0]
  /\ engine = [d \in Deployments |-> IdleEngine]
  /\ closer = [d \in Deployments |-> NoCloser]
  /\ active = 0
  /\ mode = "serving"
  /\ unreconciled = {}
  /\ crashes = 0 /\ faults = 0

-----------------------------------------------------------------------------
Action(d)        == request[d].action
At(d, s)         == mode # "down" /\ engine[d].at = s
CloserAt(d, s)   == mode # "down" /\ closer[d].at = s
HasJob(d)        == job[d] # NoJob
Concluded(d)     == lifecycle[d] \in Terminals

GoTo(d, at)      == engine' = [engine EXCEPT ![d].at = at]
BeginNext(d, t)  == engine' = [engine EXCEPT ![d].at = "begin", ![d].next = t]

\* persist_job_cursor: the row's phase and resume stage, with what the pipeline
\* knows of its closure.
Persist(d, phase, resume) ==
  job' = [job EXCEPT ![d].phase = phase, ![d].resume = resume]

\* Mutant: one pipeline more than the cap is let in.
AtCapacity_OffByOne == active > Cap

AtCapacity == active >= Cap

ActorFree == mode = "serving" /\ \A d \in Deployments : engine[d].at # "admit"

\* AdmitDeploy under the cap: the job row and the record are one commit.
Admit(d, wanted) ==
  /\ ActorFree /\ ~ AtCapacity
  /\ lifecycle[d] = "Absent"
  /\ request' = [request EXCEPT ![d] = wanted]
  /\ lifecycle' = [lifecycle EXCEPT ![d] = "Submitted"]
  /\ phases' = [phases EXCEPT ![d] = <<"Submitted">>]
  /\ undelivered' = undelivered \union {d}
  /\ job' = [job EXCEPT ![d] = [phase |-> "Submitted", resume |-> "ResolveFlakeAuth",
                                closure |-> "none", receipt |-> "none"]]
  /\ GoTo(d, "admit")
  /\ UNCHANGED <<live, retired, outside, closer, active, mode, unreconciled, crashes,
                 faults>>

\* The admission is delivered; the actor counts the pipeline and launches it.
Launch(d) ==
  /\ At(d, "admit")
  /\ undelivered' = undelivered \ {d}
  /\ active' = active + 1
  /\ GoTo(d, "ResolveFlakeAuth")
  /\ UNCHANGED <<request, lifecycle, phases, job, live, retired, outside, closer, mode,
                 unreconciled, crashes, faults>>

\* At the cap the request gets a terminal record of its own and no job.
RejectAtCapacity(d) ==
  /\ ActorFree /\ AtCapacity
  /\ lifecycle[d] = "Absent"
  /\ lifecycle' = [lifecycle EXCEPT ![d] = "Rejected"]
  /\ phases' = [phases EXCEPT ![d] = <<"Rejected">>]
  /\ UNCHANGED <<request, undelivered, job, live, retired, outside, volatile, crashes,
                 faults>>

\* DeployCompleted frees the slot; the actor takes it between its other messages.
FreeSlot(d) ==
  /\ ActorFree
  /\ At(d, "completed")
  /\ active' = IF active = 0 THEN 0 ELSE active - 1
  /\ engine' = [engine EXCEPT ![d] = IdleEngine]
  /\ UNCHANGED <<durable, outside, closer, mode, unreconciled, crashes, faults>>

-----------------------------------------------------------------------------
(* Transitions of the pipeline, and what follows them.                     *)

\* record_phase: the resume stage that a recorded phase commits to.
ResumeAfter == [Building  |-> "NixEval",
                Copying   |-> "ActivateGeneration",
                Activated |-> "RecordGenerationActivated"]

\* The phase commit carries the cursor with the receipt of the phase before it.
BeginPhase(d) ==
  LET phase == engine[d].next
  IN  /\ At(d, "begin") /\ phase \in Phases
      /\ HasJob(d) /\ d \notin undelivered
      /\ lifecycle' = [lifecycle EXCEPT ![d] = phase]
      /\ phases' = [phases EXCEPT ![d] = Append(@, phase)]
      /\ undelivered' = undelivered \union {d}
      /\ Persist(d, phase, ResumeAfter[phase])
      /\ retired' = retired \ {d}
      /\ GoTo(d, "deliver")
      /\ UNCHANGED <<request, live, outside, closer, active, mode, unreconciled, crashes,
                     faults>>

\* begin_terminal_transition, by whichever task concludes the deployment.
Terminalize(d, outcome) ==
  /\ ~ Concluded(d) /\ d \notin undelivered
  /\ lifecycle' = [lifecycle EXCEPT ![d] = outcome]
  /\ phases' = [phases EXCEPT ![d] = Append(@, outcome)]
  /\ undelivered' = undelivered \union {d}
  /\ IF HasJob(d)
     THEN Persist(d, IF outcome = "Completed" THEN "Activated" ELSE "Failed",
                  "FinishDeployment")
     ELSE UNCHANGED job

BeginTerminal(d) ==
  /\ At(d, "begin") /\ engine[d].next \in Terminals
  /\ Terminalize(d, engine[d].next)
  /\ GoTo(d, "deliver")
  /\ UNCHANGED <<request, live, retired, outside, closer, active, mode, unreconciled,
                 crashes, faults>>

\* The acknowledgement of a terminal transition retracts the job.
DeliverPhase(d) ==
  /\ At(d, "deliver") /\ engine[d].next \in Phases
  /\ undelivered' = undelivered \ {d}
  /\ GoTo(d, "receipt")
  /\ UNCHANGED <<request, lifecycle, phases, job, live, retired, outside, closer, active,
                 mode, unreconciled, crashes, faults>>

DeliverTerminal(d) ==
  /\ At(d, "deliver") /\ engine[d].next \in Terminals
  /\ undelivered' = undelivered \ {d}
  /\ job' = [job EXCEPT ![d] = NoJob]
  /\ GoTo(d, "completed")
  /\ UNCHANGED <<request, lifecycle, phases, live, retired, outside, closer, active, mode,
                 unreconciled, crashes, faults>>

\* The journal refuses the delivery (TransitionJournal!Refuse): the pipeline
\* cannot terminalize past it either and ends; an admission gets no pipeline,
\* and a test's unit is not stopped.
RefuseDelivery(d) ==
  /\ faults < MaxFaults
  /\ faults' = faults + 1
  /\ \/ /\ At(d, "deliver") \/ At(d, "admit")
        /\ engine' = [engine EXCEPT ![d] =
             IF @.at = "admit" THEN IdleEngine ELSE [@ EXCEPT !.at = "completed"]]
        /\ UNCHANGED closer
     \/ /\ CloserAt(d, "deliver")
        /\ closer' = [closer EXCEPT ![d] = NoCloser]
        /\ UNCHANGED engine
  /\ UNCHANGED <<durable, outside, active, mode, unreconciled, crashes>>

\* advance_after_phase: where each stage continues.
NextStage == [Submitted        |-> "BuildingRecorded",
              BuildingRecorded |-> "CopyingRecorded",
              CopyingRecorded  |-> "ActivatedRecorded"]
NextStep  == [Submitted        |-> "NixEval",
              BuildingRecorded |-> "activating",
              CopyingRecorded  |-> "recordActivation"]

PersistReceipt(d) ==
  /\ At(d, "receipt")
  /\ job' = [job EXCEPT ![d].receipt = engine[d].next]
  /\ engine' = [engine EXCEPT ![d] =
       [at |-> NextStep[@.stage], stage |-> NextStage[@.stage], next |-> "none"]]
  /\ UNCHANGED <<request, lifecycle, phases, undelivered, live, retired, outside, closer,
                 active, mode, unreconciled, crashes, faults>>

\* Mutant: the row stays in its Copying phase while the activation runs.
ActivatingPhase_Late(d) == job[d].phase

ActivatingPhase(d) == "Activating"

\* The row is marked before the activation is started.
PersistActivating(d) ==
  /\ At(d, "activating")
  /\ Persist(d, ActivatingPhase(d), job[d].resume)
  /\ GoTo(d, "ActivateGeneration")
  /\ UNCHANGED <<request, lifecycle, phases, undelivered, live, retired, outside, closer,
                 active, mode, unreconciled, crashes, faults>>

\* record_generation_activated: the live generation first, the cursor after it.
RecordActivation(d) ==
  /\ At(d, "recordActivation")
  /\ live' = live \union {d}
  /\ GoTo(d, "markActivated")
  /\ UNCHANGED <<request, lifecycle, phases, undelivered, job, retired, outside, closer,
                 active, mode, unreconciled, crashes, faults>>

MarkActivated(d) ==
  /\ At(d, "markActivated")
  /\ Persist(d, "Activated", "FinishDeployment")
  /\ BeginNext(d, "Completed")
  /\ UNCHANGED <<request, lifecycle, phases, undelivered, live, retired, outside, closer,
                 active, mode, unreconciled, crashes, faults>>

-----------------------------------------------------------------------------
(* Effects: nix, ssh and systemd run outside the daemon.                   *)

\* Any effect may fail before it changes its target: fail_pipeline.
EffectFails(d) ==
  /\ \E effect \in Effects : At(d, effect)
  /\ BeginNext(d, "Failed")
  /\ UNCHANGED <<durable, outside, closer, active, mode, unreconciled, crashes, faults>>

UnchangedByEffect == <<request, lifecycle, phases, undelivered, live, retired, outside,
                       closer, active, mode, unreconciled, crashes, faults>>

ResumeAfterResolve(d) ==
  IF request[d].composed THEN "MaterializeHorizon" ELSE "RecordBuilding"

\* record_resolved_source commits the revision and the cursor together.
FlakeResolved(d) ==
  /\ At(d, "ResolveFlakeAuth")
  /\ Persist(d, "Submitted", ResumeAfterResolve(d))
  /\ IF request[d].composed THEN GoTo(d, "MaterializeHorizon") ELSE BeginNext(d, "Building")
  /\ UNCHANGED UnchangedByEffect

HorizonMaterialized(d) ==
  /\ At(d, "MaterializeHorizon")
  /\ Persist(d, "Submitted", "RecordBuilding")
  /\ BeginNext(d, "Building")
  /\ UNCHANGED UnchangedByEffect

ClosureEvaluated(d) ==
  /\ At(d, "NixEval")
  /\ job' = [job EXCEPT ![d] = [@ EXCEPT
       !.closure = "derivation",
       !.phase   = IF ProducesClosure(Action(d)) THEN "Building" ELSE "Built",
       !.resume  = IF ProducesClosure(Action(d)) THEN "NixBuild" ELSE "FinishDeployment"]]
  /\ IF ProducesClosure(Action(d)) THEN GoTo(d, "NixBuild") ELSE BeginNext(d, "Completed")
  /\ UNCHANGED UnchangedByEffect

\* Mutant: the built output is not written to the row.
BuiltClosure_Forgotten(d) == job[d].closure

BuiltClosure(d) == "output"

ClosureBuilt(d) ==
  /\ At(d, "NixBuild")
  /\ job' = [job EXCEPT ![d] = [@ EXCEPT
       !.closure = BuiltClosure(d),
       !.phase   = "Built",
       !.resume  = IF Activates(Action(d)) THEN "CopyClosure" ELSE "FinishDeployment"]]
  /\ IF Activates(Action(d)) THEN GoTo(d, "CopyClosure") ELSE BeginNext(d, "Completed")
  /\ UNCHANGED UnchangedByEffect

ClosureCopied(d) ==
  /\ At(d, "CopyClosure")
  /\ BeginNext(d, "Copying")
  /\ UNCHANGED <<durable, outside, closer, active, mode, unreconciled, crashes, faults>>

\* The activation reaches its target, and runs on there if the daemon dies.
Dispatch(d) ==
  /\ At(d, "ActivateGeneration")
  /\ world' = [world EXCEPT ![d] = "running"]
  /\ dispatched' = [dispatched EXCEPT ![d] = @ + 1]
  /\ GoTo(d, "await")
  /\ UNCHANGED <<durable, profile, closer, active, mode, unreconciled, crashes, faults>>

\* The command returns with the activation's result, or fails under it (a lost
\* connection).
ActivationReturns(d) ==
  /\ At(d, "await") /\ Action(d) # "SelfTest"
  /\ \/ world[d] = "succeeded" /\ BeginNext(d, "Activated")
     \/ BeginNext(d, "Failed")
  /\ UNCHANGED <<durable, outside, closer, active, mode, unreconciled, crashes, faults>>

\* Mutant: the pipeline concludes the test it has only handed off.
DetachedDispatched_Concludes(d) == BeginNext(d, "Completed")

\* DetachedTestActivationDispatched: the conclusion is the observer's.
DetachedDispatched(d) == GoTo(d, "completed")

\* The observer is attached only after the dispatch command succeeded.  A command
\* that fails although the unit was started fails the deployment, and drops the
\* observer that was prepared for it.
DetachedReturns(d) ==
  /\ At(d, "await") /\ Action(d) = "SelfTest"
  /\ \/ DetachedDispatched(d) /\ closer' = [closer EXCEPT ![d].at = "watching"]
     \/ BeginNext(d, "Failed") /\ UNCHANGED closer
  /\ UNCHANGED <<durable, outside, active, mode, unreconciled, crashes, faults>>

UnchangedOutside == <<durable, dispatched, volatile, crashes, faults>>

\* self_switch_script sets the profile of the daemon host before it switches.
SwitchSetsProfile(d) ==
  /\ world[d] = "running" /\ Action(d) = "SelfSwitch"
  /\ world' = [world EXCEPT ![d] = "switching"]
  /\ profile' = request[d].output
  /\ UNCHANGED UnchangedOutside

\* Only a switch that reached its second half succeeds; anything may fail.  An
\* activation that is not a self-switch may set the profile of the daemon's host
\* too (SetBootProfile and BootOnce there).
ActivationConcludes(d) ==
  /\ world[d] \in {"running", "switching"}
  /\ \E outcome \in {"succeeded", "failed"} :
       /\ outcome = "succeeded" /\ Action(d) = "SelfSwitch" => world[d] = "switching"
       /\ world' = [world EXCEPT ![d] = outcome]
  /\ profile' \in IF Action(d) = "Activate" THEN {profile, request[d].output} ELSE {profile}
  /\ UNCHANGED UnchangedOutside

-----------------------------------------------------------------------------
(* Observers, and what the reconciler concludes itself.                    *)

ClosedAs == [succeeded |-> "Completed", failed |-> "Failed"]

\* The unit's retained result is read and becomes the deployment's.
ObserverReports(d) ==
  /\ CloserAt(d, "watching")
  /\ world[d] \in {"succeeded", "failed"}
  /\ closer' = [closer EXCEPT ![d] = [at |-> "begin", outcome |-> ClosedAs[world[d]]]]
  /\ UNCHANGED <<durable, outside, engine, active, mode, unreconciled, crashes, faults>>

\* The bus connection breaks, or the store refuses the generation of a reconciled
\* switch: no invented result, the row is left.
CloserGivesUp(d) ==
  /\ CloserAt(d, "watching") \/ CloserAt(d, "record")
  /\ faults < MaxFaults
  /\ faults' = faults + 1
  /\ closer' = [closer EXCEPT ![d] = NoCloser]
  /\ UNCHANGED <<durable, outside, engine, active, mode, unreconciled, crashes>>

CloserRecords(d) ==
  /\ CloserAt(d, "record")
  /\ live' = live \union {d}
  /\ closer' = [closer EXCEPT ![d].at = "begin"]
  /\ UNCHANGED <<request, lifecycle, phases, undelivered, job, retired, outside, engine,
                 active, mode, unreconciled, crashes, faults>>

\* Mutant: the unit is stopped before its result is reported, or instead.
AfterCloserBegin_Clean == "clean"

AfterCloserBegin == "deliver"

CloserBegins(d) ==
  /\ CloserAt(d, "begin")
  /\ Terminalize(d, closer[d].outcome)
  /\ closer' = [closer EXCEPT ![d].at = AfterCloserBegin]
  /\ UNCHANGED <<request, live, retired, outside, engine, active, mode, unreconciled,
                 crashes, faults>>

CloserDelivers(d) ==
  /\ CloserAt(d, "deliver")
  /\ undelivered' = undelivered \ {d}
  /\ job' = [job EXCEPT ![d] = NoJob]
  /\ closer' = [closer EXCEPT ![d] = IF Action(d) = "SelfTest" THEN [@ EXCEPT !.at = "clean"]
                                                              ELSE NoCloser]
  /\ UNCHANGED <<request, lifecycle, phases, live, retired, outside, engine, active, mode,
                 unreconciled, crashes, faults>>

\* The unit is stopped once its result is reported.
CloserCleans(d) ==
  /\ CloserAt(d, "clean")
  /\ world' = [world EXCEPT ![d] = "cleaned"]
  /\ closer' = [closer EXCEPT ![d] = NoCloser]
  /\ UNCHANGED <<durable, profile, dispatched, engine, active, mode, unreconciled, crashes,
                 faults>>

-----------------------------------------------------------------------------
(* Crash, reopening and reconcile_persisted_jobs.                          *)

Crash ==
  /\ mode # "down"
  /\ crashes < MaxCrashes
  /\ crashes' = crashes + 1
  /\ mode' = "down"
  /\ engine' = [d \in Deployments |-> IdleEngine]
  /\ closer' = [d \in Deployments |-> NoCloser]
  /\ active' = 0
  /\ unreconciled' = {}
  /\ UNCHANGED <<durable, outside, faults>>

\* The reopening store delivers what is undelivered, and the actor reads the jobs.
Reopen ==
  /\ mode = "down"
  /\ undelivered' = {}
  /\ job' = [d \in Deployments |->
               IF d \in undelivered /\ Concluded(d) THEN NoJob ELSE job[d]]
  /\ unreconciled' = {d \in Deployments : job'[d] # NoJob}
  /\ mode' = "reconciling"
  /\ UNCHANGED <<request, lifecycle, phases, live, retired, outside, engine, closer, active,
                 crashes, faults>>

\* The actor is done with the row of d.  (It visits the rows in the order of their
\* keys, and reports a conclusion of its own before it goes on; any order, with
\* the conclusion as a task of its own, allows every interleaving of the code.)
Visit(d, rowPhases) ==
  /\ mode = "reconciling" /\ d \in unreconciled
  /\ job[d].phase \in rowPhases
  /\ unreconciled' = unreconciled \ {d}

\* Mutant: a built deployment is not started again.
RestartPhases_NotBuilt == {"Submitted", "Building", "Copying"}

RestartPhases == {"Submitted", "Building", "Built", "Copying"}

\* Mutant: copying counts as the end of a pipeline.
TerminalPhases_Copying == {"Copying", "Activated", "Failed"}

TerminalPhases == {"Activated", "Failed"}

\* resume_deploy_job and drive_submitted_deploy: where a cursor continues.  The
\* writes on the way there repeat what the row already holds.
ResumeAt == [
  ResolveFlakeAuth   |-> [at |-> "ResolveFlakeAuth",   stage |-> "Submitted", next |-> "none"],
  MaterializeHorizon |-> [at |-> "MaterializeHorizon", stage |-> "Submitted", next |-> "none"],
  RecordBuilding     |-> [at |-> "begin",    stage |-> "Submitted", next |-> "Building"],
  NixEval            |-> [at |-> "NixEval",  stage |-> "BuildingRecorded", next |-> "none"],
  NixBuild           |-> [at |-> "NixBuild", stage |-> "Submitted", next |-> "none"],
  CopyClosure        |-> [at |-> "CopyClosure", stage |-> "Submitted", next |-> "none"],
  ActivateGeneration |-> [at |-> "activating", stage |-> "CopyingRecorded", next |-> "none"],
  FinishDeployment   |-> [at |-> "begin", stage |-> "ActivatedRecorded", next |-> "Completed"]]

\* The phase whose receipt a resume stage continues from.
RecordedPhase(resume) ==
  CASE resume = "NixEval" -> "Building"
    [] resume = "ActivateGeneration" -> "Copying"
    [] resume = "RecordGenerationActivated" -> "Activated"
    [] OTHER -> "none"

Times(phase, d) == Cardinality({i \in DOMAIN phases[d] : phases[d][i] = phase})

\* A missing receipt is recovered from the one intent of its phase, and from that
\* intent's event, which must still be in the public event log.
Receipt(d) ==
  IF job[d].receipt = "none" THEN RecordedPhase(job[d].resume) ELSE job[d].receipt

ReceiptMissing(d) == HasJob(d) /\ Receipt(d) # job[d].receipt

Resumable(d) ==
  /\ ~ Concluded(d)
  /\ job[d].resume \in DOMAIN ResumeAt
  /\ ReceiptMissing(d) => Times(Receipt(d), d) = 1 /\ d \notin retired
  /\ job[d].resume = "NixBuild" => job[d].closure = "derivation"
  /\ job[d].resume \in {"CopyClosure", "ActivateGeneration"} => job[d].closure = "output"

ResumePipeline(d) ==
  /\ Visit(d, RestartPhases)
  /\ ~ AtCapacity
  /\ Resumable(d)
  /\ job' = [job EXCEPT ![d].receipt = Receipt(d)]
  /\ engine' = [engine EXCEPT ![d] = ResumeAt[job[d].resume]]
  /\ active' = active + 1
  /\ UNCHANGED <<request, lifecycle, phases, undelivered, live, retired, outside, closer,
                 mode, crashes, faults>>

\* A row that cannot be resumed is left as it is, and takes no slot.  (One of a
\* concluded deployment would be dropped; the reopening store leaves none.)
LeaveUnresumable(d) ==
  /\ Visit(d, RestartPhases)
  /\ ~ AtCapacity
  /\ ~ Resumable(d)
  /\ UNCHANGED <<durable, outside, engine, closer, active, mode, crashes, faults>>

\* A maintenance of the event history retires the last phase event of d
\* (TransitionJournal!CompactRows); only a restart that looks for it would tell.
RetireEvent(d) ==
  /\ mode # "down"
  /\ d \notin undelivered /\ ReceiptMissing(d)
  /\ retired' = retired \union {d}
  /\ UNCHANGED <<request, lifecycle, phases, undelivered, job, live, outside, volatile,
                 crashes, faults>>

\* Over the cap the row is left for the next start.
SkipAtCapacity(d) ==
  /\ Visit(d, RestartPhases)
  /\ AtCapacity
  /\ UNCHANGED <<durable, outside, engine, closer, active, mode, crashes, faults>>

\* AlreadyTerminal: the row is dropped.
DropTerminal(d) ==
  /\ Visit(d, TerminalPhases)
  /\ job' = [job EXCEPT ![d] = NoJob]
  /\ UNCHANGED <<request, lifecycle, phases, undelivered, live, retired, outside, engine,
                 closer, active, mode, crashes, faults>>

\* A unit that is not registered yet, or still runs, is observed.
Observed(d) == world[d] \in {"untouched", "running"}

ReconcileTest(d) ==
  /\ Visit(d, {"Activating"}) /\ Action(d) = "SelfTest"
  /\ \/ /\ Observed(d)
        /\ closer' = [closer EXCEPT ![d].at = "watching"]
     \/ /\ world[d] \in {"succeeded", "failed"}
        /\ closer' = [closer EXCEPT ![d] = [at |-> "begin", outcome |-> ClosedAs[world[d]]]]
  /\ UNCHANGED <<durable, outside, engine, active, mode, crashes, faults>>

\* The bus cannot be reached, or the properties of the unit not be read
\* (Missing): the row is left, or the deployment failed.
ReconcileUnreadable(d) ==
  /\ Visit(d, {"Activating"}) /\ Action(d) = "SelfTest"
  /\ faults < MaxFaults
  /\ faults' = faults + 1
  /\ closer' \in {closer, [closer EXCEPT ![d] = [at |-> "begin", outcome |-> "Failed"]]}
  /\ UNCHANGED <<durable, outside, engine, active, mode, crashes>>

\* Mutant: the profile is not compared with the job's closure.
SwitchWitnessed_Unchecked(d) == Action(d) = "SelfSwitch"

\* self_switch_activation_record: the profile names this job's closure, whoever
\* set it.
SwitchWitnessed(d) == Action(d) = "SelfSwitch" /\ profile = request[d].output

ReconcileSwitch(d) ==
  /\ Visit(d, {"Activating"})
  /\ SwitchWitnessed(d)
  /\ closer' = [closer EXCEPT ![d] =
       [at |-> IF d \in live THEN "begin" ELSE "record", outcome |-> "Completed"]]
  /\ UNCHANGED <<durable, outside, engine, active, mode, crashes, faults>>

\* Any other activation in flight is left as it is.
LeaveActivation(d) ==
  /\ Visit(d, {"Activating"})
  /\ Action(d) # "SelfTest" /\ ~ SwitchWitnessed(d)
  /\ UNCHANGED <<durable, outside, engine, closer, active, mode, crashes, faults>>

Serve ==
  /\ mode = "reconciling" /\ unreconciled = {}
  /\ mode' = "serving"
  /\ UNCHANGED <<durable, outside, engine, closer, active, unreconciled, crashes, faults>>

-----------------------------------------------------------------------------
Pipeline(d) ==
  \/ Launch(d) \/ FreeSlot(d)
  \/ BeginPhase(d) \/ BeginTerminal(d) \/ DeliverPhase(d) \/ DeliverTerminal(d)
  \/ PersistReceipt(d) \/ PersistActivating(d) \/ RecordActivation(d) \/ MarkActivated(d)
  \/ EffectFails(d)
  \/ FlakeResolved(d) \/ HorizonMaterialized(d) \/ ClosureEvaluated(d) \/ ClosureBuilt(d)
  \/ ClosureCopied(d) \/ Dispatch(d) \/ ActivationReturns(d) \/ DetachedReturns(d)

Closes(d) ==
  \/ ObserverReports(d) \/ CloserRecords(d) \/ CloserBegins(d) \/ CloserDelivers(d)
  \/ CloserCleans(d)

Outside(d) == SwitchSetsProfile(d) \/ ActivationConcludes(d)

Reconcile(d) ==
  \/ ResumePipeline(d) \/ LeaveUnresumable(d) \/ SkipAtCapacity(d) \/ DropTerminal(d)
  \/ ReconcileTest(d) \/ ReconcileSwitch(d) \/ LeaveActivation(d)

Start == Reopen \/ Serve \/ \E d \in Deployments : Reconcile(d)

Next ==
  \/ \E d \in Deployments :
       \/ \E wanted \in Requests : Admit(d, wanted)
       \/ RejectAtCapacity(d)
       \/ Pipeline(d) \/ Closes(d) \/ Outside(d)
       \/ RefuseDelivery(d) \/ CloserGivesUp(d) \/ ReconcileUnreadable(d)
       \/ RetireEvent(d)
  \/ Crash
  \/ Start

Spec == Init /\ [][Next]_vars

\* Tasks and observers run, the service manager restarts the daemon, and every
\* effect returns: a nix or ssh process that hangs for ever has no timeout.
Fairness ==
  /\ \A d \in Deployments :
       WF_vars(Pipeline(d)) /\ WF_vars(Closes(d)) /\ WF_vars(Outside(d))
  /\ WF_vars(Start)

FairSpec == Spec /\ Fairness

-----------------------------------------------------------------------------
(* Properties.                                                             *)

Admitted(d) == request[d] # NoRequest
Reported(d) == Concluded(d) /\ d \notin undelivered

\* No slot leaks or is freed twice, and the pipelines never exceed the cap, also
\* when a restart resumes some (DeployJobs, "Maximum concurrent deploy
\* pipelines").
RunningWithinCap ==
  /\ active = Cardinality({d \in Deployments : engine[d].at \notin {"idle", "admit"}})
  /\ Cardinality({d \in Deployments : engine[d].at \notin {"idle", "admit", "completed"}}) <= Cap

\* An activation is started at most once, however often the daemon dies around
\* it (DeployJobResumption: "re-activating could double-switch").
NeverActivatedTwice == \A d \in Deployments : dispatched[d] <= 1

\* A deployment has one task that concludes it: the store never refuses the
\* first commit of a transition.
BeginsAreAccepted ==
  \A d \in Deployments :
    At(d, "begin") \/ CloserAt(d, "begin") =>
      HasJob(d) /\ d \notin undelivered /\ ~ Concluded(d)

\* Every row that a restart would start again can be resumed: its closure, its
\* receipt and its record fit its resume stage (resume_deploy_job).  The one
\* exception is a row that a crash left without its receipt, if the event that the
\* receipt would be recovered from was compacted away.
CursorIsResumable ==
  \A d \in Deployments :
    HasJob(d) /\ job[d].phase \in {"Submitted", "Building", "Built", "Copying"} =>
      Resumable(d) \/ (ReceiptMissing(d) /\ d \in retired)

\* The cursor goes with the report of the conclusion, and a deployment that was
\* never concluded can only have lost it in its Activated phase.
CursorMatchesRecord ==
  \A d \in Deployments :
    /\ Reported(d) => ~ HasJob(d)
    /\ Admitted(d) /\ ~ Concluded(d) /\ ~ HasJob(d) => lifecycle[d] = "Activated"

Began(d, transition) == \E i \in DOMAIN phases[d] : phases[d][i] = transition

\* The closure was on the daemon host at first, or an activation that was started
\* brought it there.
Delivered(closure) ==
  \/ closure = Installed
  \/ \E e \in Deployments : dispatched[e] > 0 /\ request[e].output = closure

\* A completed deployment has what it says: an activation is live and succeeded on
\* its target, a test's unit succeeded, and nothing else leaves a live generation.
\* A self-switch that recorded its Activated phase succeeded too.  One that a start
\* adopted from the system profile need not have, nor even have been started: all
\* that holds of it is that some activation brought its closure, unless the closure
\* was there before (reconcile_persisted_jobs).
SuccessWasActivated ==
  \A d \in Deployments :
    /\ lifecycle[d] = "Completed" => CASE
         Action(d) \in {"Activate", "SelfSwitch"} -> d \in live
      [] Action(d) = "SelfTest" -> world[d] \in {"succeeded", "cleaned"}
      [] OTHER -> d \notin live
    /\ d \in live =>
         /\ Action(d) \in {"Activate", "SelfSwitch"}
         /\ Action(d) = "Activate" \/ Began(d, "Activated") => world[d] = "succeeded"
         /\ Delivered(request[d].output)

\* The unit of a test, the only witness of its result, is not stopped before
\* that result is reported.
CleanedAfterReport ==
  \A d \in Deployments : world[d] = "cleaned" => Reported(d)

\* A deployment that activates nothing is concluded and reported, across crashes,
\* unless a crash takes its receipt and a compaction the event it is recovered from.
EveryBuildConcludes ==
  \A d \in Deployments :
    Action(d) \in {"Evaluate", "Realize"} ~>
      \/ Reported(d)
      \/ engine[d].at = "idle" /\ ReceiptMissing(d) /\ d \in retired

\* A test whose unit was started is concluded and reported, across crashes.
EveryTestConcludes ==
  \A d \in Deployments :
    Action(d) = "SelfTest" /\ world[d] # "untouched" ~> Reported(d)
=============================================================================
