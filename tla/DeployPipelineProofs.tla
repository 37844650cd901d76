------------------------- MODULE DeployPipelineProofs -------------------------
(***************************************************************************)
(* Proofs about DeployPipeline, for any deployments and requests, any cap, *)
(* and any number of crashes and faults.                                   *)
(*                                                                         *)
(* None of the properties is inductive: what a pipeline may do next        *)
(* follows from what its row says, what its row says from where the        *)
(* pipeline, or one before a crash, has been.  The inductive invariant     *)
(* therefore states, for one deployment at a time, what a row with each    *)
(* resume stage implies (RowInv), which row each point of the pipeline     *)
(* (EngineInv) and of an observer or reconciler (CloserInv) stands at,     *)
(* what has happened on the target (WorldInv), and that a restart visits   *)
(* only rows nobody works on (VisitInv).  A step of one deployment leaves  *)
(* the others as they are (Untouched), so each action is treated for its   *)
(* own deployment only.  What the system profile names joins deployments,  *)
(* and has an invariant of its own on top of this one (SuccessInv).        *)
(***************************************************************************)
EXTENDS DeployPipeline, FiniteSetTheorems, TLAPS

-----------------------------------------------------------------------------
(* The inductive invariant.                                                *)

\* The resume stages before the first phase is recorded.
EarlyStages == {"ResolveFlakeAuth", "MaterializeHorizon", "RecordBuilding"}

\* The row of d is at this resume stage and job phase.
RowAt(d, resume, phase) == HasJob(d) /\ job[d].resume = resume /\ job[d].phase = phase

\* The pipeline of d may write its row, and begin a transition.
MayWrite(d) == HasJob(d) /\ d \notin undelivered /\ ~ Concluded(d)

\* What the resume stage of a row says of the row and of its record.
RowInv(d) ==
  HasJob(d) =>
    /\ job[d].resume \in EarlyStages =>
         /\ job[d].phase = "Submitted" /\ job[d].closure = "none" /\ job[d].receipt = "none"
         /\ lifecycle[d] = "Submitted"
         /\ Len(phases[d]) = 1 /\ phases[d][1] = "Submitted"
    /\ job[d].resume = "NixEval" =>
         /\ job[d].phase = "Building" /\ job[d].receipt \in {"none", "Building"}
         /\ lifecycle[d] = "Building"
         /\ Len(phases[d]) = 2 /\ phases[d][1] = "Submitted" /\ phases[d][2] = "Building"
    /\ job[d].resume = "NixBuild" =>
         /\ job[d].phase = "Building" /\ job[d].closure = "derivation"
         /\ job[d].receipt # "none" /\ lifecycle[d] \in {"Building", "Copying"}
    /\ job[d].resume = "CopyClosure" =>
         /\ job[d].phase = "Built" /\ job[d].closure = "output" /\ Activates(Action(d))
         /\ job[d].receipt # "none" /\ lifecycle[d] \in {"Building", "Copying"}
    /\ job[d].resume = "ActivateGeneration" =>
         /\ job[d].phase \in {"Copying", "Activating"} /\ job[d].closure = "output"
         /\ job[d].receipt # "none" /\ lifecycle[d] = "Copying"
    /\ job[d].resume = "RecordGenerationActivated" =>
         /\ job[d].phase = "Activated" /\ lifecycle[d] = "Activated"
         /\ Action(d) \in {"Activate", "SelfSwitch"} /\ world[d] = "succeeded"
    /\ job[d].resume = "FinishDeployment" =>
         \/ /\ job[d].phase = "Built" /\ lifecycle[d] = "Building"
            /\ job[d].receipt # "none" /\ ~ Activates(Action(d))
         \/ /\ job[d].phase = "Activated" /\ lifecycle[d] = "Activated"
            /\ Action(d) \in {"Activate", "SelfSwitch"} /\ d \in live
         \/ /\ job[d].phase = "Activated" /\ lifecycle[d] = "Completed" /\ d \in undelivered
         \/ /\ job[d].phase = "Failed" /\ lifecycle[d] = "Failed" /\ d \in undelivered

\* What has happened on the target, and what the record says of it.
WorldInv(d) ==
  /\ dispatched[d] <= 1
  /\ dispatched[d] = 0 => world[d] \in {"untouched", "cleaned"}
  /\ HasJob(d) /\ job[d].phase \in RestartPhases => dispatched[d] = 0
  /\ world[d] = "cleaned" => Action(d) = "SelfTest" /\ Concluded(d) /\ d \notin undelivered
  /\ d \in live =>
       \/ Action(d) = "Activate" /\ world[d] = "succeeded"
       \/ Action(d) = "SelfSwitch"
  /\ lifecycle[d] = "Completed" =>
       /\ Action(d) \in {"Activate", "SelfSwitch"} => d \in live
       /\ Action(d) = "SelfTest" => world[d] \in {"succeeded", "cleaned"}
  /\ lifecycle[d] = "Copying" => Activates(Action(d))
  /\ ~ Admitted(d) =>
       /\ lifecycle[d] \in {"Absent", "Rejected"}
       /\ ~ HasJob(d) /\ d \notin undelivered /\ dispatched[d] = 0
       /\ engine[d].at = "idle" /\ closer[d].at = "none"
  /\ Admitted(d) => lifecycle[d] \notin {"Absent", "Rejected"}
  /\ Admitted(d) /\ ~ Concluded(d) /\ ~ HasJob(d) => lifecycle[d] = "Activated"

\* The stages of a pipeline before and after it has recorded that it copies.
BeforeCopying == {"Submitted", "BuildingRecorded"}

\* Which row each point of the pipeline stands at.
EngineInv(d) ==
  LET at == engine[d].at
      stage == engine[d].stage
      next == engine[d].next
  IN
  /\ \/ at \in {"idle", "completed"}
     \/ at \in {"admit", "deliver"} /\ HasJob(d) /\ closer[d].at = "none"
     \/ at \notin {"idle", "completed", "admit", "deliver"} /\ MayWrite(d) /\ closer[d].at = "none"
  /\ at \in {"idle", "admit"} => stage = "Submitted"
  /\ at = "admit" => job[d].resume = "ResolveFlakeAuth"
  /\ at \in {"ResolveFlakeAuth", "MaterializeHorizon"} =>
       job[d].resume = at /\ stage = "Submitted"
  /\ at = "NixEval" =>
       /\ stage = "BuildingRecorded"
       /\ \/ job[d].resume = "NixEval" /\ job[d].receipt = "Building"
          \/ job[d].resume = "ActivateGeneration" /\ job[d].phase = "Copying"
  /\ at \in {"NixBuild", "CopyClosure"} => job[d].resume = at /\ stage \in BeforeCopying
  /\ at = "begin" =>
       \/ next = "Building" /\ job[d].resume = "RecordBuilding" /\ stage = "Submitted"
       \/ next = "Copying" /\ job[d].resume = "CopyClosure" /\ stage \in BeforeCopying
       \/ /\ next = "Activated" /\ RowAt(d, "ActivateGeneration", "Activating")
          /\ stage = "CopyingRecorded"
          /\ Action(d) \in {"Activate", "SelfSwitch"} /\ world[d] = "succeeded"
       \/ next = "Completed" /\ job[d].resume = "FinishDeployment"
       \/ next = "Failed"
  /\ at \in {"deliver", "receipt"} =>
       \/ next = "Building" /\ job[d].resume = "NixEval" /\ stage = "Submitted"
       \/ /\ next = "Copying" /\ RowAt(d, "ActivateGeneration", "Copying")
          /\ stage \in BeforeCopying
       \/ /\ next = "Activated" /\ job[d].resume = "RecordGenerationActivated"
          /\ stage = "CopyingRecorded"
       \/ at = "deliver" /\ next \in {"Completed", "Failed"} /\ Concluded(d)
  /\ at = "activating" =>
       RowAt(d, "ActivateGeneration", "Copying") /\ stage = "CopyingRecorded"
  /\ at = "ActivateGeneration" =>
       /\ RowAt(d, "ActivateGeneration", "Activating") /\ stage = "CopyingRecorded"
       /\ dispatched[d] = 0
  /\ at = "await" =>
       RowAt(d, "ActivateGeneration", "Activating") /\ stage = "CopyingRecorded"
  /\ at \in {"recordActivation", "markActivated"} =>
       job[d].resume = "RecordGenerationActivated"
  /\ at = "markActivated" => d \in live

\* Which row each point of an observer or of the reconciler's own conclusion
\* stands at, and what it knows of the target.
CloserInv(d) ==
  /\ closer[d].at # "none" =>
       /\ Action(d) \in {"SelfTest", "SelfSwitch"}
       /\ engine[d].at \in {"idle", "completed"}
  /\ closer[d].at \in {"watching", "record", "begin"} =>
       RowAt(d, "ActivateGeneration", "Activating") /\ d \notin undelivered
  /\ closer[d].at = "watching" => Action(d) = "SelfTest"
  /\ closer[d].at = "record" =>
       Action(d) = "SelfSwitch" /\ closer[d].outcome = "Completed"
  /\ closer[d].at = "begin" =>
       \/ closer[d].outcome = "Failed"
       \/ /\ closer[d].outcome = "Completed"
          /\ IF Action(d) = "SelfTest" THEN world[d] = "succeeded" ELSE d \in live
  /\ closer[d].at = "deliver" => Concluded(d)
  /\ closer[d].at = "clean" =>
       Action(d) = "SelfTest" /\ Concluded(d) /\ d \notin undelivered /\ ~ HasJob(d)

\* A restart visits rows that nobody works on and that are not concluded, and
\* nothing survives the daemon but the rows.
VisitInv(d) ==
  /\ d \in unreconciled => MayWrite(d) /\ engine[d].at = "idle" /\ closer[d].at = "none"
  /\ mode = "down" => engine[d].at = "idle" /\ closer[d].at = "none" /\ d \notin unreconciled

DInv(d) == RowInv(d) /\ WorldInv(d) /\ EngineInv(d) /\ CloserInv(d) /\ VisitInv(d)

\* The slots: pipelines that hold one, and an admission that is about to.
Holders == {d \in Deployments : engine[d].at \notin {"idle", "admit"}}

SlotInv ==
  /\ IsFiniteSet(Holders)
  /\ active = Cardinality(Holders)
  /\ active <= Cap
  /\ \A d \in Deployments :
       engine[d].at = "admit" =>
         /\ mode = "serving" /\ active < Cap
         /\ \A e \in Deployments : engine[e].at = "admit" => e = d

IInv == TypeOK /\ (\A d \in Deployments : DInv(d)) /\ SlotInv

-----------------------------------------------------------------------------
(* Steps of one deployment and the others.                                 *)

\* A step leaves a deployment as it is.
Untouched(e) ==
  /\ request'[e] = request[e] /\ lifecycle'[e] = lifecycle[e] /\ phases'[e] = phases[e]
  /\ job'[e] = job[e] /\ world'[e] = world[e] /\ dispatched'[e] = dispatched[e]
  /\ engine'[e] = engine[e] /\ closer'[e] = closer[e]
  /\ e \in undelivered' <=> e \in undelivered
  /\ e \in live' <=> e \in live
  /\ e \in unreconciled' => e \in unreconciled
  /\ mode' = "down" => mode = "down"

OthersUntouched(d) == \A e \in Deployments \ {d} : Untouched(e)

\* A deployment that is left as it is keeps its invariant.
LEMMA UntouchedKeeps == ASSUME NEW e, DInv(e), Untouched(e) PROVE DInv(e)'
<1> USE DEF HasJob, Concluded, Admitted, Action, MayWrite, RowAt
<1>1. RowInv(e)'
  BY DEF DInv, Untouched, RowInv
<1>2. WorldInv(e)'
  BY DEF DInv, Untouched, WorldInv
<1>3. EngineInv(e)'
  BY DEF DInv, Untouched, EngineInv
<1>4. CloserInv(e)'
  BY DEF DInv, Untouched, CloserInv
<1>5. VisitInv(e)'
  BY DEF DInv, Untouched, VisitInv
<1> QED BY <1>1, <1>2, <1>3, <1>4, <1>5 DEF DInv

\* The pipeline of d is put at a point, the others stay where they are.
Goes(d, at, stage, next) ==
  /\ engine' \in [Deployments -> Engine]
  /\ engine'[d].at = at /\ engine'[d].stage = stage /\ engine'[d].next = next
  /\ \A e \in Deployments \ {d} : engine'[e] = engine[e]

\* The row of d is written, the others are not.
Writes(d, phase, resume, closure, receipt) ==
  /\ job' \in [Deployments -> Job]
  /\ HasJob(d)'
  /\ job'[d].phase = phase /\ job'[d].resume = resume
  /\ job'[d].closure = closure /\ job'[d].receipt = receipt
  /\ \A e \in Deployments \ {d} : job'[e] = job[e]

\* The row of d is dropped.
Drops(d) ==
  /\ job' \in [Deployments -> Job]
  /\ ~ HasJob(d)'
  /\ \A e \in Deployments \ {d} : job'[e] = job[e]

\* The observer or reconciler of d is put at a point.
CloserGoes(d, at, outcome) ==
  /\ closer' \in [Deployments -> Closer]
  /\ closer'[d].at = at /\ closer'[d].outcome = outcome
  /\ \A e \in Deployments \ {d} : closer'[e] = closer[e]

EnginePoints == {"idle", "admit", "begin", "deliver", "receipt", "activating",
                 "await", "recordActivation", "markActivated", "completed"} \union Effects

\* The fields of a row, and that it is not the absent row.
RowType == [phase : JobPhases, resume : ResumeStages,
            closure : {"none", "derivation", "output"}, receipt : {"none"} \union Phases]

LEMMA RowTyped ==
  ASSUME TypeOK, NEW d \in Deployments
  PROVE  /\ HasJob(d) => job[d] \in RowType
         /\ \A row \in RowType : row # NoJob /\ row \in Job
<1>1. \A row \in RowType : row.phase # "None"
  BY DEF RowType, JobPhases
<1>2. \A row \in RowType : row # NoJob /\ row \in Job
  BY <1>1 DEF NoJob, Job, RowType
<1>3. HasJob(d) => job[d] \in RowType
  BY DEF TypeOK, Job, HasJob, RowType
<1> QED BY <1>2, <1>3

\* What an admitted deployment asks for is one of the requests.
LEMMA RequestTyped ==
  ASSUME TypeOK, NEW d \in Deployments, Admitted(d)
  PROVE  Action(d) \in Actions /\ request[d].output \in Closures
BY PipelineAssumption DEF TypeOK, Admitted, Action

\* The names of the resume stages.
LEMMA ResumeNames ==
  ResumeStages = {"ResolveFlakeAuth", "MaterializeHorizon", "RecordBuilding", "NixEval",
                  "NixBuild", "CopyClosure", "ActivateGeneration",
                  "RecordGenerationActivated", "FinishDeployment"}
<1>1. Len(ResumeOrder) = 9
  BY DEF ResumeOrder
<1>2. \A i \in 1 .. 9 : i \in {1, 2, 3, 4, 5, 6, 7, 8, 9}
  OBVIOUS
<1>3. /\ ResumeOrder[1] = "ResolveFlakeAuth" /\ ResumeOrder[2] = "MaterializeHorizon"
      /\ ResumeOrder[3] = "RecordBuilding" /\ ResumeOrder[4] = "NixEval"
      /\ ResumeOrder[5] = "NixBuild" /\ ResumeOrder[6] = "CopyClosure"
      /\ ResumeOrder[7] = "ActivateGeneration"
      /\ ResumeOrder[8] = "RecordGenerationActivated" /\ ResumeOrder[9] = "FinishDeployment"
  BY DEF ResumeOrder
<1> QED BY <1>1, <1>2, <1>3 DEF ResumeStages

\* What GoTo does.
LEMMA GoToGoes ==
  ASSUME TypeOK, NEW d \in Deployments, NEW at \in EnginePoints, GoTo(d, at)
  PROVE  Goes(d, at, engine[d].stage, engine[d].next)
BY DEF TypeOK, GoTo, Goes, Engine, EnginePoints

\* What BeginNext does.
LEMMA BeginNextGoes ==
  ASSUME TypeOK, NEW d \in Deployments, NEW t \in Phases \union Terminals, BeginNext(d, t)
  PROVE  Goes(d, "begin", engine[d].stage, t)
BY DEF TypeOK, BeginNext, Goes, Engine

\* What writing a whole row does.
LEMMA RowWrites ==
  ASSUME TypeOK, NEW d \in Deployments, NEW row \in RowType, job' = [job EXCEPT ![d] = row]
  PROVE  Writes(d, row.phase, row.resume, row.closure, row.receipt)
<1>1. job \in [Deployments -> Job] /\ row \in Job /\ row # NoJob
  BY RowTyped DEF TypeOK
<1>2. /\ job'[d] = row /\ job' \in [Deployments -> Job]
      /\ \A e \in Deployments \ {d} : job'[e] = job[e]
  BY <1>1
<1> QED BY <1>1, <1>2 DEF Writes, HasJob

\* What Persist does to a row that is there.
LEMMA PersistWrites ==
  ASSUME TypeOK, NEW d \in Deployments, HasJob(d), NEW phase \in JobPhases,
         NEW resume \in ResumeStages, Persist(d, phase, resume)
  PROVE  Writes(d, phase, resume, job[d].closure, job[d].receipt)
<1>1. job[d] \in RowType
  BY RowTyped
<1>2. /\ [job[d] EXCEPT !.phase = phase, !.resume = resume] \in RowType
      /\ [job[d] EXCEPT !.phase = phase, !.resume = resume].phase = phase
      /\ [job[d] EXCEPT !.phase = phase, !.resume = resume].resume = resume
      /\ [job[d] EXCEPT !.phase = phase, !.resume = resume].closure = job[d].closure
      /\ [job[d] EXCEPT !.phase = phase, !.resume = resume].receipt = job[d].receipt
  BY <1>1 DEF RowType
<1>3. job' = [job EXCEPT ![d] = [job[d] EXCEPT !.phase = phase, !.resume = resume]]
  BY DEF Persist
<1> QED BY <1>2, <1>3, RowWrites

\* What dropping a row does.
LEMMA DropDrops ==
  ASSUME TypeOK, NEW d \in Deployments, job' = [job EXCEPT ![d] = NoJob]
  PROVE  Drops(d)
BY DEF TypeOK, Drops, HasJob, Job

\* What writing a receipt does to a row that is there.
LEMMA ReceiptWrites ==
  ASSUME TypeOK, NEW d \in Deployments, HasJob(d), NEW receipt \in {"none"} \union Phases,
         job' = [job EXCEPT ![d].receipt = receipt]
  PROVE  Writes(d, job[d].phase, job[d].resume, job[d].closure, receipt)
<1>1. job[d] \in RowType
  BY RowTyped
<1>2. /\ [job[d] EXCEPT !.receipt = receipt] \in RowType
      /\ [job[d] EXCEPT !.receipt = receipt].phase = job[d].phase
      /\ [job[d] EXCEPT !.receipt = receipt].resume = job[d].resume
      /\ [job[d] EXCEPT !.receipt = receipt].closure = job[d].closure
      /\ [job[d] EXCEPT !.receipt = receipt].receipt = receipt
  BY <1>1 DEF RowType
<1>3. job' = [job EXCEPT ![d] = [job[d] EXCEPT !.receipt = receipt]]
  OBVIOUS
<1> QED BY <1>2, <1>3, RowWrites

\* What a change of an observer or of the reconciler does.
LEMMA CloserSetGoes ==
  ASSUME TypeOK, NEW d \in Deployments,
         NEW at \in {"none", "watching", "record", "begin", "deliver", "clean"},
         NEW outcome \in {"none", "Completed", "Failed"},
         closer' = [closer EXCEPT ![d] = [at |-> at, outcome |-> outcome]]
  PROVE  CloserGoes(d, at, outcome)
BY DEF TypeOK, CloserGoes, Closer

\* What moving it to another point does.
LEMMA CloserMovesGoes ==
  ASSUME TypeOK, NEW d \in Deployments,
         NEW at \in {"none", "watching", "record", "begin", "deliver", "clean"},
         closer' = [closer EXCEPT ![d].at = at]
  PROVE  CloserGoes(d, at, closer[d].outcome)
BY DEF TypeOK, CloserGoes, Closer

\* What setting a pipeline's whole position does.
LEMMA EngineSetGoes ==
  ASSUME TypeOK, NEW d \in Deployments, NEW at \in EnginePoints, NEW stage \in Stages,
         NEW next \in {"none", "Submitted"} \union Phases \union Terminals,
         engine' = [engine EXCEPT ![d] = [at |-> at, stage |-> stage, next |-> next]]
  PROVE  Goes(d, at, stage, next)
BY DEF TypeOK, Goes, Engine, EnginePoints

\* The record of d takes a public transition.
Moves(d, t) ==
  /\ lifecycle' \in [Deployments -> {"Absent", "Submitted"} \union Phases \union Terminals]
  /\ phases' \in [Deployments -> Seq({"Submitted"} \union Phases \union Terminals)]
  /\ lifecycle'[d] = t /\ Len(phases'[d]) = Len(phases[d]) + 1
  /\ \A i \in 1 .. Len(phases[d]) : phases'[d][i] = phases[d][i]
  /\ phases'[d][Len(phases[d]) + 1] = t
  /\ \A e \in Deployments \ {d} : lifecycle'[e] = lifecycle[e] /\ phases'[e] = phases[e]

\* What the first commit of a transition does to the record.
LEMMA TransitionMoves ==
  ASSUME TypeOK, NEW d \in Deployments, NEW t \in Phases \union Terminals,
         lifecycle' = [lifecycle EXCEPT ![d] = t],
         phases' = [phases EXCEPT ![d] = Append(@, t)]
  PROVE  Moves(d, t)
<1> DEFINE S == {"Submitted"} \union Phases \union Terminals
<1>1. phases[d] \in Seq(S) /\ t \in S
  BY DEF TypeOK
<1> HIDE DEF S
<1>2. /\ Append(phases[d], t) \in Seq(S)
      /\ Len(Append(phases[d], t)) = Len(phases[d]) + 1
      /\ \A i \in 1 .. Len(phases[d]) : Append(phases[d], t)[i] = phases[d][i]
      /\ Append(phases[d], t)[Len(phases[d]) + 1] = t
  BY <1>1
<1>3. /\ phases \in [Deployments -> Seq(S)] /\ phases' = [phases EXCEPT ![d] = Append(phases[d], t)]
      /\ lifecycle' \in [Deployments -> {"Absent", "Submitted"} \union Phases \union Terminals]
      /\ lifecycle'[d] = t /\ \A e \in Deployments \ {d} : lifecycle'[e] = lifecycle[e]
  BY DEF TypeOK, S
<1>4. /\ phases' \in [Deployments -> Seq(S)] /\ phases'[d] = Append(phases[d], t)
      /\ \A e \in Deployments \ {d} : phases'[e] = phases[e]
  BY <1>2, <1>3
<1> QED BY <1>2, <1>3, <1>4 DEF S, Moves

\* The transition after the first.
LEMMA SecondTransition ==
  ASSUME NEW d, NEW t, Moves(d, t), Len(phases[d]) = 1, phases[d][1] = "Submitted"
  PROVE  Len(phases'[d]) = 2 /\ phases'[d][1] = "Submitted" /\ phases'[d][2] = t
<1>1. 1 \in 1 .. Len(phases[d]) /\ Len(phases[d]) + 1 = 2
  OBVIOUS
<1>2. /\ Len(phases'[d]) = Len(phases[d]) + 1
      /\ phases'[d][1] = phases[d][1] /\ phases'[d][Len(phases[d]) + 1] = t
  BY <1>1 DEF Moves
<1> QED BY <1>1, <1>2

\* A row that is concluded is in delivery.
LEMMA ConcludedRows ==
  ASSUME TypeOK, NEW d \in Deployments, RowInv(d), HasJob(d), Concluded(d)
  PROVE  d \in undelivered
<1>1. job[d] \in RowType
  BY RowTyped
<1>2. job[d].resume \in ResumeStages
  BY <1>1 DEF RowType
<1> QED BY <1>2, ResumeNames DEF RowInv, Concluded, Terminals, EarlyStages

\* What a phase that a restart looks at says of a row.
LEMMA RowByPhase ==
  ASSUME TypeOK, NEW d \in Deployments, RowInv(d), MayWrite(d)
  PROVE  /\ job[d].phase = "Activating" => job[d].resume = "ActivateGeneration"
         /\ job[d].phase \in {"Activated", "Failed"} => lifecycle[d] = "Activated"
<1>1. job[d] \in RowType
  BY RowTyped DEF MayWrite
<1>2. job[d].resume \in ResumeStages
  BY <1>1 DEF RowType
<1> QED BY <1>2, ResumeNames DEF RowInv, MayWrite, Concluded, Terminals, EarlyStages

\* Where a row that a restart resumes puts its pipeline.
LEMMA ResumeGoes ==
  ASSUME TypeOK, NEW d \in Deployments, job[d].resume \in DOMAIN ResumeAt,
         engine' = [engine EXCEPT ![d] = ResumeAt[job[d].resume]]
  PROVE  \/ job[d].resume = "ResolveFlakeAuth" /\ Goes(d, "ResolveFlakeAuth", "Submitted", "none")
         \/ /\ job[d].resume = "MaterializeHorizon"
            /\ Goes(d, "MaterializeHorizon", "Submitted", "none")
         \/ job[d].resume = "RecordBuilding" /\ Goes(d, "begin", "Submitted", "Building")
         \/ job[d].resume = "NixEval" /\ Goes(d, "NixEval", "BuildingRecorded", "none")
         \/ job[d].resume = "NixBuild" /\ Goes(d, "NixBuild", "Submitted", "none")
         \/ job[d].resume = "CopyClosure" /\ Goes(d, "CopyClosure", "Submitted", "none")
         \/ job[d].resume = "ActivateGeneration" /\ Goes(d, "activating", "CopyingRecorded", "none")
         \/ job[d].resume = "FinishDeployment" /\ Goes(d, "begin", "ActivatedRecorded", "Completed")
<1>1. job[d].resume \in {"ResolveFlakeAuth", "MaterializeHorizon", "RecordBuilding", "NixEval",
                         "NixBuild", "CopyClosure", "ActivateGeneration", "FinishDeployment"}
  BY DEF ResumeAt
<1>2. \A resume \in DOMAIN ResumeAt :
        ResumeAt[resume] = [at |-> ResumeAt[resume].at, stage |-> ResumeAt[resume].stage,
                            next |-> ResumeAt[resume].next]
  BY DEF ResumeAt
<1>3. /\ ResumeAt[job[d].resume].at \in EnginePoints
      /\ ResumeAt[job[d].resume].stage \in Stages
      /\ ResumeAt[job[d].resume].next \in {"none"} \union Phases \union Terminals
  BY <1>1 DEF ResumeAt, EnginePoints, Effects, Stages, Phases, Terminals
<1>4. Goes(d, ResumeAt[job[d].resume].at, ResumeAt[job[d].resume].stage,
           ResumeAt[job[d].resume].next)
  BY <1>2, <1>3, EngineSetGoes
<1>5. \/ /\ job[d].resume \in {"ResolveFlakeAuth", "MaterializeHorizon", "NixBuild", "CopyClosure"}
         /\ ResumeAt[job[d].resume].at = job[d].resume
         /\ ResumeAt[job[d].resume].stage = "Submitted"
         /\ ResumeAt[job[d].resume].next = "none"
      \/ /\ job[d].resume = "RecordBuilding" /\ ResumeAt[job[d].resume].at = "begin"
         /\ ResumeAt[job[d].resume].stage = "Submitted"
         /\ ResumeAt[job[d].resume].next = "Building"
      \/ /\ job[d].resume = "NixEval" /\ ResumeAt[job[d].resume].at = "NixEval"
         /\ ResumeAt[job[d].resume].stage = "BuildingRecorded"
         /\ ResumeAt[job[d].resume].next = "none"
      \/ /\ job[d].resume = "ActivateGeneration" /\ ResumeAt[job[d].resume].at = "activating"
         /\ ResumeAt[job[d].resume].stage = "CopyingRecorded"
         /\ ResumeAt[job[d].resume].next = "none"
      \/ /\ job[d].resume = "FinishDeployment" /\ ResumeAt[job[d].resume].at = "begin"
         /\ ResumeAt[job[d].resume].stage = "ActivatedRecorded"
         /\ ResumeAt[job[d].resume].next = "Completed"
  BY <1>1 DEF ResumeAt
<1> QED BY <1>4, <1>5

-----------------------------------------------------------------------------
(* What a step does to the slots.                                          *)

OtherEngines(d) == \A e \in Deployments \ {d} : engine'[e] = engine[e]

NoAdmission == \A e \in Deployments : engine[e].at # "admit"

\* The step holds as many slots as before.
SlotsKept(d) ==
  /\ OtherEngines(d) /\ active' = active /\ mode' = mode
  /\ engine'[d].at \in {"idle", "admit"} <=> engine[d].at \in {"idle", "admit"}
  /\ engine'[d].at = "admit" => engine[d].at = "admit"

\* The actor starts an admission.
SlotAsked(d) ==
  /\ OtherEngines(d) /\ active' = active /\ mode' = mode
  /\ NoAdmission /\ mode = "serving" /\ active < Cap
  /\ engine[d].at = "idle" /\ engine'[d].at = "admit"

\* A pipeline is launched or resumed.
SlotTaken(d) ==
  /\ OtherEngines(d) /\ active' = active + 1 /\ mode' = mode
  /\ engine[d].at \in {"idle", "admit"} /\ engine'[d].at \notin {"idle", "admit"}
  /\ engine[d].at = "admit" \/ (mode = "reconciling" /\ active < Cap)

\* A completed pipeline gives its slot back.
SlotFreed(d) ==
  /\ OtherEngines(d) /\ active' = (IF active = 0 THEN 0 ELSE active - 1) /\ mode' = mode
  /\ NoAdmission
  /\ engine[d].at \notin {"idle", "admit"} /\ engine'[d].at = "idle"

SlotStep(d) == SlotsKept(d) \/ SlotAsked(d) \/ SlotTaken(d) \/ SlotFreed(d)

\* What every step of one deployment does.
StepOf(d) == TypeOK' /\ OthersUntouched(d) /\ DInv(d)' /\ SlotStep(d)

\* The slots are counted right, and within the cap, after such a step.
LEMMA SlotStepKeeps ==
  ASSUME TypeOK, SlotInv, NEW d \in Deployments, SlotStep(d)
  PROVE  SlotInv'
<1>1. CASE SlotsKept(d)
  <2>1. Holders' = Holders
    BY <1>1 DEF Holders, SlotsKept, OtherEngines
  <2> QED BY <1>1, <2>1 DEF SlotInv, SlotsKept, OtherEngines
<1>2. CASE SlotAsked(d)
  <2>1. Holders' = Holders
    BY <1>2 DEF Holders, SlotAsked, OtherEngines
  <2> QED BY <1>2, <2>1 DEF SlotInv, SlotAsked, OtherEngines, NoAdmission
<1>3. CASE SlotTaken(d)
  <2>1. Holders' = Holders \union {d} /\ d \notin Holders
    BY <1>3 DEF Holders, SlotTaken, OtherEngines
  <2>2. IsFiniteSet(Holders') /\ Cardinality(Holders') = active + 1
    BY <2>1, FS_AddElement DEF SlotInv
  <2>3. active < Cap
    BY <1>3 DEF SlotInv, SlotTaken
  <2>4. \A e \in Deployments : engine'[e].at # "admit"
    BY <1>3 DEF SlotInv, SlotTaken, OtherEngines
  <2> QED BY <1>3, <2>2, <2>3, <2>4, PipelineAssumption DEF SlotInv, SlotTaken, TypeOK
<1>4. CASE SlotFreed(d)
  <2>1. Holders' = Holders \ {d} /\ d \in Holders
    BY <1>4 DEF Holders, SlotFreed, OtherEngines
  <2>2. IsFiniteSet(Holders') /\ Cardinality(Holders') = active - 1
    BY <2>1, FS_RemoveElement DEF SlotInv
  <2>3. active # 0
    BY <2>1, FS_EmptySet DEF SlotInv
  <2>4. \A e \in Deployments : engine'[e].at # "admit"
    BY <1>4 DEF SlotFreed, OtherEngines, NoAdmission
  <2>5. active' = active - 1 /\ active' <= Cap
    BY <1>4, <2>3, PipelineAssumption DEF SlotInv, SlotFreed, TypeOK
  <2> QED BY <2>2, <2>4, <2>5 DEF SlotInv
<1> QED BY <1>1, <1>2, <1>3, <1>4 DEF SlotStep

\* A step of one deployment keeps the whole invariant.
LEMMA StepKeeps ==
  ASSUME IInv, NEW d \in Deployments, StepOf(d)
  PROVE  IInv'
<1>1. SlotInv'
  BY SlotStepKeeps DEF IInv, StepOf
<1>2. \A e \in Deployments : DInv(e)'
  BY UntouchedKeeps DEF IInv, StepOf, OthersUntouched
<1> QED BY <1>1, <1>2 DEF IInv, StepOf

-----------------------------------------------------------------------------
(* What each action does: the position it starts from, what it writes, and *)
(* that it keeps the invariant of its deployment and counts its slot.      *)

USE DEF HasJob, Concluded, Admitted, Action, MayWrite, RowAt, Terminals, Phases, Effects,
        RestartPhases, EarlyStages, BeforeCopying, Activates

\* Admission under the cap.
LEMMA AdmitKeeps ==
  ASSUME TypeOK, NEW d \in Deployments, DInv(d), NEW wanted \in Requests, Admit(d, wanted)
  PROVE  StepOf(d)
<1>1. UNCHANGED <<retired, live, world, profile, dispatched, closer, active, mode, unreconciled,
                  crashes, faults>>
  BY DEF Admit, outside
<1>2. /\ mode = "serving" /\ ~ Admitted(d) /\ ~ HasJob(d) /\ lifecycle[d] = "Absent"
      /\ engine[d].at = "idle" /\ engine[d].stage = "Submitted" /\ closer[d].at = "none"
      /\ dispatched[d] = 0 /\ world[d] = "untouched"
      /\ d \notin live /\ d \notin unreconciled
  BY DEF Admit, DInv, EngineInv, RowInv, WorldInv, CloserInv, VisitInv, ActorFree, NoRequest
<1>3. /\ request' \in [Deployments -> {NoRequest} \union Requests] /\ request'[d] = wanted
      /\ \A e \in Deployments \ {d} : request'[e] = request[e]
  BY DEF Admit, TypeOK
<1>4. wanted # NoRequest
  BY PipelineAssumption DEF NoRequest, Actions
<1>5. /\ lifecycle' = [lifecycle EXCEPT ![d] = "Submitted"]
      /\ phases' = [phases EXCEPT ![d] = <<"Submitted">>]
      /\ phases' \in [Deployments -> Seq({"Submitted"} \union Phases \union Terminals)]
      /\ lifecycle'[d] = "Submitted" /\ Len(phases'[d]) = 1 /\ phases'[d][1] = "Submitted"
      /\ undelivered' = undelivered \union {d}
  BY DEF Admit, TypeOK
<1>6. Writes(d, "Submitted", "ResolveFlakeAuth", "none", "none")
  BY RowTyped, ResumeNames DEF Admit, Writes, RowType, JobPhases, TypeOK
<1>7. Goes(d, "admit", "Submitted", engine[d].next)
  BY <1>2, GoToGoes DEF Admit, EnginePoints
<1>8. TypeOK'
  BY <1>1, <1>2, <1>3, <1>4, <1>5, <1>6, <1>7 DEF TypeOK, Goes, Writes
<1>9. OthersUntouched(d)
  BY <1>1, <1>3, <1>4, <1>5, <1>6, <1>7 DEF TypeOK, OthersUntouched, Untouched, Goes,
     Writes
<1>10. RowInv(d)'
  BY <1>1, <1>2, <1>3, <1>4, <1>5, <1>6, <1>7 DEF DInv, RowInv, Goes, Writes
<1>11. WorldInv(d)'
  BY <1>1, <1>2, <1>3, <1>4, <1>5, <1>6, <1>7 DEF DInv, WorldInv, Goes, Writes
<1>12. EngineInv(d)'
  BY <1>1, <1>2, <1>3, <1>4, <1>5, <1>6, <1>7 DEF DInv, EngineInv, Goes, Writes
<1>13. CloserInv(d)'
  BY <1>1, <1>2, <1>3, <1>4, <1>5, <1>6, <1>7 DEF DInv, CloserInv, Goes, Writes
<1>14. VisitInv(d)'
  BY <1>1, <1>2, <1>3, <1>4, <1>5, <1>6, <1>7 DEF DInv, VisitInv, Goes, Writes
<1>15. SlotAsked(d)
  BY <1>1, <1>2, <1>3, <1>4, <1>5, <1>6, <1>7, PipelineAssumption DEF SlotAsked, Admit,
     ActorFree, AtCapacity, NoAdmission, OtherEngines, TypeOK, Goes, Writes
<1> QED BY <1>8, <1>9, <1>10, <1>11, <1>12, <1>13, <1>14, <1>15 DEF StepOf, DInv, SlotStep

\* The actor launches the pipeline of an admitted deployment.
LEMMA LaunchKeeps ==
  ASSUME TypeOK, NEW d \in Deployments, DInv(d), Launch(d)
  PROVE  StepOf(d)
<1>1. UNCHANGED <<retired, request, lifecycle, phases, job, live, world, profile, dispatched, closer,
                  mode, unreconciled, crashes, faults>>
  BY DEF Launch, outside
<1>2. /\ mode # "down" /\ engine[d].at = "admit" /\ HasJob(d) /\ closer[d].at = "none"
      /\ job[d].resume = "ResolveFlakeAuth" /\ ~ Concluded(d) /\ engine[d].stage = "Submitted"
  BY DEF Launch, At, DInv, EngineInv, RowInv, WorldInv, CloserInv, VisitInv
<1>3. undelivered' = undelivered \ {d} /\ active' = active + 1
  BY DEF Launch
<1>4. Goes(d, "ResolveFlakeAuth", "Submitted", engine[d].next)
  BY <1>2, GoToGoes DEF Launch, EnginePoints
<1>5. TypeOK'
  BY <1>1, <1>2, <1>3, <1>4 DEF TypeOK, Goes
<1>6. OthersUntouched(d)
  BY <1>1, <1>3, <1>4 DEF TypeOK, OthersUntouched, Untouched, Goes
<1>7. RowInv(d)'
  BY <1>1, <1>2, <1>3, <1>4 DEF DInv, RowInv, Goes
<1>8. WorldInv(d)'
  BY <1>1, <1>2, <1>3, <1>4 DEF DInv, WorldInv, Goes
<1>9. EngineInv(d)'
  BY <1>1, <1>2, <1>3, <1>4 DEF DInv, EngineInv, Goes
<1>10. CloserInv(d)'
  BY <1>1, <1>2, <1>3, <1>4 DEF DInv, CloserInv, Goes
<1>11. VisitInv(d)'
  BY <1>1, <1>2, <1>3, <1>4 DEF DInv, VisitInv, Goes
<1>12. SlotTaken(d)
  BY <1>1, <1>2, <1>3, <1>4, PipelineAssumption DEF SlotTaken, Launch, ActorFree,
     AtCapacity, NoAdmission, OtherEngines, TypeOK, Goes
<1> QED BY <1>5, <1>6, <1>7, <1>8, <1>9, <1>10, <1>11, <1>12 DEF StepOf, DInv, SlotStep

\* A rejection at the cap.
LEMMA RejectAtCapacityKeeps ==
  ASSUME TypeOK, NEW d \in Deployments, DInv(d), RejectAtCapacity(d)
  PROVE  StepOf(d)
<1>1. UNCHANGED <<retired, request, undelivered, job, live, world, profile, dispatched, engine,
                  closer, active, mode, unreconciled, crashes, faults>>
  BY DEF RejectAtCapacity, outside, volatile
<1>2. /\ mode = "serving" /\ ~ Admitted(d) /\ ~ HasJob(d) /\ lifecycle[d] = "Absent"
      /\ d \notin live
  BY DEF RejectAtCapacity, DInv, EngineInv, RowInv, WorldInv, CloserInv, VisitInv,
     ActorFree, NoRequest
<1>3. /\ lifecycle' = [lifecycle EXCEPT ![d] = "Rejected"]
      /\ phases' = [phases EXCEPT ![d] = <<"Rejected">>]
      /\ lifecycle'[d] = "Rejected"
  BY DEF RejectAtCapacity, TypeOK
<1>4. TypeOK'
  BY <1>1, <1>2, <1>3 DEF TypeOK
<1>5. OthersUntouched(d)
  BY <1>1, <1>3 DEF TypeOK, OthersUntouched, Untouched
<1>6. RowInv(d)'
  BY <1>1, <1>2, <1>3 DEF DInv, RowInv
<1>7. WorldInv(d)'
  BY <1>1, <1>2, <1>3 DEF DInv, WorldInv
<1>8. EngineInv(d)'
  BY <1>1, <1>2, <1>3 DEF DInv, EngineInv
<1>9. CloserInv(d)'
  BY <1>1, <1>2, <1>3 DEF DInv, CloserInv
<1>10. VisitInv(d)'
  BY <1>1, <1>2, <1>3 DEF DInv, VisitInv
<1>11. SlotsKept(d)
  BY <1>1, <1>2, <1>3 DEF SlotsKept, OtherEngines
<1> QED BY <1>4, <1>5, <1>6, <1>7, <1>8, <1>9, <1>10, <1>11 DEF StepOf, DInv, SlotStep

\* The slot of a completed pipeline is freed.
LEMMA FreeSlotKeeps ==
  ASSUME TypeOK, NEW d \in Deployments, DInv(d), FreeSlot(d)
  PROVE  StepOf(d)
<1>1. UNCHANGED <<retired, request, lifecycle, phases, undelivered, job, live, world, profile,
                  dispatched, closer, mode, unreconciled, crashes, faults>>
  BY DEF FreeSlot, durable, outside
<1>2. /\ mode = "serving" /\ engine[d].at = "completed"
  BY DEF FreeSlot, At, DInv, EngineInv, RowInv, WorldInv, CloserInv, VisitInv, ActorFree
<1>3. active' = IF active = 0 THEN 0 ELSE active - 1
  BY DEF FreeSlot
<1>4. Goes(d, "idle", "Submitted", "none")
  BY DEF FreeSlot, TypeOK, Goes, Engine, IdleEngine, Stages
<1>5. TypeOK'
  BY <1>1, <1>2, <1>3, <1>4 DEF TypeOK, Goes
<1>6. OthersUntouched(d)
  BY <1>1, <1>3, <1>4 DEF TypeOK, OthersUntouched, Untouched, Goes
<1>7. RowInv(d)'
  BY <1>1, <1>2, <1>3, <1>4 DEF DInv, RowInv, Goes
<1>8. WorldInv(d)'
  BY <1>1, <1>2, <1>3, <1>4 DEF DInv, WorldInv, Goes
<1>9. EngineInv(d)'
  BY <1>1, <1>2, <1>3, <1>4 DEF DInv, EngineInv, Goes
<1>10. CloserInv(d)'
  BY <1>1, <1>2, <1>3, <1>4 DEF DInv, CloserInv, Goes
<1>11. VisitInv(d)'
  BY <1>1, <1>2, <1>3, <1>4 DEF DInv, VisitInv, Goes
<1>12. SlotFreed(d)
  BY <1>1, <1>2, <1>3, <1>4 DEF SlotFreed, FreeSlot, ActorFree, AtCapacity, NoAdmission,
     OtherEngines, TypeOK, Goes
<1> QED BY <1>5, <1>6, <1>7, <1>8, <1>9, <1>10, <1>11, <1>12 DEF StepOf, DInv, SlotStep

\* The first commit of a phase.
LEMMA BeginPhaseKeeps ==
  ASSUME TypeOK, NEW d \in Deployments, DInv(d), BeginPhase(d)
  PROVE  StepOf(d)
<1>1. /\ UNCHANGED <<request, live, world, profile, dispatched, closer, active, mode,
                     unreconciled, crashes, faults>>
      /\ retired' = retired \ {d}
  BY DEF BeginPhase, outside
<1>2. /\ mode # "down" /\ engine[d].at = "begin" /\ MayWrite(d)
      /\ closer[d].at = "none"
      /\ world[d] # "cleaned"
      /\ \/ /\ engine[d].next = "Building" /\ job[d].resume = "RecordBuilding"
            /\ engine[d].stage = "Submitted" /\ dispatched[d] = 0
            /\ Len(phases[d]) = 1 /\ phases[d][1] = "Submitted"
         \/ /\ engine[d].next = "Copying" /\ job[d].resume = "CopyClosure"
            /\ engine[d].stage \in BeforeCopying /\ Activates(Action(d)) /\ dispatched[d] = 0
         \/ /\ engine[d].next = "Activated" /\ engine[d].stage = "CopyingRecorded"
            /\ Action(d) \in {"Activate", "SelfSwitch"} /\ world[d] = "succeeded"
  BY DEF BeginPhase, At, DInv, EngineInv, RowInv, WorldInv, CloserInv, VisitInv
<1>3. undelivered' = undelivered \union {d} /\ Moves(d, engine[d].next)
  BY <1>2, TransitionMoves DEF BeginPhase
<1>4. engine[d].next = "Building" =>
         Len(phases'[d]) = 2 /\ phases'[d][1] = "Submitted" /\ phases'[d][2] = "Building"
  BY <1>2, <1>3, SecondTransition
<1>5. Goes(d, "deliver", engine[d].stage, engine[d].next)
  BY <1>2, GoToGoes DEF BeginPhase, EnginePoints
<1>6. \/ /\ engine[d].next = "Building"
         /\ Writes(d, "Building", "NixEval", job[d].closure, job[d].receipt)
      \/ /\ engine[d].next = "Copying"
         /\ Writes(d, "Copying", "ActivateGeneration", job[d].closure, job[d].receipt)
      \/ /\ engine[d].next = "Activated"
         /\ Writes(d, "Activated", "RecordGenerationActivated", job[d].closure, job[d].receipt)
  BY <1>2, PersistWrites, ResumeNames DEF BeginPhase, ResumeAfter, JobPhases
<1>7. TypeOK'
  BY <1>1, <1>2, <1>3, <1>4, <1>5, <1>6 DEF TypeOK, Goes, Writes, Moves
<1>8. OthersUntouched(d)
  BY <1>1, <1>3, <1>4, <1>5, <1>6 DEF TypeOK, OthersUntouched, Untouched, Goes, Writes,
     Moves
<1>9. RowInv(d)'
  BY <1>1, <1>2, <1>3, <1>4, <1>5, <1>6 DEF DInv, RowInv, Goes, Writes, Moves
<1>10. WorldInv(d)'
  BY <1>1, <1>2, <1>3, <1>4, <1>5, <1>6 DEF DInv, WorldInv, Goes, Writes, Moves
<1>11. EngineInv(d)'
  BY <1>1, <1>2, <1>3, <1>4, <1>5, <1>6 DEF DInv, EngineInv, Goes, Writes, Moves
<1>12. CloserInv(d)'
  BY <1>1, <1>2, <1>3, <1>4, <1>5, <1>6 DEF DInv, CloserInv, Goes, Writes, Moves
<1>13. VisitInv(d)'
  BY <1>1, <1>2, <1>3, <1>4, <1>5, <1>6 DEF DInv, VisitInv, Goes, Writes, Moves
<1>14. SlotsKept(d)
  BY <1>1, <1>2, <1>3, <1>4, <1>5, <1>6 DEF SlotsKept, OtherEngines, Goes, Writes, Moves
<1> QED BY <1>7, <1>8, <1>9, <1>10, <1>11, <1>12, <1>13, <1>14 DEF StepOf, DInv, SlotStep

\* The pipeline begins the deployment's conclusion.
LEMMA BeginTerminalKeeps ==
  ASSUME TypeOK, NEW d \in Deployments, DInv(d), BeginTerminal(d)
  PROVE  StepOf(d)
<1>1. UNCHANGED <<retired, request, live, world, profile, dispatched, closer, active, mode,
                  unreconciled, crashes, faults>>
  BY DEF BeginTerminal, outside
<1>2. /\ mode # "down" /\ engine[d].at = "begin" /\ MayWrite(d)
      /\ closer[d].at = "none"
      /\ world[d] # "cleaned"
      /\ \/ engine[d].next = "Failed"
         \/ /\ engine[d].next = "Completed" /\ job[d].resume = "FinishDeployment"
            /\ Action(d) # "SelfTest"
            /\ Action(d) \in {"Activate", "SelfSwitch"} => d \in live
  BY DEF BeginTerminal, At, DInv, EngineInv, RowInv, WorldInv, CloserInv, VisitInv
<1>3. undelivered' = undelivered \union {d} /\ Moves(d, engine[d].next)
  BY <1>2, TransitionMoves DEF BeginTerminal, Terminalize
<1>4. Goes(d, "deliver", engine[d].stage, engine[d].next)
  BY <1>2, GoToGoes DEF BeginTerminal, EnginePoints
<1>5. \/ /\ engine[d].next = "Completed"
         /\ Writes(d, "Activated", "FinishDeployment", job[d].closure, job[d].receipt)
      \/ /\ engine[d].next = "Failed"
         /\ Writes(d, "Failed", "FinishDeployment", job[d].closure, job[d].receipt)
  BY <1>2, PersistWrites, ResumeNames DEF BeginTerminal, Terminalize, JobPhases
<1>6. TypeOK'
  BY <1>1, <1>2, <1>3, <1>4, <1>5 DEF TypeOK, Goes, Writes, Moves
<1>7. OthersUntouched(d)
  BY <1>1, <1>3, <1>4, <1>5 DEF TypeOK, OthersUntouched, Untouched, Goes, Writes, Moves
<1>8. RowInv(d)'
  BY <1>1, <1>2, <1>3, <1>4, <1>5 DEF DInv, RowInv, Goes, Writes, Moves
<1>9. WorldInv(d)'
  BY <1>1, <1>2, <1>3, <1>4, <1>5 DEF DInv, WorldInv, Goes, Writes, Moves
<1>10. EngineInv(d)'
  BY <1>1, <1>2, <1>3, <1>4, <1>5 DEF DInv, EngineInv, Goes, Writes, Moves
<1>11. CloserInv(d)'
  BY <1>1, <1>2, <1>3, <1>4, <1>5 DEF DInv, CloserInv, Goes, Writes, Moves
<1>12. VisitInv(d)'
  BY <1>1, <1>2, <1>3, <1>4, <1>5 DEF DInv, VisitInv, Goes, Writes, Moves
<1>13. SlotsKept(d)
  BY <1>1, <1>2, <1>3, <1>4, <1>5 DEF SlotsKept, OtherEngines, Goes, Writes, Moves
<1> QED BY <1>6, <1>7, <1>8, <1>9, <1>10, <1>11, <1>12, <1>13 DEF StepOf, DInv, SlotStep

\* A phase is delivered.
LEMMA DeliverPhaseKeeps ==
  ASSUME TypeOK, NEW d \in Deployments, DInv(d), DeliverPhase(d)
  PROVE  StepOf(d)
<1>1. UNCHANGED <<retired, request, lifecycle, phases, job, live, world, profile, dispatched, closer,
                  active, mode, unreconciled, crashes, faults>>
  BY DEF DeliverPhase, outside
<1>2. /\ mode # "down" /\ engine[d].at = "deliver" /\ HasJob(d) /\ closer[d].at = "none"
      /\ ~ Concluded(d)
      /\ \/ /\ engine[d].next = "Building" /\ job[d].resume = "NixEval"
            /\ engine[d].stage = "Submitted"
         \/ /\ engine[d].next = "Copying" /\ RowAt(d, "ActivateGeneration", "Copying")
            /\ engine[d].stage \in BeforeCopying
         \/ /\ engine[d].next = "Activated" /\ job[d].resume = "RecordGenerationActivated"
            /\ engine[d].stage = "CopyingRecorded"
  BY DEF DeliverPhase, At, DInv, EngineInv, RowInv, WorldInv, CloserInv, VisitInv
<1>3. undelivered' = undelivered \ {d}
  BY DEF DeliverPhase
<1>4. Goes(d, "receipt", engine[d].stage, engine[d].next)
  BY <1>2, GoToGoes DEF DeliverPhase, EnginePoints
<1>5. TypeOK'
  BY <1>1, <1>2, <1>3, <1>4 DEF TypeOK, Goes
<1>6. OthersUntouched(d)
  BY <1>1, <1>3, <1>4 DEF TypeOK, OthersUntouched, Untouched, Goes
<1>7. RowInv(d)'
  BY <1>1, <1>2, <1>3, <1>4 DEF DInv, RowInv, Goes
<1>8. WorldInv(d)'
  BY <1>1, <1>2, <1>3, <1>4 DEF DInv, WorldInv, Goes
<1>9. EngineInv(d)'
  BY <1>1, <1>2, <1>3, <1>4 DEF DInv, EngineInv, Goes
<1>10. CloserInv(d)'
  BY <1>1, <1>2, <1>3, <1>4 DEF DInv, CloserInv, Goes
<1>11. VisitInv(d)'
  BY <1>1, <1>2, <1>3, <1>4 DEF DInv, VisitInv, Goes
<1>12. SlotsKept(d)
  BY <1>1, <1>2, <1>3, <1>4 DEF SlotsKept, OtherEngines, Goes
<1> QED BY <1>5, <1>6, <1>7, <1>8, <1>9, <1>10, <1>11, <1>12 DEF StepOf, DInv, SlotStep

\* The conclusion is delivered, and the row dropped.
LEMMA DeliverTerminalKeeps ==
  ASSUME TypeOK, NEW d \in Deployments, DInv(d), DeliverTerminal(d)
  PROVE  StepOf(d)
<1>1. UNCHANGED <<retired, request, lifecycle, phases, live, world, profile, dispatched, closer,
                  active, mode, unreconciled, crashes, faults>>
  BY DEF DeliverTerminal, outside
<1>2. /\ mode # "down" /\ engine[d].at = "deliver" /\ HasJob(d) /\ closer[d].at = "none"
      /\ Concluded(d) /\ d \notin unreconciled
  BY DEF DeliverTerminal, At, DInv, EngineInv, RowInv, WorldInv, CloserInv, VisitInv
<1>3. undelivered' = undelivered \ {d}
  BY DEF DeliverTerminal
<1>4. Drops(d)
  BY DropDrops DEF DeliverTerminal
<1>5. Goes(d, "completed", engine[d].stage, engine[d].next)
  BY <1>2, GoToGoes DEF DeliverTerminal, EnginePoints
<1>6. TypeOK'
  BY <1>1, <1>2, <1>3, <1>4, <1>5 DEF TypeOK, Goes, Drops
<1>7. OthersUntouched(d)
  BY <1>1, <1>3, <1>4, <1>5 DEF TypeOK, OthersUntouched, Untouched, Goes, Drops
<1>8. RowInv(d)'
  BY <1>1, <1>2, <1>3, <1>4, <1>5 DEF DInv, RowInv, Goes, Drops
<1>9. WorldInv(d)'
  BY <1>1, <1>2, <1>3, <1>4, <1>5 DEF DInv, WorldInv, Goes, Drops
<1>10. EngineInv(d)'
  BY <1>1, <1>2, <1>3, <1>4, <1>5 DEF DInv, EngineInv, Goes, Drops
<1>11. CloserInv(d)'
  BY <1>1, <1>2, <1>3, <1>4, <1>5 DEF DInv, CloserInv, Goes, Drops
<1>12. VisitInv(d)'
  BY <1>1, <1>2, <1>3, <1>4, <1>5 DEF DInv, VisitInv, Goes, Drops
<1>13. SlotsKept(d)
  BY <1>1, <1>2, <1>3, <1>4, <1>5 DEF SlotsKept, OtherEngines, Goes, Drops
<1> QED BY <1>6, <1>7, <1>8, <1>9, <1>10, <1>11, <1>12, <1>13 DEF StepOf, DInv, SlotStep

\* The journal refuses a delivery.
LEMMA RefuseDeliveryKeeps ==
  ASSUME TypeOK, NEW d \in Deployments, DInv(d), RefuseDelivery(d)
  PROVE  StepOf(d)
<1>1. UNCHANGED <<retired, request, lifecycle, phases, undelivered, job, live, world, profile,
                  dispatched, active, mode, unreconciled, crashes>>
  BY DEF RefuseDelivery, durable, outside
<1>2. faults < MaxFaults /\ mode # "down" /\ Admitted(d) /\ d \notin unreconciled
  BY DEF RefuseDelivery, At, CloserAt, DInv, EngineInv, RowInv, WorldInv, CloserInv,
     VisitInv
<1>3. faults' = faults + 1
  BY DEF RefuseDelivery
<1> DEFINE g == IF engine[d].at = "admit" THEN IdleEngine ELSE [engine[d] EXCEPT !.at = "completed"]
<1>4. engine[d] \in Engine /\ IdleEngine \in Engine
  BY DEF TypeOK, Engine, IdleEngine, Stages
<1>5. /\ [engine[d] EXCEPT !.at = "completed"] \in Engine
      /\ [engine[d] EXCEPT !.at = "completed"].at = "completed"
      /\ [engine[d] EXCEPT !.at = "completed"].stage = engine[d].stage
      /\ [engine[d] EXCEPT !.at = "completed"].next = engine[d].next
  BY <1>4 DEF Engine
<1>6. /\ g \in Engine
      /\ \/ /\ engine[d].at = "admit"
            /\ g.at = "idle" /\ g.stage = "Submitted" /\ g.next = "none"
         \/ /\ engine[d].at # "admit"
            /\ g.at = "completed" /\ g.stage = engine[d].stage /\ g.next = engine[d].next
  BY <1>4, <1>5 DEF IdleEngine
<1>7. \/ engine' = engine
      \/ engine[d].at \in {"admit", "deliver"} /\ engine' = [engine EXCEPT ![d] = g]
  BY DEF RefuseDelivery, At
<1> HIDE DEF g
<1>8. \/ engine' = engine
      \/ engine[d].at = "admit" /\ Goes(d, "idle", "Submitted", "none")
      \/ engine[d].at = "deliver" /\ Goes(d, "completed", engine[d].stage, engine[d].next)
  BY <1>6, <1>7 DEF TypeOK, Goes
<1>9. closer' = closer \/ CloserGoes(d, "none", "none")
  BY CloserSetGoes DEF RefuseDelivery, NoCloser
<1>10. TypeOK'
  BY <1>1, <1>2, <1>3, <1>8, <1>9, PipelineAssumption DEF TypeOK, Goes, CloserGoes
<1>11. OthersUntouched(d)
  BY <1>1, <1>3, <1>8, <1>9 DEF TypeOK, OthersUntouched, Untouched, Goes, CloserGoes
<1>12. RowInv(d)'
  BY <1>1, <1>2, <1>3, <1>8, <1>9 DEF DInv, RowInv, Goes, CloserGoes
<1>13. WorldInv(d)'
  BY <1>1, <1>2, <1>3, <1>8, <1>9 DEF DInv, WorldInv, Goes, CloserGoes
<1>14. EngineInv(d)'
  BY <1>1, <1>2, <1>3, <1>8, <1>9 DEF DInv, EngineInv, Goes, CloserGoes
<1>15. CloserInv(d)'
  BY <1>1, <1>2, <1>3, <1>8, <1>9 DEF DInv, CloserInv, Goes, CloserGoes
<1>16. VisitInv(d)'
  BY <1>1, <1>2, <1>3, <1>8, <1>9 DEF DInv, VisitInv, Goes, CloserGoes
<1>17. SlotsKept(d)
  BY <1>1, <1>2, <1>3, <1>8, <1>9 DEF SlotsKept, OtherEngines, Goes, CloserGoes
<1> QED BY <1>10, <1>11, <1>12, <1>13, <1>14, <1>15, <1>16, <1>17 DEF StepOf, DInv, SlotStep

\* The pipeline writes the receipt of the phase it has recorded.
LEMMA PersistReceiptKeeps ==
  ASSUME TypeOK, NEW d \in Deployments, DInv(d), PersistReceipt(d)
  PROVE  StepOf(d)
<1>1. UNCHANGED <<retired, request, lifecycle, phases, undelivered, live, world, profile, dispatched,
                  closer, active, mode, unreconciled, crashes, faults>>
  BY DEF PersistReceipt, outside
<1>2. /\ mode # "down" /\ engine[d].at = "receipt" /\ MayWrite(d)
      /\ closer[d].at = "none"
      /\ d \notin unreconciled
      /\ \/ /\ engine[d].next = "Building" /\ job[d].resume = "NixEval"
            /\ engine[d].stage = "Submitted"
         \/ /\ engine[d].next = "Copying" /\ RowAt(d, "ActivateGeneration", "Copying")
            /\ engine[d].stage \in BeforeCopying
         \/ /\ engine[d].next = "Activated" /\ job[d].resume = "RecordGenerationActivated"
            /\ engine[d].stage = "CopyingRecorded"
  BY DEF PersistReceipt, At, DInv, EngineInv, RowInv, WorldInv, CloserInv, VisitInv
<1>3. Writes(d, job[d].phase, job[d].resume, job[d].closure, engine[d].next)
  BY <1>2, ReceiptWrites DEF PersistReceipt
<1>4. engine' = [engine EXCEPT ![d] = [at |-> NextStep[engine[d].stage],
                                        stage |-> NextStage[engine[d].stage], next |-> "none"]]
  BY DEF PersistReceipt
<1>5. \/ /\ engine[d].next \in {"Building", "Copying"}
         /\ Goes(d, "NixEval", "BuildingRecorded", "none")
      \/ /\ engine[d].next = "Copying"
         /\ Goes(d, "activating", "CopyingRecorded", "none")
      \/ /\ engine[d].next = "Activated"
         /\ Goes(d, "recordActivation", "ActivatedRecorded", "none")
  BY <1>2, <1>4 DEF TypeOK, Goes, Engine, Stages, NextStep, NextStage
<1>6. TypeOK'
  BY <1>1, <1>2, <1>3, <1>5 DEF TypeOK, Goes, Writes
<1>7. OthersUntouched(d)
  BY <1>1, <1>3, <1>5 DEF TypeOK, OthersUntouched, Untouched, Goes, Writes
<1>8. RowInv(d)'
  BY <1>1, <1>2, <1>3, <1>5 DEF DInv, RowInv, Goes, Writes
<1>9. WorldInv(d)'
  BY <1>1, <1>2, <1>3, <1>5 DEF DInv, WorldInv, Goes, Writes
<1>10. EngineInv(d)'
  BY <1>1, <1>2, <1>3, <1>5 DEF DInv, EngineInv, Goes, Writes
<1>11. CloserInv(d)'
  BY <1>1, <1>2, <1>3, <1>5 DEF DInv, CloserInv, Goes, Writes
<1>12. VisitInv(d)'
  BY <1>1, <1>2, <1>3, <1>5 DEF DInv, VisitInv, Goes, Writes
<1>13. SlotsKept(d)
  BY <1>1, <1>2, <1>3, <1>5 DEF SlotsKept, OtherEngines, Goes, Writes
<1> QED BY <1>6, <1>7, <1>8, <1>9, <1>10, <1>11, <1>12, <1>13 DEF StepOf, DInv, SlotStep

\* The row is marked before the activation.
LEMMA PersistActivatingKeeps ==
  ASSUME TypeOK, NEW d \in Deployments, DInv(d), PersistActivating(d)
  PROVE  StepOf(d)
<1>1. UNCHANGED <<retired, request, lifecycle, phases, undelivered, live, world, profile, dispatched,
                  closer, active, mode, unreconciled, crashes, faults>>
  BY DEF PersistActivating, outside
<1>2. /\ mode # "down" /\ engine[d].at = "activating" /\ MayWrite(d)
      /\ closer[d].at = "none"
      /\ RowAt(d, "ActivateGeneration", "Copying") /\ engine[d].stage = "CopyingRecorded"
      /\ dispatched[d] = 0
  BY DEF PersistActivating, At, DInv, EngineInv, RowInv, WorldInv, CloserInv, VisitInv
<1>3. Writes(d, "Activating", "ActivateGeneration", job[d].closure, job[d].receipt)
  BY <1>2, PersistWrites, ResumeNames DEF PersistActivating, ActivatingPhase, JobPhases
<1>4. Goes(d, "ActivateGeneration", "CopyingRecorded", engine[d].next)
  BY <1>2, GoToGoes DEF PersistActivating, EnginePoints
<1>5. TypeOK'
  BY <1>1, <1>2, <1>3, <1>4 DEF TypeOK, Goes, Writes
<1>6. OthersUntouched(d)
  BY <1>1, <1>3, <1>4 DEF TypeOK, OthersUntouched, Untouched, Goes, Writes
<1>7. RowInv(d)'
  BY <1>1, <1>2, <1>3, <1>4 DEF DInv, RowInv, Goes, Writes
<1>8. WorldInv(d)'
  BY <1>1, <1>2, <1>3, <1>4 DEF DInv, WorldInv, Goes, Writes
<1>9. EngineInv(d)'
  BY <1>1, <1>2, <1>3, <1>4 DEF DInv, EngineInv, Goes, Writes
<1>10. CloserInv(d)'
  BY <1>1, <1>2, <1>3, <1>4 DEF DInv, CloserInv, Goes, Writes
<1>11. VisitInv(d)'
  BY <1>1, <1>2, <1>3, <1>4 DEF DInv, VisitInv, Goes, Writes
<1>12. SlotsKept(d)
  BY <1>1, <1>2, <1>3, <1>4 DEF SlotsKept, OtherEngines, Goes, Writes
<1> QED BY <1>5, <1>6, <1>7, <1>8, <1>9, <1>10, <1>11, <1>12 DEF StepOf, DInv, SlotStep

\* The pipeline records its activation.
LEMMA RecordActivationKeeps ==
  ASSUME TypeOK, NEW d \in Deployments, DInv(d), RecordActivation(d)
  PROVE  StepOf(d)
<1>1. UNCHANGED <<retired, request, lifecycle, phases, undelivered, job, world, profile, dispatched,
                  closer, active, mode, unreconciled, crashes, faults>>
  BY DEF RecordActivation, outside
<1>2. /\ mode # "down" /\ engine[d].at = "recordActivation" /\ MayWrite(d)
      /\ closer[d].at = "none"
      /\ job[d].resume = "RecordGenerationActivated"
      /\ Action(d) \in {"Activate", "SelfSwitch"} /\ world[d] = "succeeded"
  BY DEF RecordActivation, At, DInv, EngineInv, RowInv, WorldInv, CloserInv, VisitInv
<1>3. live' = live \union {d}
  BY DEF RecordActivation
<1>4. Goes(d, "markActivated", engine[d].stage, engine[d].next)
  BY <1>2, GoToGoes DEF RecordActivation, EnginePoints
<1>5. TypeOK'
  BY <1>1, <1>2, <1>3, <1>4 DEF TypeOK, Goes
<1>6. OthersUntouched(d)
  BY <1>1, <1>3, <1>4 DEF TypeOK, OthersUntouched, Untouched, Goes
<1>7. RowInv(d)'
  BY <1>1, <1>2, <1>3, <1>4 DEF DInv, RowInv, Goes
<1>8. WorldInv(d)'
  BY <1>1, <1>2, <1>3, <1>4 DEF DInv, WorldInv, Goes
<1>9. EngineInv(d)'
  BY <1>1, <1>2, <1>3, <1>4 DEF DInv, EngineInv, Goes
<1>10. CloserInv(d)'
  BY <1>1, <1>2, <1>3, <1>4 DEF DInv, CloserInv, Goes
<1>11. VisitInv(d)'
  BY <1>1, <1>2, <1>3, <1>4 DEF DInv, VisitInv, Goes
<1>12. SlotsKept(d)
  BY <1>1, <1>2, <1>3, <1>4 DEF SlotsKept, OtherEngines, Goes
<1> QED BY <1>5, <1>6, <1>7, <1>8, <1>9, <1>10, <1>11, <1>12 DEF StepOf, DInv, SlotStep

\* The row says that the activation is recorded.
LEMMA MarkActivatedKeeps ==
  ASSUME TypeOK, NEW d \in Deployments, DInv(d), MarkActivated(d)
  PROVE  StepOf(d)
<1>1. UNCHANGED <<retired, request, lifecycle, phases, undelivered, live, world, profile, dispatched,
                  closer, active, mode, unreconciled, crashes, faults>>
  BY DEF MarkActivated, outside
<1>2. /\ mode # "down" /\ engine[d].at = "markActivated" /\ MayWrite(d)
      /\ closer[d].at = "none"
      /\ job[d].resume = "RecordGenerationActivated" /\ lifecycle[d] = "Activated"
      /\ Action(d) \in {"Activate", "SelfSwitch"} /\ d \in live
  BY DEF MarkActivated, At, DInv, EngineInv, RowInv, WorldInv, CloserInv, VisitInv
<1>3. Writes(d, "Activated", "FinishDeployment", job[d].closure, job[d].receipt)
  BY <1>2, PersistWrites, ResumeNames DEF MarkActivated, JobPhases
<1>4. Goes(d, "begin", engine[d].stage, "Completed")
  BY <1>2, BeginNextGoes DEF MarkActivated
<1>5. TypeOK'
  BY <1>1, <1>2, <1>3, <1>4 DEF TypeOK, Goes, Writes
<1>6. OthersUntouched(d)
  BY <1>1, <1>3, <1>4 DEF TypeOK, OthersUntouched, Untouched, Goes, Writes
<1>7. RowInv(d)'
  BY <1>1, <1>2, <1>3, <1>4 DEF DInv, RowInv, Goes, Writes
<1>8. WorldInv(d)'
  BY <1>1, <1>2, <1>3, <1>4 DEF DInv, WorldInv, Goes, Writes
<1>9. EngineInv(d)'
  BY <1>1, <1>2, <1>3, <1>4 DEF DInv, EngineInv, Goes, Writes
<1>10. CloserInv(d)'
  BY <1>1, <1>2, <1>3, <1>4 DEF DInv, CloserInv, Goes, Writes
<1>11. VisitInv(d)'
  BY <1>1, <1>2, <1>3, <1>4 DEF DInv, VisitInv, Goes, Writes
<1>12. SlotsKept(d)
  BY <1>1, <1>2, <1>3, <1>4 DEF SlotsKept, OtherEngines, Goes, Writes
<1> QED BY <1>5, <1>6, <1>7, <1>8, <1>9, <1>10, <1>11, <1>12 DEF StepOf, DInv, SlotStep

\* An effect fails.
LEMMA EffectFailsKeeps ==
  ASSUME TypeOK, NEW d \in Deployments, DInv(d), EffectFails(d)
  PROVE  StepOf(d)
<1>1. UNCHANGED <<retired, request, lifecycle, phases, undelivered, job, live, world, profile,
                  dispatched, closer, active, mode, unreconciled, crashes, faults>>
  BY DEF EffectFails, durable, outside
<1>2. /\ mode # "down" /\ MayWrite(d) /\ closer[d].at = "none" /\ engine[d].at \in Effects
  BY DEF EffectFails, At, DInv, EngineInv, RowInv, WorldInv, CloserInv, VisitInv
<1>3. Goes(d, "begin", engine[d].stage, "Failed")
  BY <1>2, BeginNextGoes DEF EffectFails
<1>4. TypeOK'
  BY <1>1, <1>2, <1>3 DEF TypeOK, Goes
<1>5. OthersUntouched(d)
  BY <1>1, <1>3 DEF TypeOK, OthersUntouched, Untouched, Goes
<1>6. RowInv(d)'
  BY <1>1, <1>2, <1>3 DEF DInv, RowInv, Goes
<1>7. WorldInv(d)'
  BY <1>1, <1>2, <1>3 DEF DInv, WorldInv, Goes
<1>8. EngineInv(d)'
  BY <1>1, <1>2, <1>3 DEF DInv, EngineInv, Goes
<1>9. CloserInv(d)'
  BY <1>1, <1>2, <1>3 DEF DInv, CloserInv, Goes
<1>10. VisitInv(d)'
  BY <1>1, <1>2, <1>3 DEF DInv, VisitInv, Goes
<1>11. SlotsKept(d)
  BY <1>1, <1>2, <1>3 DEF SlotsKept, OtherEngines, Goes
<1> QED BY <1>4, <1>5, <1>6, <1>7, <1>8, <1>9, <1>10, <1>11 DEF StepOf, DInv, SlotStep

\* The flake is resolved.
LEMMA FlakeResolvedKeeps ==
  ASSUME TypeOK, NEW d \in Deployments, DInv(d), FlakeResolved(d)
  PROVE  StepOf(d)
<1>1. UNCHANGED <<retired, request, lifecycle, phases, undelivered, live, world, profile, dispatched,
                  closer, active, mode, unreconciled, crashes, faults>>
  BY DEF FlakeResolved, UnchangedByEffect, outside
<1>2. /\ mode # "down" /\ engine[d].at = "ResolveFlakeAuth" /\ MayWrite(d)
      /\ closer[d].at = "none"
      /\ job[d].resume = "ResolveFlakeAuth" /\ engine[d].stage = "Submitted"
      /\ dispatched[d] = 0
  BY DEF FlakeResolved, At, DInv, EngineInv, RowInv, WorldInv, CloserInv, VisitInv
<1>3. \/ /\ Writes(d, "Submitted", "MaterializeHorizon", job[d].closure, job[d].receipt)
         /\ Goes(d, "MaterializeHorizon", "Submitted", engine[d].next)
      \/ /\ Writes(d, "Submitted", "RecordBuilding", job[d].closure, job[d].receipt)
         /\ Goes(d, "begin", "Submitted", "Building")
  BY <1>2, PersistWrites, GoToGoes, BeginNextGoes, ResumeNames DEF FlakeResolved,
     ResumeAfterResolve, JobPhases, EnginePoints
<1>4. TypeOK'
  BY <1>1, <1>2, <1>3 DEF TypeOK, Goes, Writes
<1>5. OthersUntouched(d)
  BY <1>1, <1>3 DEF TypeOK, OthersUntouched, Untouched, Goes, Writes
<1>6. RowInv(d)'
  BY <1>1, <1>2, <1>3 DEF DInv, RowInv, Goes, Writes
<1>7. WorldInv(d)'
  BY <1>1, <1>2, <1>3 DEF DInv, WorldInv, Goes, Writes
<1>8. EngineInv(d)'
  BY <1>1, <1>2, <1>3 DEF DInv, EngineInv, Goes, Writes
<1>9. CloserInv(d)'
  BY <1>1, <1>2, <1>3 DEF DInv, CloserInv, Goes, Writes
<1>10. VisitInv(d)'
  BY <1>1, <1>2, <1>3 DEF DInv, VisitInv, Goes, Writes
<1>11. SlotsKept(d)
  BY <1>1, <1>2, <1>3 DEF SlotsKept, OtherEngines, Goes, Writes
<1> QED BY <1>4, <1>5, <1>6, <1>7, <1>8, <1>9, <1>10, <1>11 DEF StepOf, DInv, SlotStep

\* The Horizon inputs are materialized.
LEMMA HorizonMaterializedKeeps ==
  ASSUME TypeOK, NEW d \in Deployments, DInv(d), HorizonMaterialized(d)
  PROVE  StepOf(d)
<1>1. UNCHANGED <<retired, request, lifecycle, phases, undelivered, live, world, profile, dispatched,
                  closer, active, mode, unreconciled, crashes, faults>>
  BY DEF HorizonMaterialized, UnchangedByEffect, outside
<1>2. /\ mode # "down" /\ engine[d].at = "MaterializeHorizon" /\ MayWrite(d)
      /\ closer[d].at = "none"
      /\ job[d].resume = "MaterializeHorizon" /\ engine[d].stage = "Submitted"
      /\ dispatched[d] = 0
  BY DEF HorizonMaterialized, At, DInv, EngineInv, RowInv, WorldInv, CloserInv, VisitInv
<1>3. Writes(d, "Submitted", "RecordBuilding", job[d].closure, job[d].receipt)
  BY <1>2, PersistWrites, ResumeNames DEF HorizonMaterialized, JobPhases
<1>4. Goes(d, "begin", "Submitted", "Building")
  BY <1>2, BeginNextGoes DEF HorizonMaterialized
<1>5. TypeOK'
  BY <1>1, <1>2, <1>3, <1>4 DEF TypeOK, Goes, Writes
<1>6. OthersUntouched(d)
  BY <1>1, <1>3, <1>4 DEF TypeOK, OthersUntouched, Untouched, Goes, Writes
<1>7. RowInv(d)'
  BY <1>1, <1>2, <1>3, <1>4 DEF DInv, RowInv, Goes, Writes
<1>8. WorldInv(d)'
  BY <1>1, <1>2, <1>3, <1>4 DEF DInv, WorldInv, Goes, Writes
<1>9. EngineInv(d)'
  BY <1>1, <1>2, <1>3, <1>4 DEF DInv, EngineInv, Goes, Writes
<1>10. CloserInv(d)'
  BY <1>1, <1>2, <1>3, <1>4 DEF DInv, CloserInv, Goes, Writes
<1>11. VisitInv(d)'
  BY <1>1, <1>2, <1>3, <1>4 DEF DInv, VisitInv, Goes, Writes
<1>12. SlotsKept(d)
  BY <1>1, <1>2, <1>3, <1>4 DEF SlotsKept, OtherEngines, Goes, Writes
<1> QED BY <1>5, <1>6, <1>7, <1>8, <1>9, <1>10, <1>11, <1>12 DEF StepOf, DInv, SlotStep

\* The closure is evaluated.
LEMMA ClosureEvaluatedKeeps ==
  ASSUME TypeOK, NEW d \in Deployments, DInv(d), ClosureEvaluated(d)
  PROVE  StepOf(d)
<1>1. UNCHANGED <<retired, request, lifecycle, phases, undelivered, live, world, profile, dispatched,
                  closer, active, mode, unreconciled, crashes, faults>>
  BY DEF ClosureEvaluated, UnchangedByEffect, outside
<1>2. /\ mode # "down" /\ engine[d].at = "NixEval" /\ MayWrite(d)
      /\ closer[d].at = "none"
      /\ engine[d].stage = "BuildingRecorded" /\ job[d].receipt # "none" /\ dispatched[d] = 0
      /\ job[d].phase # "Activating"
      /\ \/ lifecycle[d] = "Building"
         \/ lifecycle[d] = "Copying" /\ Activates(Action(d))
  BY DEF ClosureEvaluated, At, DInv, EngineInv, RowInv, WorldInv, CloserInv, VisitInv
<1> DEFINE phase == IF ProducesClosure(Action(d)) THEN "Building" ELSE "Built"
<1> DEFINE resume == IF ProducesClosure(Action(d)) THEN "NixBuild" ELSE "FinishDeployment"
<1>3. phase \in JobPhases /\ resume \in ResumeStages
  BY ResumeNames DEF JobPhases
<1> DEFINE row == [job[d] EXCEPT !.closure = "derivation", !.phase = phase, !.resume = resume]
<1>4. job' = [job EXCEPT ![d] = row]
  BY DEF ClosureEvaluated, BuiltClosure
<1> HIDE DEF phase, resume
<1>5. /\ row \in RowType /\ row.phase = phase /\ row.resume = resume
      /\ row.closure = "derivation" /\ row.receipt = job[d].receipt
  BY <1>2, <1>3, RowTyped DEF RowType
<1> HIDE DEF row
<1>6. Writes(d, phase, resume, "derivation", job[d].receipt)
  BY <1>4, <1>5, RowWrites
<1> USE DEF phase, resume
<1>7. \/ /\ Action(d) # "Evaluate" /\ phase = "Building" /\ resume = "NixBuild"
         /\ Goes(d, "NixBuild", "BuildingRecorded", engine[d].next)
      \/ /\ Action(d) = "Evaluate" /\ phase = "Built" /\ resume = "FinishDeployment"
         /\ Goes(d, "begin", "BuildingRecorded", "Completed")
  BY <1>2, GoToGoes, BeginNextGoes DEF ClosureEvaluated, ProducesClosure, EnginePoints
<1> HIDE DEF phase, resume
<1>8. TypeOK'
  BY <1>1, <1>2, <1>6, <1>7 DEF TypeOK, Goes, Writes
<1>9. OthersUntouched(d)
  BY <1>1, <1>6, <1>7 DEF TypeOK, OthersUntouched, Untouched, Goes, Writes
<1>10. RowInv(d)'
  BY <1>1, <1>2, <1>6, <1>7 DEF DInv, RowInv, Goes, Writes
<1>11. WorldInv(d)'
  BY <1>1, <1>2, <1>6, <1>7 DEF DInv, WorldInv, Goes, Writes
<1>12. EngineInv(d)'
  BY <1>1, <1>2, <1>6, <1>7 DEF DInv, EngineInv, Goes, Writes
<1>13. CloserInv(d)'
  BY <1>1, <1>2, <1>6, <1>7 DEF DInv, CloserInv, Goes, Writes
<1>14. VisitInv(d)'
  BY <1>1, <1>2, <1>6, <1>7 DEF DInv, VisitInv, Goes, Writes
<1>15. SlotsKept(d)
  BY <1>1, <1>2, <1>6, <1>7 DEF SlotsKept, OtherEngines, Goes, Writes
<1> QED BY <1>8, <1>9, <1>10, <1>11, <1>12, <1>13, <1>14, <1>15 DEF StepOf, DInv, SlotStep

\* The closure is built.
LEMMA ClosureBuiltKeeps ==
  ASSUME TypeOK, NEW d \in Deployments, DInv(d), ClosureBuilt(d)
  PROVE  StepOf(d)
<1>1. UNCHANGED <<retired, request, lifecycle, phases, undelivered, live, world, profile, dispatched,
                  closer, active, mode, unreconciled, crashes, faults>>
  BY DEF ClosureBuilt, UnchangedByEffect, outside
<1>2. /\ mode # "down" /\ engine[d].at = "NixBuild" /\ MayWrite(d)
      /\ closer[d].at = "none"
      /\ job[d].resume = "NixBuild" /\ job[d].receipt # "none" /\ engine[d].stage \in BeforeCopying
      /\ dispatched[d] = 0
      /\ \/ lifecycle[d] = "Building"
         \/ lifecycle[d] = "Copying" /\ Activates(Action(d))
  BY DEF ClosureBuilt, At, DInv, EngineInv, RowInv, WorldInv, CloserInv, VisitInv
<1> DEFINE phase == "Built"
<1> DEFINE resume == IF Activates(Action(d)) THEN "CopyClosure" ELSE "FinishDeployment"
<1>3. phase \in JobPhases /\ resume \in ResumeStages
  BY ResumeNames DEF JobPhases
<1> DEFINE row == [job[d] EXCEPT !.closure = "output", !.phase = phase, !.resume = resume]
<1>4. job' = [job EXCEPT ![d] = row]
  BY DEF ClosureBuilt, BuiltClosure
<1> HIDE DEF phase, resume
<1>5. /\ row \in RowType /\ row.phase = phase /\ row.resume = resume
      /\ row.closure = "output" /\ row.receipt = job[d].receipt
  BY <1>2, <1>3, RowTyped DEF RowType
<1> HIDE DEF row
<1>6. Writes(d, phase, resume, "output", job[d].receipt)
  BY <1>4, <1>5, RowWrites
<1> USE DEF phase, resume
<1>7. \/ /\ Activates(Action(d)) /\ phase = "Built" /\ resume = "CopyClosure"
         /\ Goes(d, "CopyClosure", engine[d].stage, engine[d].next)
      \/ /\ ~ Activates(Action(d)) /\ phase = "Built" /\ resume = "FinishDeployment"
         /\ Goes(d, "begin", engine[d].stage, "Completed")
  BY <1>2, GoToGoes, BeginNextGoes DEF ClosureBuilt, EnginePoints
<1> HIDE DEF phase, resume
<1>8. TypeOK'
  BY <1>1, <1>2, <1>6, <1>7 DEF TypeOK, Goes, Writes
<1>9. OthersUntouched(d)
  BY <1>1, <1>6, <1>7 DEF TypeOK, OthersUntouched, Untouched, Goes, Writes
<1>10. RowInv(d)'
  BY <1>1, <1>2, <1>6, <1>7 DEF DInv, RowInv, Goes, Writes
<1>11. WorldInv(d)'
  BY <1>1, <1>2, <1>6, <1>7 DEF DInv, WorldInv, Goes, Writes
<1>12. EngineInv(d)'
  BY <1>1, <1>2, <1>6, <1>7 DEF DInv, EngineInv, Goes, Writes
<1>13. CloserInv(d)'
  BY <1>1, <1>2, <1>6, <1>7 DEF DInv, CloserInv, Goes, Writes
<1>14. VisitInv(d)'
  BY <1>1, <1>2, <1>6, <1>7 DEF DInv, VisitInv, Goes, Writes
<1>15. SlotsKept(d)
  BY <1>1, <1>2, <1>6, <1>7 DEF SlotsKept, OtherEngines, Goes, Writes
<1> QED BY <1>8, <1>9, <1>10, <1>11, <1>12, <1>13, <1>14, <1>15 DEF StepOf, DInv, SlotStep

\* The closure is copied.
LEMMA ClosureCopiedKeeps ==
  ASSUME TypeOK, NEW d \in Deployments, DInv(d), ClosureCopied(d)
  PROVE  StepOf(d)
<1>1. UNCHANGED <<retired, request, lifecycle, phases, undelivered, job, live, world, profile,
                  dispatched, closer, active, mode, unreconciled, crashes, faults>>
  BY DEF ClosureCopied, durable, outside
<1>2. /\ mode # "down" /\ engine[d].at = "CopyClosure" /\ MayWrite(d)
      /\ closer[d].at = "none"
      /\ job[d].resume = "CopyClosure" /\ engine[d].stage \in BeforeCopying
  BY DEF ClosureCopied, At, DInv, EngineInv, RowInv, WorldInv, CloserInv, VisitInv
<1>3. Goes(d, "begin", engine[d].stage, "Copying")
  BY <1>2, BeginNextGoes DEF ClosureCopied
<1>4. TypeOK'
  BY <1>1, <1>2, <1>3 DEF TypeOK, Goes
<1>5. OthersUntouched(d)
  BY <1>1, <1>3 DEF TypeOK, OthersUntouched, Untouched, Goes
<1>6. RowInv(d)'
  BY <1>1, <1>2, <1>3 DEF DInv, RowInv, Goes
<1>7. WorldInv(d)'
  BY <1>1, <1>2, <1>3 DEF DInv, WorldInv, Goes
<1>8. EngineInv(d)'
  BY <1>1, <1>2, <1>3 DEF DInv, EngineInv, Goes
<1>9. CloserInv(d)'
  BY <1>1, <1>2, <1>3 DEF DInv, CloserInv, Goes
<1>10. VisitInv(d)'
  BY <1>1, <1>2, <1>3 DEF DInv, VisitInv, Goes
<1>11. SlotsKept(d)
  BY <1>1, <1>2, <1>3 DEF SlotsKept, OtherEngines, Goes
<1> QED BY <1>4, <1>5, <1>6, <1>7, <1>8, <1>9, <1>10, <1>11 DEF StepOf, DInv, SlotStep

\* The activation is started.
LEMMA DispatchKeeps ==
  ASSUME TypeOK, NEW d \in Deployments, DInv(d), Dispatch(d)
  PROVE  StepOf(d)
<1>1. UNCHANGED <<retired, request, lifecycle, phases, undelivered, job, live, profile, closer, active,
                  mode, unreconciled, crashes, faults>>
  BY DEF Dispatch, durable
<1>2. /\ mode # "down" /\ engine[d].at = "ActivateGeneration" /\ MayWrite(d)
      /\ closer[d].at = "none"
      /\ RowAt(d, "ActivateGeneration", "Activating") /\ engine[d].stage = "CopyingRecorded"
      /\ dispatched[d] = 0 /\ world[d] = "untouched" /\ d \notin unreconciled
  BY DEF Dispatch, At, DInv, EngineInv, RowInv, WorldInv, CloserInv, VisitInv
<1>3. /\ world' = [world EXCEPT ![d] = "running"] /\ world'[d] = "running"
      /\ dispatched' = [dispatched EXCEPT ![d] = 1] /\ dispatched'[d] = 1
  BY <1>2 DEF Dispatch, TypeOK
<1>4. Goes(d, "await", "CopyingRecorded", engine[d].next)
  BY <1>2, GoToGoes DEF Dispatch, EnginePoints
<1>5. TypeOK'
  BY <1>1, <1>2, <1>3, <1>4 DEF TypeOK, Goes
<1>6. OthersUntouched(d)
  BY <1>1, <1>3, <1>4 DEF TypeOK, OthersUntouched, Untouched, Goes
<1>7. RowInv(d)'
  BY <1>1, <1>2, <1>3, <1>4 DEF DInv, RowInv, Goes
<1>8. WorldInv(d)'
  BY <1>1, <1>2, <1>3, <1>4 DEF DInv, WorldInv, Goes
<1>9. EngineInv(d)'
  BY <1>1, <1>2, <1>3, <1>4 DEF DInv, EngineInv, Goes
<1>10. CloserInv(d)'
  BY <1>1, <1>2, <1>3, <1>4 DEF DInv, CloserInv, Goes
<1>11. VisitInv(d)'
  BY <1>1, <1>2, <1>3, <1>4 DEF DInv, VisitInv, Goes
<1>12. SlotsKept(d)
  BY <1>1, <1>2, <1>3, <1>4 DEF SlotsKept, OtherEngines, Goes
<1> QED BY <1>5, <1>6, <1>7, <1>8, <1>9, <1>10, <1>11, <1>12 DEF StepOf, DInv, SlotStep

\* The activation returns to the pipeline.
LEMMA ActivationReturnsKeeps ==
  ASSUME TypeOK, NEW d \in Deployments, DInv(d), ActivationReturns(d)
  PROVE  StepOf(d)
<1>1. UNCHANGED <<retired, request, lifecycle, phases, undelivered, job, live, world, profile,
                  dispatched, closer, active, mode, unreconciled, crashes, faults>>
  BY DEF ActivationReturns, durable, outside
<1>2. /\ mode # "down" /\ engine[d].at = "await" /\ MayWrite(d)
      /\ closer[d].at = "none"
      /\ RowAt(d, "ActivateGeneration", "Activating") /\ engine[d].stage = "CopyingRecorded"
      /\ Action(d) \in {"Activate", "SelfSwitch"}
  BY DEF ActivationReturns, At, DInv, EngineInv, RowInv, WorldInv, CloserInv, VisitInv
<1>3. \/ world[d] = "succeeded" /\ Goes(d, "begin", "CopyingRecorded", "Activated")
      \/ Goes(d, "begin", "CopyingRecorded", "Failed")
  BY <1>2, BeginNextGoes DEF ActivationReturns
<1>4. TypeOK'
  BY <1>1, <1>2, <1>3 DEF TypeOK, Goes
<1>5. OthersUntouched(d)
  BY <1>1, <1>3 DEF TypeOK, OthersUntouched, Untouched, Goes
<1>6. RowInv(d)'
  BY <1>1, <1>2, <1>3 DEF DInv, RowInv, Goes
<1>7. WorldInv(d)'
  BY <1>1, <1>2, <1>3 DEF DInv, WorldInv, Goes
<1>8. EngineInv(d)'
  BY <1>1, <1>2, <1>3 DEF DInv, EngineInv, Goes
<1>9. CloserInv(d)'
  BY <1>1, <1>2, <1>3 DEF DInv, CloserInv, Goes
<1>10. VisitInv(d)'
  BY <1>1, <1>2, <1>3 DEF DInv, VisitInv, Goes
<1>11. SlotsKept(d)
  BY <1>1, <1>2, <1>3 DEF SlotsKept, OtherEngines, Goes
<1> QED BY <1>4, <1>5, <1>6, <1>7, <1>8, <1>9, <1>10, <1>11 DEF StepOf, DInv, SlotStep

\* The dispatch of a detached test returns.
LEMMA DetachedReturnsKeeps ==
  ASSUME TypeOK, NEW d \in Deployments, DInv(d), DetachedReturns(d)
  PROVE  StepOf(d)
<1>1. UNCHANGED <<retired, request, lifecycle, phases, undelivered, job, live, world, profile,
                  dispatched, active, mode, unreconciled, crashes, faults>>
  BY DEF DetachedReturns, durable, outside
<1>2. /\ mode # "down" /\ engine[d].at = "await" /\ Action(d) = "SelfTest" /\ MayWrite(d)
      /\ closer[d].at = "none" /\ d \notin unreconciled
      /\ RowAt(d, "ActivateGeneration", "Activating") /\ engine[d].stage = "CopyingRecorded"
  BY DEF DetachedReturns, At, DInv, EngineInv, RowInv, WorldInv, CloserInv, VisitInv
<1>3. CASE DetachedDispatched(d) /\ closer' = [closer EXCEPT ![d].at = "watching"]
  <2>1. Goes(d, "completed", engine[d].stage, engine[d].next)
    BY <1>2, <1>3, GoToGoes DEF DetachedDispatched, EnginePoints
  <2>2. CloserGoes(d, "watching", closer[d].outcome)
    BY <1>3, CloserMovesGoes
  <2>3. TypeOK'
    BY <1>1, <1>2, <2>1, <2>2 DEF TypeOK, Goes, CloserGoes
  <2>4. OthersUntouched(d)
    BY <1>1, <2>1, <2>2 DEF TypeOK, OthersUntouched, Untouched, Goes, CloserGoes
  <2>5. RowInv(d)'
    BY <1>1, <1>2, <2>1, <2>2 DEF DInv, RowInv, Goes, CloserGoes
  <2>6. WorldInv(d)'
    BY <1>1, <1>2, <2>1, <2>2 DEF DInv, WorldInv, Goes, CloserGoes
  <2>7. EngineInv(d)'
    BY <1>1, <1>2, <2>1, <2>2 DEF DInv, EngineInv, Goes, CloserGoes
  <2>8. CloserInv(d)'
    BY <1>1, <1>2, <2>1, <2>2 DEF DInv, CloserInv, Goes, CloserGoes
  <2>9. VisitInv(d)'
    BY <1>1, <1>2, <2>1, <2>2 DEF DInv, VisitInv, Goes, CloserGoes
  <2>10. SlotsKept(d)
    BY <1>1, <1>2, <2>1 DEF SlotsKept, OtherEngines, Goes
  <2> QED BY <2>3, <2>4, <2>5, <2>6, <2>7, <2>8, <2>9, <2>10 DEF StepOf, DInv, SlotStep
<1>4. CASE BeginNext(d, "Failed") /\ UNCHANGED closer
  <2>1. Goes(d, "begin", engine[d].stage, "Failed") /\ UNCHANGED closer
    BY <1>2, <1>4, BeginNextGoes
  <2>2. TypeOK'
    BY <1>1, <1>2, <2>1 DEF TypeOK, Goes
  <2>3. OthersUntouched(d)
    BY <1>1, <2>1 DEF TypeOK, OthersUntouched, Untouched, Goes
  <2>4. RowInv(d)'
    BY <1>1, <1>2, <2>1 DEF DInv, RowInv, Goes
  <2>5. WorldInv(d)'
    BY <1>1, <1>2, <2>1 DEF DInv, WorldInv, Goes
  <2>6. EngineInv(d)'
    BY <1>1, <1>2, <2>1 DEF DInv, EngineInv, Goes
  <2>7. CloserInv(d)'
    BY <1>1, <1>2, <2>1 DEF DInv, CloserInv, Goes
  <2>8. VisitInv(d)'
    BY <1>1, <1>2, <2>1 DEF DInv, VisitInv, Goes
  <2>9. SlotsKept(d)
    BY <1>1, <1>2, <2>1 DEF SlotsKept, OtherEngines, Goes
  <2> QED BY <2>2, <2>3, <2>4, <2>5, <2>6, <2>7, <2>8, <2>9 DEF StepOf, DInv, SlotStep
<1> QED BY <1>3, <1>4 DEF DetachedReturns

\* A self-switch sets the system profile.
LEMMA SwitchSetsProfileKeeps ==
  ASSUME TypeOK, NEW d \in Deployments, DInv(d), SwitchSetsProfile(d)
  PROVE  StepOf(d)
<1>1. UNCHANGED <<retired, request, lifecycle, phases, undelivered, job, live, dispatched, engine,
                  closer, active, mode, unreconciled, crashes, faults>>
  BY DEF SwitchSetsProfile, UnchangedOutside, durable, volatile
<1>2. /\ world[d] = "running" /\ Action(d) = "SelfSwitch" /\ dispatched[d] # 0 /\ Admitted(d)
  BY DEF SwitchSetsProfile, DInv, EngineInv, RowInv, WorldInv, CloserInv, VisitInv
<1>3. /\ world' = [world EXCEPT ![d] = "switching"] /\ world'[d] = "switching"
      /\ profile' \in Closures
  BY <1>2, RequestTyped DEF SwitchSetsProfile, TypeOK
<1>4. TypeOK'
  BY <1>1, <1>2, <1>3 DEF TypeOK
<1>5. OthersUntouched(d)
  BY <1>1, <1>3 DEF TypeOK, OthersUntouched, Untouched
<1>6. RowInv(d)'
  BY <1>1, <1>2, <1>3 DEF DInv, RowInv
<1>7. WorldInv(d)'
  BY <1>1, <1>2, <1>3 DEF DInv, WorldInv
<1>8. EngineInv(d)'
  BY <1>1, <1>2, <1>3 DEF DInv, EngineInv
<1>9. CloserInv(d)'
  BY <1>1, <1>2, <1>3 DEF DInv, CloserInv
<1>10. VisitInv(d)'
  BY <1>1, <1>2, <1>3 DEF DInv, VisitInv
<1>11. SlotsKept(d)
  BY <1>1, <1>2, <1>3 DEF SlotsKept, OtherEngines
<1> QED BY <1>4, <1>5, <1>6, <1>7, <1>8, <1>9, <1>10, <1>11 DEF StepOf, DInv, SlotStep

\* An activation concludes on its target.
LEMMA ActivationConcludesKeeps ==
  ASSUME TypeOK, NEW d \in Deployments, DInv(d), ActivationConcludes(d)
  PROVE  StepOf(d)
<1>1. UNCHANGED <<retired, request, lifecycle, phases, undelivered, job, live, dispatched,
                  engine, closer, active, mode, unreconciled, crashes, faults>>
  BY DEF ActivationConcludes, UnchangedOutside, durable, volatile
<1>2. /\ dispatched[d] # 0 /\ Admitted(d)
      /\ world[d] \in {"running", "switching"}
  BY DEF ActivationConcludes, DInv, EngineInv, RowInv, WorldInv, CloserInv, VisitInv
<1>3. /\ \/ world' = [world EXCEPT ![d] = "failed"] /\ world'[d] = "failed"
         \/ world' = [world EXCEPT ![d] = "succeeded"] /\ world'[d] = "succeeded"
      /\ profile' \in Closures
  BY <1>2, RequestTyped DEF ActivationConcludes, TypeOK
<1>4. TypeOK'
  BY <1>1, <1>2, <1>3 DEF TypeOK
<1>5. OthersUntouched(d)
  BY <1>1, <1>3 DEF TypeOK, OthersUntouched, Untouched
<1>6. RowInv(d)'
  BY <1>1, <1>2, <1>3 DEF DInv, RowInv
<1>7. WorldInv(d)'
  BY <1>1, <1>2, <1>3 DEF DInv, WorldInv
<1>8. EngineInv(d)'
  BY <1>1, <1>2, <1>3 DEF DInv, EngineInv
<1>9. CloserInv(d)'
  BY <1>1, <1>2, <1>3 DEF DInv, CloserInv
<1>10. VisitInv(d)'
  BY <1>1, <1>2, <1>3 DEF DInv, VisitInv
<1>11. SlotsKept(d)
  BY <1>1, <1>2, <1>3 DEF SlotsKept, OtherEngines
<1> QED BY <1>4, <1>5, <1>6, <1>7, <1>8, <1>9, <1>10, <1>11 DEF StepOf, DInv, SlotStep

\* An observer reads the result of its unit.
LEMMA ObserverReportsKeeps ==
  ASSUME TypeOK, NEW d \in Deployments, DInv(d), ObserverReports(d)
  PROVE  StepOf(d)
<1>1. UNCHANGED <<retired, request, lifecycle, phases, undelivered, job, live, world, profile,
                  dispatched, engine, active, mode, unreconciled, crashes, faults>>
  BY DEF ObserverReports, durable, outside
<1>2. /\ mode # "down" /\ closer[d].at = "watching" /\ Action(d) = "SelfTest"
  BY DEF ObserverReports, CloserAt, DInv, EngineInv, RowInv, WorldInv, CloserInv, VisitInv
<1>3. \/ world[d] = "succeeded" /\ ClosedAs[world[d]] = "Completed"
      \/ world[d] = "failed" /\ ClosedAs[world[d]] = "Failed"
  BY DEF ObserverReports, ClosedAs
<1>4. CloserGoes(d, "begin", ClosedAs[world[d]])
  BY <1>3, CloserSetGoes DEF ObserverReports
<1>5. TypeOK'
  BY <1>1, <1>2, <1>3, <1>4 DEF TypeOK, CloserGoes
<1>6. OthersUntouched(d)
  BY <1>1, <1>3, <1>4 DEF TypeOK, OthersUntouched, Untouched, CloserGoes
<1>7. RowInv(d)'
  BY <1>1, <1>2, <1>3, <1>4 DEF DInv, RowInv, CloserGoes
<1>8. WorldInv(d)'
  BY <1>1, <1>2, <1>3, <1>4 DEF DInv, WorldInv, CloserGoes
<1>9. EngineInv(d)'
  BY <1>1, <1>2, <1>3, <1>4 DEF DInv, EngineInv, CloserGoes
<1>10. CloserInv(d)'
  BY <1>1, <1>2, <1>3, <1>4 DEF DInv, CloserInv, CloserGoes
<1>11. VisitInv(d)'
  BY <1>1, <1>2, <1>3, <1>4 DEF DInv, VisitInv, CloserGoes
<1>12. SlotsKept(d)
  BY <1>1, <1>2, <1>3, <1>4 DEF SlotsKept, OtherEngines, CloserGoes
<1> QED BY <1>5, <1>6, <1>7, <1>8, <1>9, <1>10, <1>11, <1>12 DEF StepOf, DInv, SlotStep

\* The connection of an observer breaks, or the store refuses a reconciled switch.
LEMMA CloserGivesUpKeeps ==
  ASSUME TypeOK, NEW d \in Deployments, DInv(d), CloserGivesUp(d)
  PROVE  StepOf(d)
<1>1. UNCHANGED <<retired, request, lifecycle, phases, undelivered, job, live, world, profile,
                  dispatched, engine, active, mode, unreconciled, crashes>>
  BY DEF CloserGivesUp, durable, outside
<1>2. faults < MaxFaults /\ mode # "down"
  BY DEF CloserGivesUp, CloserAt, DInv, EngineInv, RowInv, WorldInv, CloserInv, VisitInv
<1>3. faults' = faults + 1
  BY DEF CloserGivesUp
<1>4. CloserGoes(d, "none", "none")
  BY CloserSetGoes DEF CloserGivesUp, NoCloser
<1>5. TypeOK'
  BY <1>1, <1>2, <1>3, <1>4, PipelineAssumption DEF TypeOK, CloserGoes
<1>6. OthersUntouched(d)
  BY <1>1, <1>3, <1>4 DEF TypeOK, OthersUntouched, Untouched, CloserGoes
<1>7. RowInv(d)'
  BY <1>1, <1>2, <1>3, <1>4 DEF DInv, RowInv, CloserGoes
<1>8. WorldInv(d)'
  BY <1>1, <1>2, <1>3, <1>4 DEF DInv, WorldInv, CloserGoes
<1>9. EngineInv(d)'
  BY <1>1, <1>2, <1>3, <1>4 DEF DInv, EngineInv, CloserGoes
<1>10. CloserInv(d)'
  BY <1>1, <1>2, <1>3, <1>4 DEF DInv, CloserInv, CloserGoes
<1>11. VisitInv(d)'
  BY <1>1, <1>2, <1>3, <1>4 DEF DInv, VisitInv, CloserGoes
<1>12. SlotsKept(d)
  BY <1>1, <1>2, <1>3, <1>4 DEF SlotsKept, OtherEngines, CloserGoes
<1> QED BY <1>5, <1>6, <1>7, <1>8, <1>9, <1>10, <1>11, <1>12 DEF StepOf, DInv, SlotStep

\* The reconciler records a switch.
LEMMA CloserRecordsKeeps ==
  ASSUME TypeOK, NEW d \in Deployments, DInv(d), CloserRecords(d)
  PROVE  StepOf(d)
<1>1. UNCHANGED <<retired, request, lifecycle, phases, undelivered, job, world, profile, dispatched,
                  engine, active, mode, unreconciled, crashes, faults>>
  BY DEF CloserRecords, outside
<1>2. /\ mode # "down" /\ closer[d].at = "record" /\ Action(d) = "SelfSwitch"
      /\ closer[d].outcome = "Completed"
  BY DEF CloserRecords, CloserAt, DInv, EngineInv, RowInv, WorldInv, CloserInv, VisitInv
<1>3. live' = live \union {d}
  BY DEF CloserRecords
<1>4. CloserGoes(d, "begin", "Completed")
  BY <1>2, CloserMovesGoes DEF CloserRecords
<1>5. TypeOK'
  BY <1>1, <1>2, <1>3, <1>4 DEF TypeOK, CloserGoes
<1>6. OthersUntouched(d)
  BY <1>1, <1>3, <1>4 DEF TypeOK, OthersUntouched, Untouched, CloserGoes
<1>7. RowInv(d)'
  BY <1>1, <1>2, <1>3, <1>4 DEF DInv, RowInv, CloserGoes
<1>8. WorldInv(d)'
  BY <1>1, <1>2, <1>3, <1>4 DEF DInv, WorldInv, CloserGoes
<1>9. EngineInv(d)'
  BY <1>1, <1>2, <1>3, <1>4 DEF DInv, EngineInv, CloserGoes
<1>10. CloserInv(d)'
  BY <1>1, <1>2, <1>3, <1>4 DEF DInv, CloserInv, CloserGoes
<1>11. VisitInv(d)'
  BY <1>1, <1>2, <1>3, <1>4 DEF DInv, VisitInv, CloserGoes
<1>12. SlotsKept(d)
  BY <1>1, <1>2, <1>3, <1>4 DEF SlotsKept, OtherEngines, CloserGoes
<1> QED BY <1>5, <1>6, <1>7, <1>8, <1>9, <1>10, <1>11, <1>12 DEF StepOf, DInv, SlotStep

\* An observer or the reconciler begins the conclusion.
LEMMA CloserBeginsKeeps ==
  ASSUME TypeOK, NEW d \in Deployments, DInv(d), CloserBegins(d)
  PROVE  StepOf(d)
<1>1. UNCHANGED <<retired, request, live, world, profile, dispatched, engine, active, mode,
                  unreconciled, crashes, faults>>
  BY DEF CloserBegins, outside
<1>2. /\ mode # "down" /\ closer[d].at = "begin" /\ MayWrite(d) /\ world[d] # "cleaned"
      /\ engine[d].at \in {"idle", "completed"}
      /\ Action(d) \in {"SelfTest", "SelfSwitch"}
      /\ \/ closer[d].outcome = "Failed"
         \/ /\ closer[d].outcome = "Completed"
            /\ IF Action(d) = "SelfTest" THEN world[d] = "succeeded" ELSE d \in live
  BY DEF CloserBegins, CloserAt, DInv, EngineInv, RowInv, WorldInv, CloserInv, VisitInv,
     Terminalize
<1>3. undelivered' = undelivered \union {d} /\ Moves(d, closer[d].outcome)
  BY <1>2, TransitionMoves DEF CloserBegins, Terminalize
<1>4. CloserGoes(d, "deliver", closer[d].outcome)
  BY CloserMovesGoes DEF CloserBegins, AfterCloserBegin
<1>5. \/ /\ closer[d].outcome = "Completed"
         /\ Writes(d, "Activated", "FinishDeployment", job[d].closure, job[d].receipt)
      \/ /\ closer[d].outcome = "Failed"
         /\ Writes(d, "Failed", "FinishDeployment", job[d].closure, job[d].receipt)
  BY <1>2, PersistWrites, ResumeNames DEF CloserBegins, Terminalize, JobPhases
<1>6. TypeOK'
  BY <1>1, <1>2, <1>3, <1>4, <1>5 DEF TypeOK, Writes, CloserGoes, Moves
<1>7. OthersUntouched(d)
  BY <1>1, <1>3, <1>4, <1>5 DEF TypeOK, OthersUntouched, Untouched, Writes, CloserGoes,
     Moves
<1>8. RowInv(d)'
  BY <1>1, <1>2, <1>3, <1>4, <1>5 DEF DInv, RowInv, Writes, CloserGoes, Moves
<1>9. WorldInv(d)'
  BY <1>1, <1>2, <1>3, <1>4, <1>5 DEF DInv, WorldInv, Writes, CloserGoes, Moves
<1>10. EngineInv(d)'
  BY <1>1, <1>2, <1>3, <1>4, <1>5 DEF DInv, EngineInv, Writes, CloserGoes, Moves
<1>11. CloserInv(d)'
  BY <1>1, <1>2, <1>3, <1>4, <1>5 DEF DInv, CloserInv, Writes, CloserGoes, Moves
<1>12. VisitInv(d)'
  BY <1>1, <1>2, <1>3, <1>4, <1>5 DEF DInv, VisitInv, Writes, CloserGoes, Moves
<1>13. SlotsKept(d)
  BY <1>1, <1>2, <1>3, <1>4, <1>5 DEF SlotsKept, OtherEngines, Writes, CloserGoes, Moves
<1> QED BY <1>6, <1>7, <1>8, <1>9, <1>10, <1>11, <1>12, <1>13 DEF StepOf, DInv, SlotStep

\* It delivers the conclusion.
LEMMA CloserDeliversKeeps ==
  ASSUME TypeOK, NEW d \in Deployments, DInv(d), CloserDelivers(d)
  PROVE  StepOf(d)
<1>1. UNCHANGED <<retired, request, lifecycle, phases, live, world, profile, dispatched, engine,
                  active, mode, unreconciled, crashes, faults>>
  BY DEF CloserDelivers, outside
<1>2. /\ mode # "down" /\ closer[d].at = "deliver" /\ Concluded(d)
      /\ Action(d) \in {"SelfTest", "SelfSwitch"} /\ engine[d].at \in {"idle", "completed"}
      /\ d \notin unreconciled
  BY DEF CloserDelivers, CloserAt, DInv, EngineInv, RowInv, WorldInv, CloserInv, VisitInv
<1>3. undelivered' = undelivered \ {d}
  BY DEF CloserDelivers
<1>4. Drops(d)
  BY DropDrops DEF CloserDelivers
<1>5. Action(d) = "SelfTest" => CloserGoes(d, "clean", closer[d].outcome)
  BY DEF CloserDelivers, TypeOK, CloserGoes, Closer
<1>6. Action(d) # "SelfTest" => CloserGoes(d, "none", "none")
  BY CloserSetGoes DEF CloserDelivers, NoCloser
<1>7. TypeOK'
  BY <1>1, <1>2, <1>3, <1>4, <1>5, <1>6 DEF TypeOK, Drops, CloserGoes
<1>8. OthersUntouched(d)
  BY <1>1, <1>3, <1>4, <1>5, <1>6 DEF TypeOK, OthersUntouched, Untouched, Drops,
     CloserGoes
<1>9. RowInv(d)'
  BY <1>1, <1>2, <1>3, <1>4, <1>5, <1>6 DEF DInv, RowInv, Drops, CloserGoes
<1>10. WorldInv(d)'
  BY <1>1, <1>2, <1>3, <1>4, <1>5, <1>6 DEF DInv, WorldInv, Drops, CloserGoes
<1>11. EngineInv(d)'
  BY <1>1, <1>2, <1>3, <1>4, <1>5, <1>6 DEF DInv, EngineInv, Drops, CloserGoes
<1>12. CloserInv(d)'
  BY <1>1, <1>2, <1>3, <1>4, <1>5, <1>6 DEF DInv, CloserInv, Drops, CloserGoes
<1>13. VisitInv(d)'
  BY <1>1, <1>2, <1>3, <1>4, <1>5, <1>6 DEF DInv, VisitInv, Drops, CloserGoes
<1>14. SlotsKept(d)
  BY <1>1, <1>2, <1>3, <1>4, <1>5, <1>6 DEF SlotsKept, OtherEngines, Drops, CloserGoes
<1> QED BY <1>7, <1>8, <1>9, <1>10, <1>11, <1>12, <1>13, <1>14 DEF StepOf, DInv, SlotStep

\* The unit of a test is stopped.
LEMMA CloserCleansKeeps ==
  ASSUME TypeOK, NEW d \in Deployments, DInv(d), CloserCleans(d)
  PROVE  StepOf(d)
<1>1. UNCHANGED <<retired, request, lifecycle, phases, undelivered, job, live, profile, dispatched,
                  engine, active, mode, unreconciled, crashes, faults>>
  BY DEF CloserCleans, durable
<1>2. /\ mode # "down" /\ closer[d].at = "clean" /\ Action(d) = "SelfTest" /\ Concluded(d)
      /\ d \notin undelivered /\ ~ HasJob(d) /\ engine[d].at \in {"idle", "completed"}
      /\ d \notin live /\ Admitted(d)
  BY DEF CloserCleans, CloserAt, DInv, EngineInv, RowInv, WorldInv, CloserInv, VisitInv
<1>3. world' = [world EXCEPT ![d] = "cleaned"] /\ world'[d] = "cleaned"
  BY DEF CloserCleans, TypeOK
<1>4. CloserGoes(d, "none", "none")
  BY CloserSetGoes DEF CloserCleans, NoCloser
<1>5. TypeOK'
  BY <1>1, <1>2, <1>3, <1>4 DEF TypeOK, CloserGoes
<1>6. OthersUntouched(d)
  BY <1>1, <1>3, <1>4 DEF TypeOK, OthersUntouched, Untouched, CloserGoes
<1>7. RowInv(d)'
  BY <1>1, <1>2, <1>3, <1>4 DEF DInv, RowInv, CloserGoes
<1>8. WorldInv(d)'
  BY <1>1, <1>2, <1>3, <1>4 DEF DInv, WorldInv, CloserGoes
<1>9. EngineInv(d)'
  BY <1>1, <1>2, <1>3, <1>4 DEF DInv, EngineInv, CloserGoes
<1>10. CloserInv(d)'
  BY <1>1, <1>2, <1>3, <1>4 DEF DInv, CloserInv, CloserGoes
<1>11. VisitInv(d)'
  BY <1>1, <1>2, <1>3, <1>4 DEF DInv, VisitInv, CloserGoes
<1>12. SlotsKept(d)
  BY <1>1, <1>2, <1>3, <1>4 DEF SlotsKept, OtherEngines, CloserGoes
<1> QED BY <1>5, <1>6, <1>7, <1>8, <1>9, <1>10, <1>11, <1>12 DEF StepOf, DInv, SlotStep

\* A restart resumes the pipeline of a row.
LEMMA ResumePipelineKeeps ==
  ASSUME TypeOK, NEW d \in Deployments, DInv(d), ResumePipeline(d)
  PROVE  StepOf(d)
<1>1. UNCHANGED <<retired, request, lifecycle, phases, undelivered, live, world, profile, dispatched,
                  closer, mode, crashes, faults>>
  BY DEF ResumePipeline, outside
<1>2. /\ mode = "reconciling" /\ d \in unreconciled /\ MayWrite(d)
      /\ engine[d].at = "idle" /\ closer[d].at = "none"
      /\ job[d].phase \in RestartPhases
  BY DEF ResumePipeline, DInv, EngineInv, RowInv, WorldInv, CloserInv, VisitInv, Visit
<1>3. /\ unreconciled' = unreconciled \ {d} /\ active' = active + 1
      /\ job' = [job EXCEPT ![d].receipt = Receipt(d)]
      /\ engine' = [engine EXCEPT ![d] = ResumeAt[job[d].resume]]
      /\ job[d].resume \in DOMAIN ResumeAt
      /\ job[d].resume = "FinishDeployment" => job[d].phase = "Built"
      /\ job[d].resume = "ActivateGeneration" => job[d].phase = "Copying"
  BY <1>2 DEF ResumePipeline, Visit, Resumable, DInv, RowInv
<1>4. job[d].receipt \in {"none"} \union Phases /\ job[d].phase \in JobPhases
  BY <1>2, RowTyped DEF RowType
<1>5. /\ Receipt(d) \in {"none"} \union Phases
      /\ job[d].receipt # "none" => Receipt(d) = job[d].receipt
      /\ job[d].resume = "NixEval" => Receipt(d) = "Building"
      /\ job[d].resume \in EarlyStages => Receipt(d) = "none"
  BY <1>2, <1>4 DEF Receipt, RecordedPhase, DInv, RowInv
<1>6. Writes(d, job[d].phase, job[d].resume, job[d].closure, Receipt(d))
  BY <1>2, <1>3, <1>5, ReceiptWrites
<1>7. \/ /\ job[d].resume \in {"ResolveFlakeAuth", "MaterializeHorizon", "NixBuild", "CopyClosure"}
         /\ Goes(d, job[d].resume, "Submitted", "none")
      \/ job[d].resume = "RecordBuilding" /\ Goes(d, "begin", "Submitted", "Building")
      \/ job[d].resume = "NixEval" /\ Goes(d, "NixEval", "BuildingRecorded", "none")
      \/ job[d].resume = "ActivateGeneration" /\ Goes(d, "activating", "CopyingRecorded", "none")
      \/ job[d].resume = "FinishDeployment" /\ Goes(d, "begin", "ActivatedRecorded", "Completed")
  BY <1>3, ResumeGoes
<1>8. TypeOK'
  BY <1>1, <1>2, <1>3, <1>5, <1>6, <1>7 DEF TypeOK, Goes, Writes
<1>9. OthersUntouched(d)
  BY <1>1, <1>3, <1>5, <1>6, <1>7 DEF TypeOK, OthersUntouched, Untouched, Goes, Writes
<1>10. RowInv(d)'
  BY <1>1, <1>2, <1>3, <1>5, <1>6, <1>7 DEF DInv, RowInv, Goes, Writes
<1>11. WorldInv(d)'
  BY <1>1, <1>2, <1>3, <1>5, <1>6, <1>7 DEF DInv, WorldInv, Goes, Writes
<1>12. EngineInv(d)'
  BY <1>1, <1>2, <1>3, <1>5, <1>6, <1>7 DEF DInv, EngineInv, Goes, Writes
<1>13. CloserInv(d)'
  BY <1>1, <1>2, <1>3, <1>5, <1>6, <1>7 DEF DInv, CloserInv, Goes, Writes
<1>14. VisitInv(d)'
  BY <1>1, <1>2, <1>3, <1>5, <1>6, <1>7 DEF DInv, VisitInv, Goes, Writes
<1>15. SlotTaken(d)
  BY <1>1, <1>2, <1>3, <1>5, <1>6, <1>7, PipelineAssumption DEF SlotTaken, ResumePipeline,
     ActorFree, AtCapacity, NoAdmission, OtherEngines, TypeOK, Goes, Writes
<1> QED BY <1>8, <1>9, <1>10, <1>11, <1>12, <1>13, <1>14, <1>15 DEF StepOf, DInv, SlotStep

\* A row that cannot be resumed is left.
LEMMA LeaveUnresumableKeeps ==
  ASSUME TypeOK, NEW d \in Deployments, DInv(d), LeaveUnresumable(d)
  PROVE  StepOf(d)
<1>1. UNCHANGED <<retired, request, lifecycle, phases, undelivered, job, live, world, profile,
                  dispatched, engine, closer, active, mode, crashes, faults>>
  BY DEF LeaveUnresumable, durable, outside
<1>2. /\ mode = "reconciling" /\ d \in unreconciled /\ MayWrite(d)
      /\ engine[d].at = "idle" /\ closer[d].at = "none"
  BY DEF LeaveUnresumable, DInv, EngineInv, RowInv, WorldInv, CloserInv, VisitInv, Visit
<1>3. unreconciled' = unreconciled \ {d}
  BY DEF LeaveUnresumable, Visit
<1>4. TypeOK'
  BY <1>1, <1>2, <1>3 DEF TypeOK
<1>5. OthersUntouched(d)
  BY <1>1, <1>3 DEF TypeOK, OthersUntouched, Untouched
<1>6. RowInv(d)'
  BY <1>1, <1>2, <1>3 DEF DInv, RowInv
<1>7. WorldInv(d)'
  BY <1>1, <1>2, <1>3 DEF DInv, WorldInv
<1>8. EngineInv(d)'
  BY <1>1, <1>2, <1>3 DEF DInv, EngineInv
<1>9. CloserInv(d)'
  BY <1>1, <1>2, <1>3 DEF DInv, CloserInv
<1>10. VisitInv(d)'
  BY <1>1, <1>2, <1>3 DEF DInv, VisitInv
<1>11. SlotsKept(d)
  BY <1>1, <1>2, <1>3 DEF SlotsKept, OtherEngines
<1> QED BY <1>4, <1>5, <1>6, <1>7, <1>8, <1>9, <1>10, <1>11 DEF StepOf, DInv, SlotStep

\* At the cap the row is left.
LEMMA SkipAtCapacityKeeps ==
  ASSUME TypeOK, NEW d \in Deployments, DInv(d), SkipAtCapacity(d)
  PROVE  StepOf(d)
<1>1. UNCHANGED <<retired, request, lifecycle, phases, undelivered, job, live, world, profile,
                  dispatched, engine, closer, active, mode, crashes, faults>>
  BY DEF SkipAtCapacity, durable, outside
<1>2. /\ mode = "reconciling" /\ d \in unreconciled /\ MayWrite(d)
      /\ engine[d].at = "idle" /\ closer[d].at = "none"
  BY DEF SkipAtCapacity, DInv, EngineInv, RowInv, WorldInv, CloserInv, VisitInv, Visit
<1>3. unreconciled' = unreconciled \ {d}
  BY DEF SkipAtCapacity, Visit
<1>4. TypeOK'
  BY <1>1, <1>2, <1>3 DEF TypeOK
<1>5. OthersUntouched(d)
  BY <1>1, <1>3 DEF TypeOK, OthersUntouched, Untouched
<1>6. RowInv(d)'
  BY <1>1, <1>2, <1>3 DEF DInv, RowInv
<1>7. WorldInv(d)'
  BY <1>1, <1>2, <1>3 DEF DInv, WorldInv
<1>8. EngineInv(d)'
  BY <1>1, <1>2, <1>3 DEF DInv, EngineInv
<1>9. CloserInv(d)'
  BY <1>1, <1>2, <1>3 DEF DInv, CloserInv
<1>10. VisitInv(d)'
  BY <1>1, <1>2, <1>3 DEF DInv, VisitInv
<1>11. SlotsKept(d)
  BY <1>1, <1>2, <1>3 DEF SlotsKept, OtherEngines
<1> QED BY <1>4, <1>5, <1>6, <1>7, <1>8, <1>9, <1>10, <1>11 DEF StepOf, DInv, SlotStep

\* A restart drops a row it takes for concluded.
LEMMA DropTerminalKeeps ==
  ASSUME TypeOK, NEW d \in Deployments, DInv(d), DropTerminal(d)
  PROVE  StepOf(d)
<1>1. UNCHANGED <<retired, request, lifecycle, phases, undelivered, live, world, profile, dispatched,
                  engine, closer, active, mode, crashes, faults>>
  BY DEF DropTerminal, outside
<1>2. /\ mode = "reconciling" /\ d \in unreconciled /\ MayWrite(d)
      /\ engine[d].at = "idle" /\ closer[d].at = "none"
      /\ lifecycle[d] = "Activated"
  BY RowByPhase DEF DropTerminal, DInv, EngineInv, RowInv, WorldInv, CloserInv, VisitInv,
     Visit, TerminalPhases
<1>3. unreconciled' = unreconciled \ {d}
  BY DEF DropTerminal, Visit
<1>4. Drops(d)
  BY DropDrops DEF DropTerminal
<1>5. TypeOK'
  BY <1>1, <1>2, <1>3, <1>4 DEF TypeOK, Drops
<1>6. OthersUntouched(d)
  BY <1>1, <1>3, <1>4 DEF TypeOK, OthersUntouched, Untouched, Drops
<1>7. RowInv(d)'
  BY <1>1, <1>2, <1>3, <1>4 DEF DInv, RowInv, Drops
<1>8. WorldInv(d)'
  BY <1>1, <1>2, <1>3, <1>4 DEF DInv, WorldInv, Drops
<1>9. EngineInv(d)'
  BY <1>1, <1>2, <1>3, <1>4 DEF DInv, EngineInv, Drops
<1>10. CloserInv(d)'
  BY <1>1, <1>2, <1>3, <1>4 DEF DInv, CloserInv, Drops
<1>11. VisitInv(d)'
  BY <1>1, <1>2, <1>3, <1>4 DEF DInv, VisitInv, Drops
<1>12. SlotsKept(d)
  BY <1>1, <1>2, <1>3, <1>4 DEF SlotsKept, OtherEngines, Drops
<1> QED BY <1>5, <1>6, <1>7, <1>8, <1>9, <1>10, <1>11, <1>12 DEF StepOf, DInv, SlotStep

\* A restart takes up a test.
LEMMA ReconcileTestKeeps ==
  ASSUME TypeOK, NEW d \in Deployments, DInv(d), ReconcileTest(d)
  PROVE  StepOf(d)
<1>1. UNCHANGED <<retired, request, lifecycle, phases, undelivered, job, live, world, profile,
                  dispatched, engine, active, mode, crashes, faults>>
  BY DEF ReconcileTest, durable, outside
<1>2. /\ mode = "reconciling" /\ d \in unreconciled /\ MayWrite(d)
      /\ engine[d].at = "idle" /\ closer[d].at = "none"
      /\ RowAt(d, "ActivateGeneration", "Activating")
      /\ Action(d) = "SelfTest"
  BY RowByPhase DEF ReconcileTest, DInv, EngineInv, RowInv, WorldInv, CloserInv, VisitInv,
     Visit
<1>3. unreconciled' = unreconciled \ {d}
  BY DEF ReconcileTest, Visit
<1>4. \/ CloserGoes(d, "watching", closer[d].outcome)
      \/ world[d] = "succeeded" /\ CloserGoes(d, "begin", "Completed")
      \/ world[d] = "failed" /\ CloserGoes(d, "begin", "Failed")
  BY CloserSetGoes, CloserMovesGoes DEF ReconcileTest, ClosedAs
<1>5. TypeOK'
  BY <1>1, <1>2, <1>3, <1>4 DEF TypeOK, CloserGoes
<1>6. OthersUntouched(d)
  BY <1>1, <1>3, <1>4 DEF TypeOK, OthersUntouched, Untouched, CloserGoes
<1>7. RowInv(d)'
  BY <1>1, <1>2, <1>3, <1>4 DEF DInv, RowInv, CloserGoes
<1>8. WorldInv(d)'
  BY <1>1, <1>2, <1>3, <1>4 DEF DInv, WorldInv, CloserGoes
<1>9. EngineInv(d)'
  BY <1>1, <1>2, <1>3, <1>4 DEF DInv, EngineInv, CloserGoes
<1>10. CloserInv(d)'
  BY <1>1, <1>2, <1>3, <1>4 DEF DInv, CloserInv, CloserGoes
<1>11. VisitInv(d)'
  BY <1>1, <1>2, <1>3, <1>4 DEF DInv, VisitInv, CloserGoes
<1>12. SlotsKept(d)
  BY <1>1, <1>2, <1>3, <1>4 DEF SlotsKept, OtherEngines, CloserGoes
<1> QED BY <1>5, <1>6, <1>7, <1>8, <1>9, <1>10, <1>11, <1>12 DEF StepOf, DInv, SlotStep

\* A restart cannot read the unit of a test.
LEMMA ReconcileUnreadableKeeps ==
  ASSUME TypeOK, NEW d \in Deployments, DInv(d), ReconcileUnreadable(d)
  PROVE  StepOf(d)
<1>1. UNCHANGED <<retired, request, lifecycle, phases, undelivered, job, live, world, profile,
                  dispatched, engine, active, mode, crashes>>
  BY DEF ReconcileUnreadable, durable, outside
<1>2. /\ faults < MaxFaults /\ Action(d) = "SelfTest"
      /\ mode = "reconciling" /\ d \in unreconciled /\ MayWrite(d)
      /\ engine[d].at = "idle" /\ closer[d].at = "none"
      /\ RowAt(d, "ActivateGeneration", "Activating")
  BY RowByPhase DEF ReconcileUnreadable, DInv, EngineInv, RowInv, WorldInv, CloserInv,
     VisitInv, Visit
<1>3. unreconciled' = unreconciled \ {d} /\ faults' = faults + 1
  BY DEF ReconcileUnreadable, Visit
<1>4. closer' = closer \/ CloserGoes(d, "begin", "Failed")
  BY CloserSetGoes DEF ReconcileUnreadable
<1>5. TypeOK'
  BY <1>1, <1>2, <1>3, <1>4, PipelineAssumption DEF TypeOK, CloserGoes
<1>6. OthersUntouched(d)
  BY <1>1, <1>3, <1>4 DEF TypeOK, OthersUntouched, Untouched, CloserGoes
<1>7. RowInv(d)'
  BY <1>1, <1>2, <1>3, <1>4 DEF DInv, RowInv, CloserGoes
<1>8. WorldInv(d)'
  BY <1>1, <1>2, <1>3, <1>4 DEF DInv, WorldInv, CloserGoes
<1>9. EngineInv(d)'
  BY <1>1, <1>2, <1>3, <1>4 DEF DInv, EngineInv, CloserGoes
<1>10. CloserInv(d)'
  BY <1>1, <1>2, <1>3, <1>4 DEF DInv, CloserInv, CloserGoes
<1>11. VisitInv(d)'
  BY <1>1, <1>2, <1>3, <1>4 DEF DInv, VisitInv, CloserGoes
<1>12. SlotsKept(d)
  BY <1>1, <1>2, <1>3, <1>4 DEF SlotsKept, OtherEngines, CloserGoes
<1> QED BY <1>5, <1>6, <1>7, <1>8, <1>9, <1>10, <1>11, <1>12 DEF StepOf, DInv, SlotStep

\* A restart concludes a switch it has seen.
LEMMA ReconcileSwitchKeeps ==
  ASSUME TypeOK, NEW d \in Deployments, DInv(d), ReconcileSwitch(d)
  PROVE  StepOf(d)
<1>1. UNCHANGED <<retired, request, lifecycle, phases, undelivered, job, live, world, profile,
                  dispatched, engine, active, mode, crashes, faults>>
  BY DEF ReconcileSwitch, durable, outside
<1>2. /\ mode = "reconciling" /\ d \in unreconciled /\ MayWrite(d)
      /\ engine[d].at = "idle" /\ closer[d].at = "none"
      /\ RowAt(d, "ActivateGeneration", "Activating")
      /\ Action(d) = "SelfSwitch"
  BY RowByPhase DEF ReconcileSwitch, DInv, EngineInv, RowInv, WorldInv, CloserInv,
     VisitInv, Visit, SwitchWitnessed
<1>3. unreconciled' = unreconciled \ {d}
  BY DEF ReconcileSwitch, Visit
<1>4. \/ d \in live /\ CloserGoes(d, "begin", "Completed")
      \/ CloserGoes(d, "record", "Completed")
  BY CloserSetGoes DEF ReconcileSwitch
<1>5. TypeOK'
  BY <1>1, <1>2, <1>3, <1>4 DEF TypeOK, CloserGoes
<1>6. OthersUntouched(d)
  BY <1>1, <1>3, <1>4 DEF TypeOK, OthersUntouched, Untouched, CloserGoes
<1>7. RowInv(d)'
  BY <1>1, <1>2, <1>3, <1>4 DEF DInv, RowInv, CloserGoes
<1>8. WorldInv(d)'
  BY <1>1, <1>2, <1>3, <1>4 DEF DInv, WorldInv, CloserGoes
<1>9. EngineInv(d)'
  BY <1>1, <1>2, <1>3, <1>4 DEF DInv, EngineInv, CloserGoes
<1>10. CloserInv(d)'
  BY <1>1, <1>2, <1>3, <1>4 DEF DInv, CloserInv, CloserGoes
<1>11. VisitInv(d)'
  BY <1>1, <1>2, <1>3, <1>4 DEF DInv, VisitInv, CloserGoes
<1>12. SlotsKept(d)
  BY <1>1, <1>2, <1>3, <1>4 DEF SlotsKept, OtherEngines, CloserGoes
<1> QED BY <1>5, <1>6, <1>7, <1>8, <1>9, <1>10, <1>11, <1>12 DEF StepOf, DInv, SlotStep

\* Any other activation is left.
LEMMA LeaveActivationKeeps ==
  ASSUME TypeOK, NEW d \in Deployments, DInv(d), LeaveActivation(d)
  PROVE  StepOf(d)
<1>1. UNCHANGED <<retired, request, lifecycle, phases, undelivered, job, live, world, profile,
                  dispatched, engine, closer, active, mode, crashes, faults>>
  BY DEF LeaveActivation, durable, outside
<1>2. /\ mode = "reconciling" /\ d \in unreconciled /\ MayWrite(d)
      /\ engine[d].at = "idle" /\ closer[d].at = "none"
  BY DEF LeaveActivation, DInv, EngineInv, RowInv, WorldInv, CloserInv, VisitInv, Visit
<1>3. unreconciled' = unreconciled \ {d}
  BY DEF LeaveActivation, Visit
<1>4. TypeOK'
  BY <1>1, <1>2, <1>3 DEF TypeOK
<1>5. OthersUntouched(d)
  BY <1>1, <1>3 DEF TypeOK, OthersUntouched, Untouched
<1>6. RowInv(d)'
  BY <1>1, <1>2, <1>3 DEF DInv, RowInv
<1>7. WorldInv(d)'
  BY <1>1, <1>2, <1>3 DEF DInv, WorldInv
<1>8. EngineInv(d)'
  BY <1>1, <1>2, <1>3 DEF DInv, EngineInv
<1>9. CloserInv(d)'
  BY <1>1, <1>2, <1>3 DEF DInv, CloserInv
<1>10. VisitInv(d)'
  BY <1>1, <1>2, <1>3 DEF DInv, VisitInv
<1>11. SlotsKept(d)
  BY <1>1, <1>2, <1>3 DEF SlotsKept, OtherEngines
<1> QED BY <1>4, <1>5, <1>6, <1>7, <1>8, <1>9, <1>10, <1>11 DEF StepOf, DInv, SlotStep

HIDE DEF HasJob, Concluded, Admitted, Action, MayWrite, RowAt, Terminals, Phases, Effects,
         RestartPhases, EarlyStages, BeforeCopying, Activates

-----------------------------------------------------------------------------
(* Steps of the whole daemon.                                              *)

\* A crash loses every task, observer and slot, and nothing durable.
LEMMA CrashKeeps ==
  ASSUME IInv, Crash
  PROVE  IInv'
<1> USE DEF HasJob, Concluded, Admitted, Action, MayWrite, RowAt
<1>1. UNCHANGED <<retired, request, lifecycle, phases, undelivered, job, live, world, profile,
                  dispatched, faults>>
  BY DEF Crash, durable, outside
<1>2. /\ mode' = "down" /\ active' = 0 /\ unreconciled' = {}
      /\ crashes < MaxCrashes /\ crashes' = crashes + 1
      /\ engine' = [d \in Deployments |-> IdleEngine]
      /\ closer' = [d \in Deployments |-> NoCloser]
  BY DEF Crash
<1>3. IdleEngine \in Engine /\ NoCloser \in Closer
  BY DEF IdleEngine, NoCloser, Engine, Closer, Stages
<1>4. TypeOK'
  BY <1>1, <1>2, <1>3, PipelineAssumption DEF IInv, TypeOK
<1>5. ASSUME NEW d \in Deployments PROVE DInv(d)'
  <2>1. /\ engine'[d].at = "idle" /\ engine'[d].stage = "Submitted"
        /\ closer'[d].at = "none" /\ d \notin unreconciled'
    BY <1>2 DEF IdleEngine, NoCloser
  <2>2. DInv(d)
    BY DEF IInv
  <2>3. RowInv(d)'
    BY <1>1, <2>2 DEF DInv, RowInv
  <2>4. WorldInv(d)'
    BY <1>1, <2>1, <2>2 DEF DInv, WorldInv
  <2>5. EngineInv(d)' /\ CloserInv(d)' /\ VisitInv(d)'
    BY <2>1 DEF EngineInv, CloserInv, VisitInv, Effects
  <2> QED BY <2>3, <2>4, <2>5 DEF DInv
<1>6. SlotInv'
  <2>1. \A d \in Deployments : engine'[d].at = "idle"
    BY <1>2 DEF IdleEngine
  <2>2. Holders' = {}
    BY <2>1 DEF Holders
  <2> QED BY <1>2, <2>1, <2>2, FS_EmptySet, PipelineAssumption DEF SlotInv
<1> QED BY <1>4, <1>5, <1>6 DEF IInv

\* Reopening delivers what is undelivered and drops the rows that this
\* concludes: what is left to visit is not concluded.
LEMMA ReopenKeeps ==
  ASSUME IInv, Reopen
  PROVE  IInv'
<1> USE DEF HasJob, Concluded, Admitted, Action, MayWrite, RowAt
<1>1. UNCHANGED <<retired, request, lifecycle, phases, live, world, profile, dispatched, engine, closer,
                  active, crashes, faults>>
  BY DEF Reopen, outside
<1>2. /\ mode = "down" /\ mode' = "reconciling" /\ undelivered' = {}
      /\ job' = [d \in Deployments |->
                   IF d \in undelivered /\ Concluded(d) THEN NoJob ELSE job[d]]
      /\ unreconciled' = {d \in Deployments : job'[d] # NoJob}
  BY DEF Reopen
<1>3. TypeOK'
  BY <1>1, <1>2 DEF IInv, TypeOK, Job
<1>4. ASSUME NEW d \in Deployments PROVE DInv(d)'
  <2>1. DInv(d) /\ RowInv(d) /\ WorldInv(d) /\ TypeOK
    BY DEF IInv, DInv
  <2>2. engine[d].at = "idle" /\ engine[d].stage = "Submitted" /\ closer[d].at = "none"
    BY <1>2, <2>1 DEF DInv, VisitInv, EngineInv
  <2>3. job'[d] = NoJob \/ (job'[d] = job[d] /\ ~ Concluded(d))
    BY <1>2, <2>1, ConcludedRows
  <2>4. Concluded(d) => job'[d] = NoJob
    BY <2>3
  <2>5. RowInv(d)'
    BY <1>1, <1>2, <2>1, <2>3 DEF RowInv, Terminals, EarlyStages
  <2>6. WorldInv(d)'
    BY <1>1, <1>2, <2>1, <2>3 DEF WorldInv
  <2>7. EngineInv(d)' /\ CloserInv(d)'
    BY <1>1, <2>2 DEF EngineInv, CloserInv, Effects
  <2>8. VisitInv(d)'
    BY <1>1, <1>2, <2>2, <2>3 DEF VisitInv
  <2> QED BY <2>5, <2>6, <2>7, <2>8 DEF DInv
<1>5. SlotInv'
  <2>1. \A d \in Deployments : engine[d].at = "idle"
    BY <1>2 DEF IInv, DInv, VisitInv
  <2>2. Holders' = Holders
    BY <1>1 DEF Holders
  <2> QED BY <1>1, <2>1, <2>2 DEF IInv, SlotInv
<1> QED BY <1>3, <1>4, <1>5 DEF IInv

\* The actor serves once every row is visited.
LEMMA ServeKeeps ==
  ASSUME IInv, Serve
  PROVE  IInv'
<1> USE DEF HasJob, Concluded, Admitted, Action, MayWrite, RowAt
<1>1. UNCHANGED <<retired, request, lifecycle, phases, undelivered, job, live, world, profile,
                  dispatched, engine, closer, active, unreconciled, crashes, faults>>
  BY DEF Serve, durable, outside
<1>2. mode = "reconciling" /\ mode' = "serving"
  BY DEF Serve
<1>3. TypeOK'
  BY <1>1, <1>2 DEF IInv, TypeOK
<1>4. ASSUME NEW d \in Deployments PROVE DInv(d)'
  BY <1>1, <1>2, UntouchedKeeps DEF IInv, Untouched
<1>5. SlotInv'
  <2>1. Holders' = Holders
    BY <1>1 DEF Holders
  <2> QED BY <1>1, <1>2, <2>1 DEF IInv, SlotInv
<1> QED BY <1>3, <1>4, <1>5 DEF IInv

-----------------------------------------------------------------------------
(* The theorems.                                                           *)

\* Nothing is admitted at first, and no slot is held.
LEMMA InitEstablishes ==
  ASSUME Init
  PROVE  IInv
<1> USE DEF HasJob, Concluded, Admitted, Action, MayWrite, RowAt, Terminals, Phases
<1>1. /\ IdleEngine \in Engine /\ NoCloser \in Closer /\ NoJob \in Job
      /\ <<>> \in Seq({"Submitted"} \union Phases \union Terminals)
  BY DEF IdleEngine, NoCloser, Engine, Closer, Stages, Job
<1>2. TypeOK
  BY <1>1, PipelineAssumption DEF Init, TypeOK
<1>3. ASSUME NEW d \in Deployments PROVE DInv(d)
  <2>1. /\ request[d] = NoRequest /\ lifecycle[d] = "Absent" /\ undelivered = {}
        /\ job[d] = NoJob /\ live = {} /\ world[d] = "untouched" /\ dispatched[d] = 0
        /\ engine[d] = IdleEngine /\ closer[d] = NoCloser
        /\ mode = "serving" /\ unreconciled = {}
    BY DEF Init
  <2>3. RowInv(d) /\ WorldInv(d)
    BY <2>1 DEF RowInv, WorldInv, IdleEngine, NoCloser
  <2>4. EngineInv(d) /\ CloserInv(d) /\ VisitInv(d)
    BY <2>1 DEF EngineInv, CloserInv, VisitInv, IdleEngine, NoCloser, Effects
  <2> QED BY <2>3, <2>4 DEF DInv
<1>4. SlotInv
  <2>1. \A d \in Deployments : engine[d].at = "idle"
    BY DEF Init, IdleEngine
  <2>2. Holders = {}
    BY <2>1 DEF Holders
  <2> QED BY <2>1, <2>2, FS_EmptySet, PipelineAssumption DEF Init, SlotInv
<1> QED BY <1>2, <1>3, <1>4 DEF IInv

\* Every step keeps the invariant.
LEMMA NextKeeps ==
  ASSUME IInv, [Next]_vars
  PROVE  IInv'
<1>1. ASSUME NEW d \in Deployments, NEW wanted \in Requests, Admit(d, wanted) PROVE IInv'
  BY <1>1, AdmitKeeps, StepKeeps DEF IInv
<1>2. ASSUME NEW d \in Deployments, Pipeline(d) PROVE IInv'
  <2>1. CASE Launch(d)
    BY <2>1, LaunchKeeps, StepKeeps DEF IInv
  <2>2. CASE FreeSlot(d)
    BY <2>2, FreeSlotKeeps, StepKeeps DEF IInv
  <2>3. CASE BeginPhase(d)
    BY <2>3, BeginPhaseKeeps, StepKeeps DEF IInv
  <2>4. CASE BeginTerminal(d)
    BY <2>4, BeginTerminalKeeps, StepKeeps DEF IInv
  <2>5. CASE DeliverPhase(d)
    BY <2>5, DeliverPhaseKeeps, StepKeeps DEF IInv
  <2>6. CASE DeliverTerminal(d)
    BY <2>6, DeliverTerminalKeeps, StepKeeps DEF IInv
  <2>7. CASE PersistReceipt(d)
    BY <2>7, PersistReceiptKeeps, StepKeeps DEF IInv
  <2>8. CASE PersistActivating(d)
    BY <2>8, PersistActivatingKeeps, StepKeeps DEF IInv
  <2>9. CASE RecordActivation(d)
    BY <2>9, RecordActivationKeeps, StepKeeps DEF IInv
  <2>10. CASE MarkActivated(d)
    BY <2>10, MarkActivatedKeeps, StepKeeps DEF IInv
  <2>11. CASE EffectFails(d)
    BY <2>11, EffectFailsKeeps, StepKeeps DEF IInv
  <2>12. CASE FlakeResolved(d)
    BY <2>12, FlakeResolvedKeeps, StepKeeps DEF IInv
  <2>13. CASE HorizonMaterialized(d)
    BY <2>13, HorizonMaterializedKeeps, StepKeeps DEF IInv
  <2>14. CASE ClosureEvaluated(d)
    BY <2>14, ClosureEvaluatedKeeps, StepKeeps DEF IInv
  <2>15. CASE ClosureBuilt(d)
    BY <2>15, ClosureBuiltKeeps, StepKeeps DEF IInv
  <2>16. CASE ClosureCopied(d)
    BY <2>16, ClosureCopiedKeeps, StepKeeps DEF IInv
  <2>17. CASE Dispatch(d)
    BY <2>17, DispatchKeeps, StepKeeps DEF IInv
  <2>18. CASE ActivationReturns(d)
    BY <2>18, ActivationReturnsKeeps, StepKeeps DEF IInv
  <2>19. CASE DetachedReturns(d)
    BY <2>19, DetachedReturnsKeeps, StepKeeps DEF IInv
  <2> QED BY <1>2, <2>1, <2>2, <2>3, <2>4, <2>5, <2>6, <2>7, <2>8, <2>9, <2>10, <2>11,
         <2>12, <2>13, <2>14, <2>15, <2>16, <2>17, <2>18, <2>19 DEF Pipeline
<1>3. ASSUME NEW d \in Deployments, Closes(d) PROVE IInv'
  <2>1. CASE ObserverReports(d)
    BY <2>1, ObserverReportsKeeps, StepKeeps DEF IInv
  <2>2. CASE CloserRecords(d)
    BY <2>2, CloserRecordsKeeps, StepKeeps DEF IInv
  <2>3. CASE CloserBegins(d)
    BY <2>3, CloserBeginsKeeps, StepKeeps DEF IInv
  <2>4. CASE CloserDelivers(d)
    BY <2>4, CloserDeliversKeeps, StepKeeps DEF IInv
  <2>5. CASE CloserCleans(d)
    BY <2>5, CloserCleansKeeps, StepKeeps DEF IInv
  <2> QED BY <1>3, <2>1, <2>2, <2>3, <2>4, <2>5 DEF Closes
<1>4. ASSUME NEW d \in Deployments, Outside(d) PROVE IInv'
  <2>1. CASE SwitchSetsProfile(d)
    BY <2>1, SwitchSetsProfileKeeps, StepKeeps DEF IInv
  <2>2. CASE ActivationConcludes(d)
    BY <2>2, ActivationConcludesKeeps, StepKeeps DEF IInv
  <2> QED BY <1>4, <2>1, <2>2 DEF Outside
<1>5. ASSUME NEW d \in Deployments, Reconcile(d) PROVE IInv'
  <2>1. CASE ResumePipeline(d)
    BY <2>1, ResumePipelineKeeps, StepKeeps DEF IInv
  <2>2. CASE SkipAtCapacity(d)
    BY <2>2, SkipAtCapacityKeeps, StepKeeps DEF IInv
  <2>3. CASE DropTerminal(d)
    BY <2>3, DropTerminalKeeps, StepKeeps DEF IInv
  <2>4. CASE ReconcileTest(d)
    BY <2>4, ReconcileTestKeeps, StepKeeps DEF IInv
  <2>5. CASE ReconcileSwitch(d)
    BY <2>5, ReconcileSwitchKeeps, StepKeeps DEF IInv
  <2>6. CASE LeaveActivation(d)
    BY <2>6, LeaveActivationKeeps, StepKeeps DEF IInv
  <2>7. CASE LeaveUnresumable(d)
    BY <2>7, LeaveUnresumableKeeps, StepKeeps DEF IInv
  <2> QED BY <1>5, <2>1, <2>2, <2>3, <2>4, <2>5, <2>6, <2>7 DEF Reconcile
<1>6. ASSUME NEW d \in Deployments, RejectAtCapacity(d) PROVE IInv'
  BY <1>6, RejectAtCapacityKeeps, StepKeeps DEF IInv
<1>7. ASSUME NEW d \in Deployments, RefuseDelivery(d) PROVE IInv'
  BY <1>7, RefuseDeliveryKeeps, StepKeeps DEF IInv
<1>8. ASSUME NEW d \in Deployments, CloserGivesUp(d) PROVE IInv'
  BY <1>8, CloserGivesUpKeeps, StepKeeps DEF IInv
<1>9. ASSUME NEW d \in Deployments, ReconcileUnreadable(d) PROVE IInv'
  BY <1>9, ReconcileUnreadableKeeps, StepKeeps DEF IInv
<1>10. CASE UNCHANGED vars
  <2>1. \A d \in Deployments : DInv(d)'
    BY <1>10, UntouchedKeeps DEF IInv, Untouched, vars, durable, outside, volatile
  <2>2. TypeOK'
    BY <1>10 DEF IInv, TypeOK, vars, durable, outside, volatile
  <2>3. Holders' = Holders
    BY <1>10 DEF Holders, vars, volatile
  <2>4. SlotInv'
    BY <1>10, <2>3 DEF IInv, SlotInv, vars, volatile
  <2> QED BY <2>1, <2>2, <2>4 DEF IInv
<1>11. CASE Start
  BY <1>5, <1>11, ReopenKeeps, ServeKeeps DEF Start
<1>12. CASE Crash
  BY <1>12, CrashKeeps
<1>13. ASSUME NEW d \in Deployments, RetireEvent(d) PROVE IInv'
  <2>1. /\ UNCHANGED <<request, lifecycle, phases, undelivered, job, live, outside, volatile,
                       crashes, faults>>
        /\ retired' = retired \union {d}
    BY <1>13 DEF RetireEvent
  <2>2. \A e \in Deployments : DInv(e)'
    BY <2>1, UntouchedKeeps DEF IInv, Untouched, outside, volatile
  <2>3. TypeOK'
    BY <2>1 DEF IInv, TypeOK, outside, volatile
  <2>4. Holders' = Holders
    BY <2>1 DEF Holders, volatile
  <2>5. SlotInv'
    BY <2>1, <2>4 DEF IInv, SlotInv, volatile
  <2> QED BY <2>2, <2>3, <2>5 DEF IInv
<1> QED BY <1>1, <1>2, <1>3, <1>4, <1>6, <1>7, <1>8, <1>9, <1>10, <1>11, <1>12, <1>13 DEF Next

\* The inductive invariant holds.
THEOREM Invariant == Spec => []IInv
<1>1. Init => IInv
  BY InitEstablishes
<1>2. IInv /\ [Next]_vars => IInv'
  BY NextKeeps
<1> QED BY <1>1, <1>2, PTL DEF Spec

\* Every variable keeps its type.
THEOREM TypeCorrect == Spec => []TypeOK
<1>1. IInv => TypeOK
  BY DEF IInv
<1> QED BY <1>1, Invariant, PTL

\* No slot leaks or is freed twice, and the pipelines never exceed the cap, also
\* when a restart resumes some: the actor's active_count is the number of its
\* pipelines.
THEOREM SlotsAreCounted == Spec => []RunningWithinCap
<1>1. ASSUME IInv PROVE RunningWithinCap
  <2>1. /\ IsFiniteSet(Holders) /\ active = Cardinality(Holders) /\ active <= Cap
        /\ active \in Nat
    BY <1>1 DEF IInv, SlotInv, TypeOK
  <2> DEFINE Running == {d \in Deployments : engine[d].at \notin {"idle", "admit", "completed"}}
  <2>2. Running \subseteq Holders
    BY DEF Holders
  <2>3. IsFiniteSet(Running) /\ Cardinality(Running) <= Cardinality(Holders)
    BY <2>1, <2>2, FS_Subset
  <2>4. Cardinality(Running) \in Nat
    BY <2>3, FS_CardinalityType
  <2>5. Cardinality(Running) <= Cap
    BY <2>1, <2>3, <2>4, PipelineAssumption
  <2> QED BY <2>1, <2>5 DEF RunningWithinCap, Holders
<1> QED BY <1>1, Invariant, PTL

\* No activation is started twice, however often the daemon dies around it.
THEOREM ActivatedOnce == Spec => []NeverActivatedTwice
<1>1. IInv => NeverActivatedTwice
  BY DEF IInv, DInv, WorldInv, NeverActivatedTwice
<1> QED BY <1>1, Invariant, PTL

\* A deployment has one task that concludes it: the store refuses no first commit
\* of a transition.
THEOREM BeginsAccepted == Spec => []BeginsAreAccepted
<1>1. ASSUME IInv, NEW d \in Deployments, At(d, "begin") \/ CloserAt(d, "begin")
      PROVE  MayWrite(d)
  <2>1. RowInv(d) /\ EngineInv(d) /\ CloserInv(d)
    BY <1>1 DEF IInv, DInv
  <2>2. CASE engine[d].at = "begin"
    BY <2>1, <2>2 DEF EngineInv
  <2>3. CASE closer[d].at = "begin"
    BY <2>1, <2>3 DEF CloserInv, RowInv, RowAt, MayWrite, Concluded, Terminals
  <2> QED BY <1>1, <2>2, <2>3 DEF At, CloserAt
<1>2. IInv => BeginsAreAccepted
  BY <1>1 DEF BeginsAreAccepted, MayWrite
<1> QED BY <1>2, Invariant, PTL

\* Every row that a restart would start again can be resumed, unless its receipt is
\* missing and the event to recover it from was compacted away.
THEOREM CursorsAreResumable == Spec => []CursorIsResumable
<1>1. ASSUME IInv, NEW d \in Deployments, HasJob(d), job[d].phase \in RestartPhases
      PROVE  Resumable(d) \/ (ReceiptMissing(d) /\ d \in retired)
  <2>1. TypeOK /\ RowInv(d)
    BY <1>1 DEF IInv, DInv
  <2>2. job[d].resume \in ResumeStages /\ job[d].receipt \in {"none"} \union Phases
    BY <1>1, <2>1, RowTyped DEF RowType
  <2>3. job[d].resume # "RecordGenerationActivated"
    BY <1>1, <2>1 DEF RowInv, RestartPhases
  <2>4. job[d].resume \in DOMAIN ResumeAt
    BY <2>2, <2>3, ResumeNames DEF ResumeAt
  <2>5. ~ Concluded(d)
    BY <1>1, <2>1, <2>2, ResumeNames DEF RowInv, RestartPhases, EarlyStages, Concluded, Terminals
  <2>6. ASSUME ReceiptMissing(d) PROVE Times(Receipt(d), d) = 1
    <3>1. job[d].receipt = "none" /\ Receipt(d) = RecordedPhase(job[d].resume)
      BY <2>6 DEF Receipt, ReceiptMissing
    <3>2. job[d].resume = "NixEval"
      BY <1>1, <2>1, <2>3, <2>6, <3>1 DEF RowInv, RecordedPhase, ReceiptMissing
    <3>3. Receipt(d) = "Building"
      BY <3>1, <3>2 DEF RecordedPhase
    <3>4. Len(phases[d]) = 2 /\ phases[d][1] = "Submitted" /\ phases[d][2] = "Building"
      BY <1>1, <2>1, <3>2 DEF RowInv
    <3>5. phases[d] \in Seq({"Submitted"} \union Phases \union Terminals)
      BY <2>1 DEF TypeOK
    <3>6. DOMAIN phases[d] = 1 .. 2
      BY <3>4, <3>5
    <3>7. {i \in DOMAIN phases[d] : phases[d][i] = "Building"} = {2}
      BY <3>4, <3>6
    <3> QED BY <3>3, <3>7, FS_Singleton DEF Times
  <2>7. /\ job[d].resume = "NixBuild" => job[d].closure = "derivation"
        /\ job[d].resume \in {"CopyClosure", "ActivateGeneration"} => job[d].closure = "output"
    BY <1>1, <2>1 DEF RowInv
  <2> QED BY <2>4, <2>5, <2>6, <2>7 DEF Resumable
<1>2. IInv => CursorIsResumable
  BY <1>1 DEF CursorIsResumable, RestartPhases
<1> QED BY <1>2, Invariant, PTL

\* The cursor goes with the report of the conclusion, and a deployment that was
\* never concluded can only have lost it in its Activated phase.
THEOREM CursorsMatchRecords == Spec => []CursorMatchesRecord
<1>1. ASSUME IInv, NEW d \in Deployments
      PROVE  /\ Reported(d) => ~ HasJob(d)
             /\ Admitted(d) /\ ~ Concluded(d) /\ ~ HasJob(d) => lifecycle[d] = "Activated"
  <2>1. TypeOK /\ RowInv(d) /\ WorldInv(d)
    BY <1>1 DEF IInv, DInv
  <2>2. Reported(d) => ~ HasJob(d)
    BY <2>1, ConcludedRows DEF Reported
  <2> QED BY <2>1, <2>2 DEF WorldInv
<1>2. IInv => CursorMatchesRecord
  BY <1>1 DEF CursorMatchesRecord
<1> QED BY <1>2, Invariant, PTL

\* The unit of a test is not stopped before its result is reported.
THEOREM CleanedLast == Spec => []CleanedAfterReport
<1>1. IInv => CleanedAfterReport
  BY DEF IInv, DInv, WorldInv, CleanedAfterReport, Reported
<1> QED BY <1>1, Invariant, PTL

-----------------------------------------------------------------------------
(* What a live generation and a recorded activation rest on.  It needs an  *)
(* invariant of its own, on top of IInv: what the system profile names.    *)

\* The profile names a closure that was brought to the daemon's host, and so does
\* every generation that is live or about to be.
DeliveredInv ==
  /\ Delivered(profile)
  /\ \A d \in Deployments :
       d \in live \/ closer[d].at = "record" => Delivered(request[d].output)

\* Only an activation that succeeded is recorded as Activated.
PhaseInv(d) ==
  Began(d, "Activated") => world[d] = "succeeded" /\ Action(d) \in {"Activate", "SelfSwitch"}

SuccessInv == DeliveredInv /\ \A d \in Deployments : PhaseInv(d)

\* A step that these invariants do not look at.
Quiet ==
  /\ UNCHANGED <<request, phases, live, world, profile, dispatched>>
  /\ \A d \in Deployments : closer'[d].at = "record" => closer[d].at = "record"

\* The steps that they do look at.
Loud(d) ==
  \/ \E wanted \in Requests : Admit(d, wanted)
  \/ RejectAtCapacity(d) \/ BeginPhase(d) \/ BeginTerminal(d) \/ RecordActivation(d)
  \/ Dispatch(d) \/ SwitchSetsProfile(d) \/ ActivationConcludes(d)
  \/ CloserRecords(d) \/ CloserBegins(d) \/ CloserCleans(d) \/ ReconcileSwitch(d)

\* Every step is one or the other.
LEMMA StepsAreLoudOrQuiet ==
  ASSUME TypeOK, [Next]_vars
  PROVE  Quiet \/ \E d \in Deployments : Loud(d)
<1>1. ASSUME NEW d \in Deployments, Pipeline(d) PROVE Quiet \/ Loud(d)
  <2>1. CASE \/ Launch(d) \/ FreeSlot(d) \/ DeliverPhase(d) \/ DeliverTerminal(d)
             \/ PersistReceipt(d) \/ PersistActivating(d) \/ MarkActivated(d)
    BY <2>1 DEF Quiet, Launch, FreeSlot, DeliverPhase, DeliverTerminal, PersistReceipt,
       PersistActivating, MarkActivated, durable, outside
  <2>2. CASE \/ EffectFails(d) \/ FlakeResolved(d) \/ HorizonMaterialized(d)
             \/ ClosureEvaluated(d) \/ ClosureBuilt(d) \/ ClosureCopied(d)
    BY <2>2 DEF Quiet, EffectFails, FlakeResolved, HorizonMaterialized, ClosureEvaluated,
       ClosureBuilt, ClosureCopied, UnchangedByEffect, durable, outside
  <2>3. CASE ActivationReturns(d) \/ DetachedReturns(d)
    BY <2>3 DEF Quiet, ActivationReturns, DetachedReturns, durable, outside, TypeOK, Closer
  <2> QED BY <1>1, <2>1, <2>2, <2>3 DEF Pipeline, Loud
<1>2. ASSUME NEW d \in Deployments, Closes(d) PROVE Quiet \/ Loud(d)
  <2>1. CASE ObserverReports(d)
    BY <2>1 DEF Quiet, ObserverReports, durable, outside, TypeOK, Closer
  <2>2. CASE CloserDelivers(d)
    BY <2>2 DEF Quiet, CloserDelivers, NoCloser, outside, TypeOK, Closer
  <2> QED BY <1>2, <2>1, <2>2 DEF Closes, Loud
<1>3. ASSUME NEW d \in Deployments, Reconcile(d) PROVE Quiet \/ Loud(d)
  <2>1. CASE \/ ResumePipeline(d) \/ LeaveUnresumable(d) \/ SkipAtCapacity(d)
             \/ DropTerminal(d) \/ LeaveActivation(d)
    BY <2>1 DEF Quiet, ResumePipeline, LeaveUnresumable, SkipAtCapacity, DropTerminal,
       LeaveActivation, durable, outside
  <2>2. CASE ReconcileTest(d)
    <3>1. \/ closer' = [closer EXCEPT ![d].at = "watching"]
          \/ closer' = [closer EXCEPT ![d] = [at |-> "begin", outcome |-> ClosedAs[world[d]]]]
      BY <2>2 DEF ReconcileTest
    <3>2. \A e \in Deployments : closer'[e] = closer[e] \/ closer'[e].at # "record"
      BY <3>1 DEF TypeOK, Closer
    <3> QED BY <2>2, <3>2 DEF Quiet, ReconcileTest, durable, outside
  <2> QED BY <1>3, <2>1, <2>2 DEF Reconcile, Loud
<1>4. ASSUME NEW d \in Deployments,
             RefuseDelivery(d) \/ CloserGivesUp(d) \/ ReconcileUnreadable(d) \/ RetireEvent(d)
      PROVE  Quiet
  BY <1>4 DEF Quiet, RefuseDelivery, CloserGivesUp, ReconcileUnreadable, RetireEvent,
     NoCloser, durable, outside, volatile, TypeOK, Closer
<1>5. CASE Crash \/ Reopen \/ Serve \/ UNCHANGED vars
  BY <1>5 DEF Quiet, Crash, Reopen, Serve, NoCloser, vars, durable, outside, volatile
<1> QED BY <1>1, <1>2, <1>3, <1>4, <1>5 DEF Next, Start, Outside, Loud

\* What an activation that is under way, or over, has brought.
LEMMA StartedDelivers ==
  ASSUME IInv, NEW d \in Deployments, world[d] \notin {"untouched", "cleaned"}
  PROVE  Delivered(request[d].output)
<1>1. dispatched[d] # 0 /\ dispatched[d] \in Nat
  BY DEF IInv, DInv, WorldInv, TypeOK
<1> QED BY <1>1 DEF Delivered

\* What was brought stays brought: a request never changes once it is dispatched.
LEMMA DeliveredStays ==
  ASSUME IInv, NEW d \in Deployments, Loud(d), NEW closure, Delivered(closure)
  PROVE  Delivered(closure)'
<1>1. ASSUME NEW e \in Deployments, dispatched[e] > 0
      PROVE  dispatched'[e] > 0 /\ request'[e] = request[e]
  <2>1. dispatched[e] \in Nat /\ request[e] # NoRequest
    BY <1>1 DEF IInv, TypeOK, DInv, WorldInv, Admitted
  <2>2. CASE \E wanted \in Requests : Admit(d, wanted)
    <3>1. lifecycle[d] = "Absent" /\ UNCHANGED dispatched
      BY <2>2 DEF Admit, outside
    <3>2. \A f \in Deployments \ {d} : request'[f] = request[f]
      BY <2>2 DEF Admit, IInv, TypeOK
    <3>3. e # d
      BY <2>1, <3>1 DEF IInv, DInv, WorldInv, Admitted
    <3> QED BY <1>1, <3>1, <3>2, <3>3
  <2>3. CASE Dispatch(d)
    <3>1. UNCHANGED request /\ dispatched' = [dispatched EXCEPT ![d] = @ + 1]
      BY <2>3 DEF Dispatch, durable
    <3>2. dispatched'[e] \in {dispatched[e], dispatched[e] + 1}
      BY <3>1 DEF IInv, TypeOK
    <3> QED BY <1>1, <2>1, <3>1, <3>2
  <2>4. CASE \/ RejectAtCapacity(d) \/ BeginPhase(d) \/ BeginTerminal(d) \/ RecordActivation(d)
             \/ SwitchSetsProfile(d) \/ ActivationConcludes(d)
             \/ CloserRecords(d) \/ CloserBegins(d) \/ CloserCleans(d) \/ ReconcileSwitch(d)
    BY <1>1, <2>4 DEF RejectAtCapacity, BeginPhase, BeginTerminal, RecordActivation,
       SwitchSetsProfile, ActivationConcludes, CloserRecords, CloserBegins, CloserCleans,
       ReconcileSwitch, UnchangedOutside, durable, outside
  <2> QED BY <2>2, <2>3, <2>4 DEF Loud
<1> QED BY <1>1 DEF Delivered

\* What a loud step brings to the profile, to the live generations and to a
\* reconciled switch was brought before.
LEMMA LoudDelivers ==
  ASSUME IInv, DeliveredInv, NEW d \in Deployments, Loud(d)
  PROVE  DeliveredInv'
<1>1. ASSUME UNCHANGED <<profile, live, request>>,
             \A e \in Deployments : closer'[e].at = "record" => closer[e].at = "record"
      PROVE  DeliveredInv'
  BY <1>1, DeliveredStays DEF DeliveredInv
<1>2. CASE \E wanted \in Requests : Admit(d, wanted)
  <2>1. UNCHANGED <<profile, live, closer>> /\ lifecycle[d] = "Absent"
    BY <1>2 DEF Admit, outside
  <2>2. d \notin live /\ closer[d].at # "record"
    BY <2>1 DEF IInv, DInv, WorldInv, CloserInv, Admitted, Action, NoRequest
  <2>3. \A e \in Deployments \ {d} : request'[e] = request[e]
    BY <1>2 DEF Admit, IInv, TypeOK
  <2> QED BY <2>1, <2>2, <2>3, DeliveredStays DEF DeliveredInv
<1>3. CASE RejectAtCapacity(d) \/ BeginPhase(d) \/ BeginTerminal(d) \/ Dispatch(d)
  BY <1>1, <1>3 DEF RejectAtCapacity, BeginPhase, BeginTerminal, Dispatch, durable, outside,
     volatile
<1>4. CASE CloserBegins(d) \/ CloserCleans(d)
  <2>1. UNCHANGED <<profile, live, request>>
    BY <1>4 DEF CloserBegins, CloserCleans, durable, outside
  <2>2. \/ closer' = [closer EXCEPT ![d].at = "deliver"]
        \/ closer' = [closer EXCEPT ![d] = NoCloser]
    BY <1>4 DEF CloserBegins, CloserCleans, AfterCloserBegin
  <2>3. \A e \in Deployments : closer'[e] = closer[e] \/ closer'[e].at # "record"
    BY <2>2 DEF NoCloser, IInv, TypeOK, Closer
  <2> QED BY <1>1, <2>1, <2>3
<1>5. CASE RecordActivation(d)
  <2>1. world[d] = "succeeded"
    BY <1>5 DEF RecordActivation, At, IInv, DInv, EngineInv, RowInv, MayWrite, Effects
  <2>2. Delivered(request[d].output)
    BY <2>1, StartedDelivers
  <2>3. UNCHANGED <<profile, request, closer>> /\ live' = live \union {d}
    BY <1>5 DEF RecordActivation, outside
  <2> QED BY <2>2, <2>3, DeliveredStays DEF DeliveredInv
<1>6. CASE CloserRecords(d)
  <2>1. Delivered(request[d].output)
    BY <1>6 DEF CloserRecords, CloserAt, DeliveredInv
  <2>2. /\ UNCHANGED <<profile, request>> /\ live' = live \union {d}
        /\ \A e \in Deployments : closer'[e].at = "record" => closer[e].at = "record"
    BY <1>6 DEF CloserRecords, outside, IInv, TypeOK, Closer
  <2> QED BY <2>1, <2>2, DeliveredStays DEF DeliveredInv
<1>7. CASE ReconcileSwitch(d)
  <2>1. Delivered(request[d].output)
    BY <1>7 DEF ReconcileSwitch, SwitchWitnessed, DeliveredInv
  <2>2. /\ UNCHANGED <<profile, live, request>>
        /\ \A e \in Deployments \ {d} : closer'[e] = closer[e]
    BY <1>7 DEF ReconcileSwitch, durable, outside, IInv, TypeOK
  <2> QED BY <2>1, <2>2, DeliveredStays DEF DeliveredInv
<1>8. CASE SwitchSetsProfile(d) \/ ActivationConcludes(d)
  <2>1. Delivered(request[d].output)
    BY <1>8, StartedDelivers DEF SwitchSetsProfile, ActivationConcludes
  <2>2. UNCHANGED <<live, request, closer>> /\ profile' \in {profile, request[d].output}
    BY <1>8 DEF SwitchSetsProfile, ActivationConcludes, UnchangedOutside, durable, volatile
  <2> QED BY <2>1, <2>2, DeliveredStays DEF DeliveredInv
<1> QED BY <1>2, <1>3, <1>4, <1>5, <1>6, <1>7, <1>8 DEF Loud

\* A transition that is not Activated does not make an activation recorded.
LEMMA BeganBefore ==
  ASSUME TypeOK, NEW d \in Deployments, NEW t \in Phases \union Terminals, Moves(d, t)
  PROVE  /\ Began(d, "Activated")' => Began(d, "Activated") \/ t = "Activated"
         /\ \A e \in Deployments \ {d} : Began(e, "Activated")' => Began(e, "Activated")
<1> DEFINE S == {"Submitted"} \union Phases \union Terminals
<1>1. phases[d] \in Seq(S) /\ phases'[d] \in Seq(S)
  BY DEF TypeOK, Moves
<1>2. DOMAIN phases[d] = 1 .. Len(phases[d]) /\ DOMAIN phases'[d] = 1 .. Len(phases[d]) + 1
  BY <1>1 DEF Moves
<1>3. \A i \in DOMAIN phases'[d] : i \in DOMAIN phases[d] \/ i = Len(phases[d]) + 1
  BY <1>1, <1>2
<1>4. \A i \in DOMAIN phases'[d] :
        (i \in DOMAIN phases[d] /\ phases'[d][i] = phases[d][i]) \/ phases'[d][i] = t
  BY <1>2, <1>3 DEF Moves
<1> QED BY <1>4 DEF Began, Moves

\* A loud step records an activation only after it succeeded.
LEMMA LoudRecords ==
  ASSUME IInv, \A e \in Deployments : PhaseInv(e), NEW d \in Deployments, Loud(d)
  PROVE  \A e \in Deployments : PhaseInv(e)'
<1>1. CASE \E wanted \in Requests : Admit(d, wanted)
  <2>1. /\ phases' = [phases EXCEPT ![d] = <<"Submitted">>] /\ UNCHANGED world
        /\ \A e \in Deployments \ {d} : request'[e] = request[e]
    BY <1>1 DEF Admit, outside, IInv, TypeOK
  <2>2. ~ Began(d, "Activated")'
    BY <2>1 DEF IInv, TypeOK, Began
  <2>3. \A e \in Deployments \ {d} : phases'[e] = phases[e]
    BY <2>1 DEF IInv, TypeOK
  <2> QED BY <2>1, <2>2, <2>3 DEF PhaseInv, Began, Action
<1>2. CASE RejectAtCapacity(d)
  <2>1. phases' = [phases EXCEPT ![d] = <<"Rejected">>] /\ UNCHANGED <<world, request>>
    BY <1>2 DEF RejectAtCapacity, outside
  <2>2. ~ Began(d, "Activated")'
    BY <2>1 DEF IInv, TypeOK, Began
  <2>3. \A e \in Deployments \ {d} : phases'[e] = phases[e]
    BY <2>1 DEF IInv, TypeOK
  <2> QED BY <2>1, <2>2, <2>3 DEF PhaseInv, Began, Action
<1>3. CASE BeginPhase(d)
  <2> DEFINE phase == engine[d].next
  <2>1. /\ phase \in Phases /\ Moves(d, phase) /\ UNCHANGED <<world, request>>
    BY <1>3, TransitionMoves DEF BeginPhase, outside, IInv
  <2>2. phase = "Activated" => world[d] = "succeeded" /\ Action(d) \in {"Activate", "SelfSwitch"}
    BY <1>3 DEF BeginPhase, At, IInv, DInv, EngineInv
  <2> QED BY <2>1, <2>2, BeganBefore DEF PhaseInv, Action, IInv
<1>4. CASE BeginTerminal(d) \/ CloserBegins(d)
  <2>1. PICK t \in Terminals : Terminalize(d, t) /\ UNCHANGED <<world, request>>
    BY <1>4 DEF BeginTerminal, CloserBegins, CloserAt, outside, IInv, DInv, CloserInv, Terminals
  <2>2. Moves(d, t) /\ t # "Activated"
    BY <2>1, TransitionMoves DEF Terminalize, Terminals, IInv
  <2> QED BY <2>1, <2>2, BeganBefore DEF PhaseInv, Action, IInv
<1>5. CASE RecordActivation(d) \/ CloserRecords(d) \/ ReconcileSwitch(d)
  BY <1>5 DEF RecordActivation, CloserRecords, ReconcileSwitch, durable, outside, PhaseInv,
     Began, Action
<1>6. CASE Dispatch(d) \/ SwitchSetsProfile(d) \/ ActivationConcludes(d) \/ CloserCleans(d)
  <2>1. /\ UNCHANGED <<phases, request>>
        /\ \A e \in Deployments \ {d} : world'[e] = world[e]
    BY <1>6 DEF Dispatch, SwitchSetsProfile, ActivationConcludes, CloserCleans,
       UnchangedOutside, durable, IInv, TypeOK
  <2>2. world[d] # "succeeded" \/ Action(d) = "SelfTest"
    BY <1>6 DEF Dispatch, At, SwitchSetsProfile, ActivationConcludes, CloserCleans, CloserAt,
       IInv, DInv, EngineInv, WorldInv, CloserInv
  <2> QED BY <2>1, <2>2 DEF PhaseInv, Began, Action
<1> QED BY <1>1, <1>2, <1>3, <1>4, <1>5, <1>6 DEF Loud

\* Both hold in every reachable state.
LEMMA SuccessInvariant == Spec => []SuccessInv
<1>1. Init => SuccessInv
  BY DEF Init, SuccessInv, DeliveredInv, Delivered, PhaseInv, Began, NoCloser
<1>2. ASSUME IInv, SuccessInv, [Next]_vars PROVE SuccessInv'
  <2>1. CASE Quiet
    BY <1>2, <2>1 DEF Quiet, SuccessInv, DeliveredInv, Delivered, PhaseInv, Began, Action
  <2>2. ASSUME NEW d \in Deployments, Loud(d) PROVE SuccessInv'
    BY <1>2, <2>2, LoudDelivers, LoudRecords DEF SuccessInv
  <2> QED BY <1>2, <2>1, <2>2, StepsAreLoudOrQuiet DEF IInv
<1> QED BY <1>1, <1>2, Invariant, PTL DEF Spec

\* A completed deployment has what it says: an activation is live and succeeded on
\* its target, a test's unit succeeded, and nothing else leaves a live generation.
\* A self-switch that recorded its Activated phase succeeded too.  One that a start
\* adopted from the system profile need not have: all that holds of it is that some
\* activation that was started brought its closure, or that it was there at first.
THEOREM SuccessMeansActivated == Spec => []SuccessWasActivated
<1>1. ASSUME IInv, SuccessInv, NEW d \in Deployments
      PROVE  /\ lifecycle[d] = "Completed" => CASE
                  Action(d) \in {"Activate", "SelfSwitch"} -> d \in live
               [] Action(d) = "SelfTest" -> world[d] \in {"succeeded", "cleaned"}
               [] OTHER -> d \notin live
             /\ d \in live =>
                  /\ Action(d) \in {"Activate", "SelfSwitch"}
                  /\ Action(d) = "Activate" \/ Began(d, "Activated") => world[d] = "succeeded"
                  /\ Delivered(request[d].output)
  <2>1. WorldInv(d) /\ PhaseInv(d)
    BY <1>1 DEF IInv, DInv, SuccessInv
  <2>2. d \in live => Delivered(request[d].output)
    BY <1>1 DEF SuccessInv, DeliveredInv
  <2> QED BY <2>1, <2>2 DEF WorldInv, PhaseInv
<1>2. IInv /\ SuccessInv => SuccessWasActivated
  BY <1>1 DEF SuccessWasActivated
<1> QED BY <1>2, Invariant, SuccessInvariant, PTL

=============================================================================
