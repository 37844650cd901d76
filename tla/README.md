# lojix: models, checks and proofs

lojix-nexus is a daemon that deploys NixOS and home-manager generations: it
accepts requests on two sockets, runs nix, ssh and systemd for them, and keeps
what it did in one store (`Store`, `src/lib.rs`, on top of `sema-engine`). This
directory models the parts of it whose correctness depends on the order of
steps: what is written when, by which task, and what a restarted daemon makes of
it. Paths below are relative to the repository's root.

## Inventory

| Part | State | Operations | What makes it hard | What makes it correct |
|---|---|---|---|---|
| Deployment ledger, transition journal (`src/lib.rs` 1822-2255, 2371-2960) | deployment records, transition intents, outbox, event log, deploy-job rows, the engine's own versioned commit log | begin admission / rejection / phase / terminal, bind, dispatch, append, acknowledge, reconcile | one public transition is five commits; each takes the write gate anew; a crash may fall between any two; a transition finds its own marker by diffing commits | every transition delivered exactly once, in order; markers never shared; the terminal one last; no undelivered transition without its restart cursor |
| Event history (`src/lib.rs` 2258-2367) | event log, positions, checkpoint | append, compact | compaction runs at the end of any transition, under deliveries of other deployments | the payload of an undelivered transition survives; the store can be reopened |
| DeployJobs actor (`src/daemon.rs` 654-1016) | count of running pipelines | admit, completed, reconcile persisted jobs | pipelines outlive their request and their connection; a restart relaunches them | the cap holds; every row is resumed, adopted or dropped rightly |
| Deploy pipeline (`src/schema_runtime.rs` 1153-2310, 3400-4390, 4699-4845) | cursor in memory and in the job row; lifecycle | effects in order, phase records, activation record, conclusion, resume | the cursor, the receipt, the phase and the activation are separate writes around effects that cannot be undone | never activates twice; a success the pipeline reports was activated; a row a start restarts fits its stage |
| Detached observers (`src/schema_runtime.rs` 7040-7360) | none of their own; a transient systemd unit | prepare, observe, report, clean | the daemon is replaced by the activation it started | the result is reported before the unit is stopped, and in the end it is |
| Generation ledger (`src/lib.rs` 2965-3054, `src/schema_runtime.rs` 4847-4952) | live set, GC roots | record activation, pin, unpin, retire | requests decide on reads outside the write gate and write whole rows | one current generation per place; what was retired stays retired |
| Test runs (`src/daemon.rs` 1210-1351, `src/schema_runtime.rs` 4390-4540) | test-run rows, container events | admit, run, conclude | no reconciliation at start; identifiers are the maximum plus one | a run is concluded once; identifiers are not reused |
| Nexus configuration (`src/lib.rs` 1607-1717) | one row: ordinary, meta, desired | ordinary configure, meta configure, reverse, seed, rebuild | two authorities, one row; the row may not decode | an ordinary configuration never overrides a meta one; a store with rows and no configuration is a cause for refusal only when no opening made it so |
| Store opening, quarantine, allocation (`src/lib.rs` 1422-1800, `src/quarantine.rs`, `src/reconstruction.rs`) | the file, its sidecars, probe copies, the rows set aside | probe, open, set aside, seed, rebuild, complete deliveries, migrate, reset | dozens of commits with a crash between any two; rows of an older schema; identifiers computed from what is left | nothing is lost; the original is not touched before its copy opened; an interrupted opening can be repeated; what is allocated next is free |
| Bootstrap (`src/bootstrap.rs`) | a private journal directory, its temporaries, the GC root and its staging link, the evidence | admit, materialize, test, build, root, copy, arm one boot, watch, conclude | no daemon: the same request is run again after every interruption, against a machine that may have restarted | no effect the journal holds the outcome of is issued again, no unit runs twice; the root precedes the boot; one status, one evidence, for ever; every run ends |
| Deployment effects (`src/schema_runtime.rs` 5219-7900) | the target: store, roots, profiles, loader, firmware entries | the commands of evaluation, build, copy and the six activations | two deployments, the collector, restarts and lost connections between any two lines of a script | what was built is still there when it is activated; the next boot is the one promised; a script is not cut by the daemon that started it |
| Generated inputs (`src/schema_runtime.rs` 1060-1290, 5560-5760) | generated flake directories | project, wipe, write, hash, lock | directories shared by deployments, no lock | a deployment evaluates its own inputs |
| Flake and submission validation (`src/schema_runtime.rs` 1290-1545, 5018-5215) | none | accept or reject | which of a dozen fields decides first | only immutable or recordable sources, only permitted authorities |
| Requests, sockets (`src/daemon.rs` 281-660) | limits | serve one request | up to 64 at once, multi-threaded | |
| Inspection (`src/inspection.rs`), adapters, runtime flow, clients, tools | none | read a store offline, conversions, one request | | |

How they interact: a request worker asks the DeployJobs actor to admit a
deployment; the actor runs the admission's transition itself and spawns a
pipeline task, which reports `DeployCompleted` back. The pipeline, an observer
task and the actor's reconciliation all write through the journal, and the
pipeline and the reconciliation record activations in the generation ledger,
whose rows the owner's requests rewrite from other tasks. The store's write gate
is the only lock; each method takes and releases it on its own. The effects of a
pipeline are commands of nix, ssh and systemd on the daemon's host and on the
target; several pipelines issue them at once, and nothing orders two deployments
of the same node. The bootstrap shares no state with the daemon: it is a program
of its own with the same effects and a journal of its own.

## Modules

| Module | Models | Extends / used by |
|---|---|---|
| `TransitionJournal` | the store's journal: every commit of a transition, the event log and its compaction, reopening | implements `DeploymentDelivery` |
| `DeploymentDelivery` | the abstract promise: transitions begin one at a time, are published, then delivered once; the final one is the last | |
| `TransitionJournalProofs` | theorems about both | |
| `JournalRecoveryProofs` | theorems about what a reopening finds | extends `TransitionJournalProofs` |
| `DeployPipeline` | the actor, the pipelines, the effects, the observers and the restart | a transition is two steps here; the journal is what lies between |
| `DeployPipelineProofs` | theorems about it | |
| `GenerationLedger` | live set and roots under activations and owners' requests | |
| `GenerationLedgerProofs` | theorems about it | |
| `StoreOpening` | the store file from its first opening over schema changes and crashes: probe, quarantine, configuration, allocation, deliveries completed, migration, reset | the transitions are those of `TransitionJournal`, two per deployment |
| `StoreOpeningProofs` | theorems about it | |
| `Bootstrap` | the daemon-free bootstrap, its journal, every run of one request, and the machine it arms | |
| `BootstrapProofs` | theorems about it | |
| `SubmissionAdmission` | the checks of a submission, and what an action means, as operators | extended by `TargetHost` |
| `TargetHost` | what the commands of two deployments do to one target | details what the effects of `DeployPipeline` do |
| `TargetHostProofs` | theorems about it | |
| `HorizonInputs` | the generated flake inputs of two deployments | |
| `MC...` | instances for TLC, and the properties that documentation states and the code does not keep | |

**TransitionJournal.** `intents`, `record`, `outbox`, `eventLog`, `jobs`,
`allocation` are the tables; `versionedLog` and `commits` are the engine's
commit log as far as `initial_intent_marker` reads it, and `step` is where each
writer is between two holds of the gate. One action is one atomic commit:
`BeginFirst`/`BeginPhase`/`BeginTerminal`, `Bind`, `Dispatch`, `Append`,
`Acknowledge`, `AppendOther`, `CompactRows`, `CompactVersionedHistory`,
`CompactConfiguredHistory`. The last two take raw commits: the wipe that follows
a compaction of rows, and the policy's own limit (`CommitRetention`), which every
maintenance applies whether or not it retired a row. A reopening is
`RequeueDispatchedOutbox`, one `ReconcileIntent` per intent and
`ReconcileDeploymentOutbox`, which refuses a row of the same key with another
payload (`Mismatched`; `ReopenFailsOnlyWithoutSource` says it never meets one).
Then a start drops rows of deployments it takes for done (`RetractDeployJob`),
whose transitions are all delivered; here it may drop any such row, and
`DeployPipeline` says which. They are a last stage of the reopening here; in the
code pipelines resumed from other rows may already write, but a retraction touches
its own row only and commutes with what they write. `upsert_deploy_job` rewrites
the cursor in a row that is there and changes nothing the journal reads; what it
writes is the `job` of `DeployPipeline`. A delivery whose row a compaction took is
`Refuse`.

**DeployPipeline.** `lifecycle`, `phases`, `undelivered`, `job` and `live` are
durable; `world`, `profile` and `dispatched` are the target host, which a crash
of the daemon does not stop; the rest dies with the daemon. `engine[d].at` is
the point where pipeline `d` waits: an effect, the first commit of a transition,
its delivery, or the receipt that follows. `Persist` is `persist_job_cursor`.
`Reopen` and `Reconcile` are `LojixRuntime::new` and
`reconcile_persisted_jobs`, which finishes before the daemon serves.
`profile` is the closure that the system profile of the daemon's host names, and a
self-switch is recognised by it, as the code does (`self_switch_activation_record`
compares paths): two deployments of one source build one closure, and a switch to
the closure that is there already is taken for a finished one. The observer of a
test is attached by `DetachedReturns`, after the command that starts the unit
returned successfully; a command that fails after the unit started concludes the
deployment as failed and attaches nothing. `Resumable` is the whole of
`resumption`: besides closure, record and phases it asks for the receipt of the
stage, and a receipt that a crash lost is recovered from the event log, in which
the phase's event must still be: `RetireEvent` is the compaction that takes it,
and `LeaveUnresumable` leaves such a row. The repair of a self-switch reads `live`
where the code looks for a GC root: with a root an owner retired the code records
again and is refused. `CloserGivesUp` has the refusal; what leads to it needs the
ledger, and is the hazard at `src/daemon.rs:911`.

**GenerationLedger.** An activation is one step, because it reads and writes
under the gate; a request is two, because it does not. Node and environment are a
place; closure paths and artifacts are left out.

**StoreOpening.** `real` and `probe` are two store files: for each table the rows
it has, with whether the current schema still reads each of them, and the rows
set aside; `process` is the Nexus, at one point of `open_unchecked`, on the probe
or on the file, for the first or the second of its two openings. One action is
one commit: a row set aside, the configuration seeded or rebuilt, the allocation
rebuilt, an outbox row put back, an intent bound, appended or acknowledged.
`Upgrade` makes the rows of some families undecodable; `Migrate`, `ResetStore`
and `RemoveSidecars` are the tools. `Submit`, `Advance`, `Activate`, `Conclude`
and the three `Configure` actions are what a served store writes. Retention and
source commits are in `TransitionJournal`; the rows of GC roots, containers and
test runs, which the opening only sets aside, stand behind those of the live set.

**Bootstrap.** `journal` is the state file (events, the values three stages
record, the terminal status) and the directory around it, `temporaries` the
numbered files a crash leaves, `files` the generated inputs, the staging link,
the root, the ssh configuration and the evidence. `process` is the stage a run is
at and the step within it. A stage is intent, effect, record, receipt and
outcome, each a write of its own; a stage that does not apply or is behind the
run is passed over. `Crash` may leave a temporary of a write, a half-written
configuration or a finished effect; `Begin` is the next run. `target` is the
armed machine: its unit runs the lines of the script one by one, and a restart
boots what the firmware says. The code's injected crash points are instances of
`Crash`.

**TargetHost** over **SubmissionAdmission.** A deployment is admitted by the
operators of `SubmissionAdmission`, then issues the commands of its stages one by
one (`calls`); a command is a script whose lines change the `machine` one at a
time. `session` is what runs on the target for the deployment, and whether the
daemon still waits for it: an ssh child, a transient unit or a retained one.
`Lose`, `HangUp`, `Crash`, `Reboot`, `RebootSelf` and `Collect` happen between
any two lines. `alone`, `activated`, `doneAt` and `outcome` record what happened,
for the properties.

**HorizonInputs.** `files` is what each generated directory holds, `fetched` what
Nix has already copied to its store, `locked` the overrides a deployment has
made. Projecting, wiping, writing, hashing and evaluating are steps of their own.

## Runs

| Run | Instance | Question |
|---|---|---|
| `journal` | 2 deployments, ordinals 0 to 2, 2 positions, 2 crashes, retention 1, 2 raw commits kept | do payloads, markers, cursors and terminals stay consistent, is the abstract delivery implemented, and is every transition that began acknowledged, when everything interleaves across crashes? |
| `journal_reopen` | 2 deployments, ordinals 0 and 1, 3 positions, 1 crash, retention 1, all raw commits kept | finding: a store that no longer opens |
| `pipeline_safety` | 2 deployments, all actions, 2 closures, cap 1, 2 crashes, 1 fault | are activations unique, rows fit to resume, slots counted, and what exactly does a success mean? |
| `pipeline_liveness` | 2 deployments, builds and tests, cap 1, 2 crashes | is every build and every started test concluded? |
| `pipeline_orphan` | 2 deployments, cap 1, 1 crash | finding: a dropped row |
| `ledger_concurrent` | 3 generations, 2 places, 2 labels, 2 workers | do stale writes ever revive a root or a slot, or give a place two current generations? |
| `bootstrap_recovery` | six requests: every mode, two inputs, a test, three refused; 2 crashes, 1 reboot, 2 polls | does a rerun issue what the journal has an outcome of, start a unit twice, decide twice, arm before the root, or run for ever? |
| `bootstrap_rerun` | the same, 1 crash | finding: a request no rerun can finish |
| `host` | 2 deployments of one node, every activation and one refusal of each kind, on the daemon's node and elsewhere, 2 faults | is what was built, switched to and armed still right after the other deployment, the collector, a restart or a lost connection? |
| `store` | 1 deployment, 2 schema changes out of eleven, 1 crash, failed copy or failed removal, 2 process identifiers | does an opening lose a row, touch a store it refuses, refuse one for no cause, or allocate what is taken? |
| `store_unread_row` | 1 deployment, 1 schema change | finding: an unreadable row stops the Nexus |
| `inputs` | 2 deployments of one node, 5 submissions | finding: inputs of another deployment |

Bounds. In the journal three ordinals are an admission, a phase and a terminal, or
the rejection; a second deployment provides the traffic that reuses positions and
compacts. `MaxPosition` bounds the positions that are allocated, so the
transitions that begin. Retention 1 makes every maintenance compact, so that a
compaction meets every state of the other deployment's delivery; `CommitRetention`
of 2 lets the policy's own trimming take a commit while another transition is
under way, and 8, in `journal_reopen`, is more than there are, so that only the
wipe takes one. Two crashes let the second
fall into the recovery from the first. A cap of one with two deployments reaches
the refusal at the cap, the slot freed for the other and the row skipped at
start. In the pipeline a fault is a delivery the journal refuses, a record that is
refused or an observer whose bus breaks. `Closures` of two are the one that is
installed and the one the deployments bring, so that a switch can name either. Three generations are a current one, its replacement and one
elsewhere; two workers are a stale writer and the one that overtakes it.

`MaxCrashes` of the bootstrap is two for the same reason; `MaxReboots` is one,
which loses the unit and consumes the armed boot; `MaxPolls` stands for thirty,
and two are a poll that goes on and the last one; `MaxNumber` of one lets the
temporary of a process's first write be left, which the next process meets.
`MaxFaults` of `TargetHost` counts restarts, daemon deaths and lost connections
together: two let one fall into the aftermath of another. `MaxUpgrades` of two
reaches a store that an interrupted opening of one schema change left to the
next; its `MaxFaults` of one is a crash between any two commits of either, or a copy or
a removal of the probe that fails;
`MaxIdentifier` of one deployment suffices because an opening treats each row by
itself and the allocation as a whole. `Requests`, `Schemas` and `MaxPosition`
bound nothing else. Deadlock is not checked: with every request served and the
bounds used up the system rests.

Fairness. `TransitionJournal`: weak fairness of each writer's next commit and of
the reopening. Writers are tasks of a multi-threaded runtime and take a mutex
for a bounded time; the service manager restarts the daemon (`Restart =
"always"`, `flake.nix`). `DeployPipeline`: weak fairness of each pipeline, each
observer, of the start, and of the activation on its target. The last one, and
that every effect returns, is an assumption about nix, ssh and systemd: the code
has no timeout for them. `Bootstrap`: weak fairness of the steps of a running
process only, which assumes that every command a run issues returns: the executor waits
for it without a timeout (`ProcessBootstrapExecutor::run`), so a nix or ssh that
hangs is a run that does not end. Nobody promises to run the request again, so no
property says that a request is ever finished, only that every run ends. Nothing is assumed about
admissions, crashes, faults or the steps of a target.

Of the type invariants, `TypeOK` is checked by `journal` and proved of
the journal, the pipeline, the ledger and the target, and `Typed` is proved of
the bootstrap; the others state the shape of their module's state.

## What the checks show

The journal's exactly-once delivery, its markers and its cursors hold in every
interleaving checked, also with a compaction between any two commits. A cursor
can go before the terminal is reported, by the start that drops the row of a
deployment in its `Activated` phase (`pipeline_orphan`); what holds is that no
undelivered transition, and no unreported terminal, is ever without one. The
pipeline never starts an activation twice, and a success it reports itself was
activated. A success that a start reports is weaker: a self-switch whose closure
the system profile names is adopted as completed, and of such a one only this
holds, that some activation that was started brought the closure to the host, or
that the profile named it at first; the switch may be unfinished, have failed, or
never have been started. A row in a phase that a start restarts fits its stage,
unless a crash took its receipt and a compaction the event behind it: such a row
is left for ever. A rerun of the bootstrap issues no effect whose outcome the
journal holds, keeps the closure rooted through the hand-over, and never
reconsiders a status; a copy, and the command that starts the unit, are issued
again when the query before them failed on the target, and then nothing runs twice
because systemd refuses a unit it knows. On the target, a build stays rooted until
it is activated, a switch that no other activation overlaps decides every later
boot, a boot-once falls back to what was booted before, and no detached script is
cut; a home profile names an activated closure for `ActivateNow` only, since
`SetProfile` sets it without activating. Opening a store loses no row, and a store
is refused on its copy, and for a documented cause unless it lost a row that a
transition under way needs.

Three assumptions are about the world. The final link of the bootstrap's root
keeps the closure (`RootedBeforeActivation`, `RootLinkNeverLost`): Nix registers
the staging name (`nix-store --add-root`), and what is hard-linked from it is a
root only where the collector looks for roots by itself, which is up to the
request's `gcRootPath`. No generation of a profile is deleted
(`BootTargetIsKept`): `Collect` spares whatever a profile has as a generation. And
a unit that ended stays known to systemd until the machine restarts, as the fixed
unit name without `--collect` has it.

Five runs show a disagreement between the code and what its comments say:

1. `journal_reopen`. `compact_event_history` sets the retention of the raw commit
   history to zero while another deployment's intent may still be unbound. After
   a crash `initial_intent_marker` finds no commit to bind it to, and every
   opening of the store fails.
2. `pipeline_orphan`. A row in phase `Activated` is dropped at start as terminal.
   The row has that phase from the first commit of the `Activated` transition on;
   if the daemon stops before the conclusion, nothing concludes the deployment.
3. `bootstrap_rerun`. The journal's directory is created before its first state
   is written. A run that dies in between leaves a directory without a state,
   which every rerun refuses, although the README says that a rerun resumes. (A
   temporary left by the same crash point of a later write has the same effect:
   every process numbers its temporaries from zero.)
4. `inputs`. Two deployments of one node and shape write the same generated
   directories between each other's writes and hashes; one of them evaluates the
   definition or the secrets of the other.
5. `store_unread_row`. The opening sets aside the record of a deployment that no
   longer decodes, then delivers what was left undelivered; the binding of that
   deployment's admission or terminal finds no record, and every start fails
   (`RecordMissing`; a delivery row and a rebuilt allocation lead to
   `OutboxMissing` and `PositionTaken`), although `src/quarantine.rs:1-2` says that
   such a row is never allowed to stop the Nexus and `src/lib.rs:1593-1594` that it
   cannot refuse the store.

Three properties that comments state fail in the same instances and are kept as
definitions in the MC modules; put in the place of the cfg's own they are
violated:

- `ExactContinuation` (`MCDeployPipeline`; `src/schema_runtime.rs:2308`): a
  pipeline resumed at its build or copy continues, at its next phase record, with
  an evaluation: build and copy run again and `Copying` is published twice.
- `ReconciledSwitchCompleted` (`MCDeployPipeline`; `src/daemon.rs:818`): the
  profile that is the witness of a completed self-switch is set before the switch
  runs, and it is compared by closure, so a switch to the closure that is installed
  already is adopted without having been started. `SuccessWasActivated` says what
  is left.
- `LabelsAreUnique` (`MCGenerationLedger`; `src/schema_runtime.rs:4853`): two
  concurrent pins with the same label both succeed.

Met while modelling, without a run:

- A rebuilt allocation looks at live generations, jobs and the log only: the
  identifier of a record and the position of a pending transition can be given
  out again, which is why `NextIsFree` excepts a rebuilt one.
- An interrupted reset removes the store and leaves its sidecars for ever, since
  nothing finds a store to reset afterwards (`src/reconstruction.rs:156`).
- The roots added on a target for a build are never removed
  (`src/schema_runtime.rs:6416`); `Collect` keeps them.
- The receipt in the job row follows the phase commit in a write of its own. After
  a crash between them the row resumes with the receipt of the phase before, or, if
  it had none, only as long as the phase's event is in the event log
  (`src/schema_runtime.rs:3928-3950`).
- A pinned current generation loses its pinned slot, not its label, when its
  successor is activated; admissions and rejections append events without
  maintaining the log.
- A configuration rebuilt after it was set aside opens the ordinary authority
  again; `UPGRADES.md:146-155` documents it.

## Proofs

`TransitionJournalProofs` proves, from `JournalAssumption` alone (the bounds are
natural numbers, the retentions positive), for any number of deployments,
transitions, crashes and any retentions: type correctness; `UndeliveredIsLast`; `MarkersAreDistinct`;
`EveryEventHasItsIntent`; `UndeliveredKeepsItsCursor`; `TerminalIsFinal`; and
that the journal implements `DeploymentDelivery`.

The inductive invariant `IInv` has five parts. `TypeInv` adds to the types that a
writer in mid-delivery holds an undelivered intent, bound unless it is about to
bind it; without it a `Bind` of an acknowledged intent would have to be
considered. `OrdinalsInv` says that ordinals are dense and that only the last
may be undelivered. `MarkerInv` says that a marker in use is the sequence of a
commit that wrote its intent and not that of another, which is why a marker is
never found twice. `EveryEventHasItsIntent` is inductive once the two before it
are there: a position is taken under the same gate as the bind that uses it.
`CursorInv` adds to `UndeliveredKeepsItsCursor` that a record is terminal exactly
when a terminal intent was written, and `DeliveredBeforeJobs`, that a start which
drops rows has delivered everything: that is why a dropped row never takes a
cursor from an undelivered transition. Each part
is proved in a section of its own, one step per action; the actions that write
no intent are gathered in `QuietSteps` and treated once per section. The
refinement maps an unacknowledged intent to `begun`, an acknowledged one to
`delivered`, and visible events to `published`; binding and dispatching are
stutters, and a compaction is `Retire`.

`JournalRecoveryProofs` proves what a reopening relies on: `RecoveryPayloadKept`
(a compaction never takes the payload of an unacknowledged transition),
`NeverRedelivered`, and `ReopenFailsOnlyWithoutSource`. Three parts are added to
`IInv`. `RowsInv` says that a visible event belongs to an intent that is bound
to its position: a compaction keeps the positions of unfinished intents, so it
keeps their payloads. That is only enough with `PositionInv`, that a position
has one holder, which in turn needs that whatever takes a position takes it
under the same gate as the write that makes it visible. `ReopenInv` says that an
opening has no writer beside it and that of the two sources of a marker, the
intent and the raw commit history, the second is only ever lost through a
compaction of the history: an opening that fails is one that follows the
compaction of `journal_reopen`, or the trimming to `CommitRetention`, and there is
no other cause.

`DeployPipelineProofs` proves, from `PipelineAssumption`, for any number of
deployments, any cap, and any number of crashes and faults: type correctness,
`RunningWithinCap`, `NeverActivatedTwice`, `BeginsAreAccepted`,
`CursorIsResumable`, `CursorMatchesRecord`, `SuccessWasActivated` and
`CleanedAfterReport`. (The assumption has that the installed closure is one of the
closures, and that so is what a request builds.) Two of its invariants are about the system:
`SlotInv`, that the actor's counter is the number of pipelines that hold a slot,
and `TypeOK`. The rest, `DInv`, is about one deployment, and an action is about
one deployment, so each is proved for the deployment that moves and carried over
for the others. `RowInv` says which lifecycle, phases and undelivered transition
a job row of each phase can be found with; `WorldInv` what the target can have
done by then, and that it has done nothing before the row says `Activating`;
`EngineInv` the same at each of the points where a pipeline waits, which is what
a crash at that point leaves behind; `CloserInv` and `VisitInv` treat the
observer and the reconciliation in the same way. `NeverActivatedTwice` holds
because a start reads the row, and a row from which a pipeline is launched has a
phase before `Activating`, which `WorldInv` excludes once the target has moved.
`CursorIsResumable` follows from `RowInv`, which lists the receipt each resume stage
has, with the one exception of an event that was retired. `SuccessWasActivated`
needs an invariant about all deployments at once, `SuccessInv` on top of `IInv`:
whatever the profile names was brought to the host by an activation that was
started (`DeliveredInv`), and an `Activated` phase was begun only by a pipeline
whose activation succeeded (`PhaseInv`). The steps that write the profile, a live
generation or a phase (`Loud`) are treated one by one, all others leave both alone
(`Quiet`).

`GenerationLedgerProofs` proves type correctness, `OneCurrent`,
`CurrentRootsAreCurrent`, `RetiredStaysRetired` and `DemotedOnlyByReplacement`
from `LedgerAssumption`. `CurrentRootsAreCurrent` is not inductive: what a
worker is about to write was read earlier. The strengthening says that no
pending write carries the slot `Current`, since pin and unpin replace the slot
they read by another; that one conjunct is what makes stale writes harmless.
`RetiredStaysRetired` needs that rows are only ever created by activations of
generations that are not live.

`BootstrapProofs` proves, from `BootstrapBounds` and `BootstrapRequests`, for any
set of requests and any number of deaths, reboots, polls and temporaries:
`RootedBeforeActivation`, `RootLinkNeverLost`, `EvidenceIsFinal`,
`CompletedEffectsNotRepeated` and `SuccessMeansArmed`. The inductive invariant `IInv` ties the place of
the process to the disk. `RootedBeforeActivation` alone does not survive the step
that starts the unit, since nothing in it says that a run at that step has passed
the root: `RootInv` adds it for every place past the hand-over, also for a run
that a journal of an earlier run let skip the stage, which is where the check of
the root's receipt is used. `StatusInv` says that a status exists only at the
places of the last stage, that nothing there but its decision precedes it, and
that the evidence carries it: hence no other effect follows a status and a second
evidence agrees. `DoneInv` says that a run between the intent and the effect of a
stage has not got it behind it, from which the first half of
`CompletedEffectsNotRepeated` follows; the second half, that a unit is never
started again while the target knows it, is a lemma about the steps of the target
(`UnitRunsOnce`), since a start that is issued again is refused there. `UnitInv` says what each line of the script leaves for the next, so
that a unit can only finish over an old system it made the default; `ArmedInv`
that no place after the poll, no outcome of it and no success is reached but by
a run that saw the unit finish, in whichever run that was. The writes of the
journal, the effects and the passing steps are gathered (`JournalMoves`,
`EffectMoves`, `EnterMoves`, `BeginFields`), and each part of the invariant is
proved from where these lead.

`TargetHostProofs` proves, from `HostAssumption` (the first system is no closure
of a deployment, and no closure is the empty entry), for any number of
deployments of the node, any requests and any number of faults: type correctness,
`RootedUntilActivated`, `BootTargetIsKept`, `HomeProfileWasActivated`,
`SwitchDecidesBoot`, `BootOnceThenBack` and `DetachedScriptIsNeverCut`. A script
can stop between any two lines, so the inductive invariant is about what a
deployment has left to run: `LineInv` says that it is its own, in the order
`Rank` that all scripts share, and that a foreground command of a detached
activation is one of the build. `RootInv`, `SwitchInv` and `OnceInv` then say of
each effect that its line is left or the effect is there. `GenerationInv` is what
`BootTargetIsKept` needs: not only the loader and the firmware entries, also the
variables of a script still running name generations, since a later line copies
them into the firmware, and a script that is still to write a boot entry has
still to set the profile or has set it. `AloneInv` says that an activation
nothing has overlapped is followed by no other of its kind, whose scripts could
undo its effects; without it neither `SwitchInv` nor `OnceInv` is inductive. The
proof first reduces every action to what it does to one deployment (`Move`,
`Performs`, `BeginsActivation`) and to the target (`EffectFields`,
`RestartFields`, `CollectFields`); each part is proved from these.

`StoreOpeningProofs` proves, from no assumption on the constants, for any number
of deployments, schema changes, crashes, failed copies and failed removals, and any families a
change makes unreadable: `TypeOK`, `RefusedForCause`, `RefusedOnTheProbe`,
`NextIsFree` and the action property `OpeningLosesNothing`. `RefusedOnTheProbe`
says nothing of itself about why the file opens when its copy did, since the copy
that opened is not the copy that was made: its own opening has set rows aside,
rebuilt others and delivered. The strengthening is `Opens`, which says of a store,
before any of that, whether the opening will succeed: its schema is read, a
configuration is there or was or nothing else can be read, and every unfinished
transition that decodes finds its record or its delivery row and has its position
to itself. Every commit of an opening keeps `Opens` both ways (the `...Opens` and
`...Delivers` lemmas; appending is the one where it is not obvious, since what is
a second transition at a position before is an event of another after). A probe at
its last step opens, hence so does its source, and so it stays while it is opened
in place (`OpeningInv`). `Kept` is what a store keeps from one opening to the
next: a pending transition has its record, a bound one its delivery row, positions
are apart and the allocation is above what is there, each only until rows of that
table were set aside; it looks at rows whether they decode or not, so that a
schema change cannot disturb it and a refusal points to a row it made unreadable
(`RefusalInv`, from which `RefusedForCause` follows).
`NeverServed` is the same for the configuration, and is what makes `Unmigrated` a
refusal of stores of the earlier release only. The writes are reduced to what they
change (`...Makes`), then shown to keep `Kept` (`...Sound`), and each action of the
process is one lemma over these.

Only model-checked: the liveness properties (`EveryTransitionDelivered`,
`EveryBuildConcludes`, `EveryTestConcludes`, `EveryRunEnds`), since TLAPS has no
liveness, and the one property of `HorizonInputs`, which the code does not have.

## Not modelled, and the plan

Left out on purpose: command texts, wire formats, digests, evidence of failures,
the panics of failed store writes, 64-bit exhaustion. Not modelled: the TestJobs
actor and its runs; inspection, which only reads; adapters, runtime flow and
clients; queries; the login guard an effect applies to a recovered job; the
container, disko and home variants of an effect that change neither store, roots,
profiles nor loader. `DeployPipeline` leaves open what an effect computes, and
`TargetHost` has the effects without the journal: the two are not composed.

Next, in this order:

1. `TestRuns`: the TestJobs actor, hermetic and live pipelines, container events,
   the identifier of a run; a run left by a crash.
2. A composition of the pipeline and the generation ledger, for the repair of a
   self-switch whose root was retired, and the queries of a reader.
