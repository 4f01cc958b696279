# vq in TLA+

A verification development for `vq`, the cross-machine job queue in
`src/src/vq/`. It holds TLA+ modules of the parts where concurrency, crashes,
lost messages and several writers of one file decide whether a job is run once,
recorded truthfully and given back; TLC configurations that check them on small
instances; and theorems that TLAPS checks for every instance.

Line numbers are those of `src/src/vq/`. `PROJECT.json` maps every definition to
the lines it translates.

## 1. The system

A host runs one **daemon** (`daemon.py`, a single-threaded main loop with worker
threads for polls). A job is a directory (its workspace) and a **JobSpec** file,
the only authoritative record. The daemon, the CLI verbs (each a process of its
own) and the job's own processes meet in that file, in the workspace's
`_vq/exit-code` marker, and in the process table. Every read-modify-write of a
spec holds `paths.spec_lock` (an `flock`) and ends in an atomic replace.

Around that core: jobs are submitted under **idempotency keys**; a **fleet
broker** holds jobs and sends them to hosts; a **gateway** relays jobs of web
clients to a broker through an outbound connector; a daemon drives **batch
schedulers** on clusters; **updates** stop jobs, replace code and start again; a
**fleet rollout** runs such updates over several hosts; **drains** hold dispatch
back meanwhile; **runtime generations** are built, activated, retained, reserved
and migrated.

| Part | State | What is hard about it | Module |
|---|---|---|---|
| Local life cycle (`daemon.py`, `kill.py`, `pause_resume.py`, `resource_receipt.py`) | spec, process groups, exit marker, daemon memory | kills in the dispatch window, crashes around `Popen`, wrappers that die alone, commands that ignore SIGTERM | `LocalJob` |
| Pauses under memory pressure (`watchdog.py`, `daemon.py`) | pause tag in the spec, watchdog memory | memory lost with the daemon, an operator who pauses too | `HostPressure` |
| Keyed submission (`submit.py`) | specs, claims, fences, key locks | a crash between spec and claim | `OneShotKey`, `KeyedSubmit` |
| Broker (`broker_*.py`) | records with revisions, target evidence | an uncertain transfer, cancel against send, old capacity figures | `Broker` |
| Gateway relay (`gateway/relay.py`, `connector.py`) | relay records with epochs and leases, journal | expired leases, late acknowledgements, a restarted connector | `GatewayRelay` |
| Scheduler backend (`scheduler_*.py`, `daemon.py`) | submit binding, start fence, markers, allocations | the lost answer of `qsub`, late starts, reattach | `SchedulerJob` |
| Update of a host (`admin.py`) | marker with receipt, pause scope, virtualenv | death at every step of a swap | `AdminUpdate` |
| Fleet rollout (`fleet_rollout.py`, `fleet_operation.py`) | operation receipts, journals, holds | processes that outlive their controller | `FleetRollout` |
| Drain (`drain.py`, `cli.py`) | `drain.json`, lease store | requests handled after their client gave up | `SchedulerDrain` |
| Runtime store (`runtime_slots.py`, `runtime_retention.py`) | generations, `current`, `previous` | a crash between two renames; removal of what is in use | `RuntimeSlots` |
| Migration, retirement (`runtime_migration.py`, `checkout_retirement.py`) | bindings, receipt journal | rollback after updates and edits | `RuntimeMigration` |
| Participants (`runtime_participant.py`) | lanes, leases, transaction | lost, late and repeated calls | `ParticipantMigration` |
| Managed generations (`runtime_admission.py`) | reservations at a provider | cleanup against a submitter whose answer was lost | `GenerationAdmission` |

Parts without a module are listed, with the reason, in `PROJECT.json`.

## 2. Modules

Every module gives a component's durable files and its processes' memory as
variables, one action per handler or lock hold, and its properties at the end.
`MCx` modules instantiate them for TLC, `xProofs` hold theorems.

A handler is one step where the code reads and writes under one lock. It is
several where the code reads before it locks, acts after it unlocks, waits for an
answer, or can die between two file operations.

**LocalJob.** `state`, `pgid`, `intent`, `retries`, `cwd` are the JobSpec;
`marker` the workspace's exit marker; `members`, `stopped`, `launches`, `exits`
the process table and the history of exits; `running`, `orphans`, `survivors`,
`term`, `watch`, `aborted` the daemon's memory; `step`, `todo`, `at` its place in
`iterate`. The startup walk reads a row, then locks it; the watchdog forms a
verdict, writes the label, signals; `_start_job` prepares, claims, launches,
records the group; `pause_job` writes its intent, stops the group, writes
SUSPENDED, and may die in between. `record_finish` is the whole of
`_record_finish`: stranded group, label or retry, survivor, scratch. The daemon can
be killed in every state and the host can reboot. Free choices: what a SIGTERM
kills, exit codes, when a deadline passes, whether the watchdog finds fault,
whether dispatch holds a job for a reason outside the model.

**HostPressure.** `_host_pressure_pass` with the watchdog's memory, the tag in the
spec, the operator's own pauses, the intent sweep and the reseed at startup.
`adopted` is history: pauses that the sweep finished for a daemon that had died
inside `pause_job`.

**OneShotKey, KeyedSubmit.** `OneShotKey` is what a key promises: open, held by an
unannounced job, taken for ever or fenced for ever. `KeyedSubmit` is `submit_local`
step by step (lookup, scan, spec, claim, withdrawal, repair),
`fence_idempotency_key`, and the daemon's retry and cleanup, which destroy evidence.
The refinement maps a key to the phase that its claim, fence or bound spec gives.

**Broker.** Records with state, target, attempts and cancellation; the pass
(reservation, send, await, settle), replays of uncertain transfers, the operator's
reconcile with its fence, `vq kill` in its three steps; targets that keep
`OneShotKey`'s promise, requests that stay on the wire, and capacity figures that
are published from time to time.

**GatewayRelay.** The gateway's records with claim epochs and leases for submit,
cancel and collect; the connector's `run_once` with its journal; acknowledgements
that arrive late, after the lease or the process that sent them is gone; the
broker seen through what the connector does to it.

**SchedulerJob.** Main loop, poll worker, `submit_once` on the login node, the
start fence, allocations of Slurm and of Torque, `vq kill`, the operator's import.

**AdminUpdate.** `vq admin update` of an ordinary environment, of a background
slot and of the daemon's own: marker, pause scope, receipt phases, recovery,
clearing, and the daemon's reaping of stale markers.

**FleetRollout.** Controller, supervisor, recorder and child of one operation;
journals per report; the drain hold of a scheduler host over both its lanes. The
final verdict asks for the accepted report once; where no release of a hold comes in
between, the answer and the save of the journal are one step, since only local work
lies between them.

**SchedulerDrain.** `drain.json`, the lease store, the RPC backlog, the dispatch
pass that reads one after the other, and the update that takes a lane.

**RuntimeSlots, RuntimeMigration, ParticipantMigration.** Every rename, save and
removal is a step after which the process may die. `RuntimeMigration` extends
`RuntimeSlots`: updates and retention go on during a migration, and an operator
edits the launcher and the registry at any time. The walk over the bindings reads
and compares one (`CompareBinding`) and replaces it by a rename (`ReplaceBinding`)
in two steps, since no lock keeps the operator out between them. In
`ParticipantMigration` the site adapter is external, from the protocol that vq
relies on; an answer leaves a call not begun, at work or done, whatever vq learns of
it. `cmd` is the command that holds the admin ownership and its copy of the journal;
`side` is one that holds only the receipt's lock: a recovery that has read the
journal and not yet taken the ownership, one that records an applied transaction
again, an acknowledgement. `apply` does not take that lock, so the two overlap.

**GenerationAdmission.** Reserve, publish, commit, check before dispatch, release,
and the provider's cleanup under the same lock. The provider is external.

## 3. Runs

| Run | Instance | Properties |
|---|---|---|
| `local_job` | 1 job, 1 retry, 2 launches, 2 outages, fair | `OneAttempt`, `NoFrozenCommand`, `OutcomeIsTrue`, `TerminalIsFinal`, `NothingLingers` |
| `reservations` | three instances: 2 keys and 1 generation; 2 jobs and 1 slot; a job and its sibling over an outage | `AdmittedIsKept`, `Capacity`, `OneJobPerWorkspace` |
| `host_pressure` | 2 jobs, 1 crash, fair | `HeldIsRemembered`, `HoldEnds` |
| `keyed_submit` | 2 keys, ids, intents and clients, symmetric | `ReceiptMatchesIntent`, `KeepsPromise` (refinement of `OneShotKey`) |
| `broker` | 2 jobs, 1 target with 1 slot, 1 kill, 1 fault, fair | `RecordTellsWhere`, `StoppedStaysStopped`, `NoOverCommit`, `NothingStranded` |
| `gateway_relay` | 1 job, 2 chunks, 2 collections, 2 faults, fair | `AnswersAreTrue`, `ResultsAreWhole`, `EverythingSettles` |
| `scheduler_job` | 1 job, 1 retry, both dialects, 2 faults, fair | `LabelIsTrue`, `RetriedOnlyAfterEnd`, `KilledStops`, `NothingForgotten` |
| `admin_update` | 2 jobs, 3 kinds of environment, 2 updates, 2 faults, fair | `StoppedIsOwned`, `ReceiptTellsVersion`, `QuiescentBuild`, `MarkerEnds` |
| `fleet_rollout` | 2 reports, 3 attempts, 2 faults, fair | `LaunchedOnce`, `GroupIsHeld`, `OpenedAfterProof`, `CompleteIsTrue`, `Converges` |
| `scheduler_drain` | 1 cluster, 2 jobs, 2 commands, 1 fault | `HeldGetsNothing`, `NoLaneLeaks` |
| `runtime` | three instances: store with jobs; store with a migration; 2 participants | `RuntimeStaysWhole`, `StoreIsSound`, `BindingsAreBacked`, `OperatorEditIsKept`, `FinishedIsTrue`, `LeaseCoversUnverified` |
| `fenced_completes` | 1 Slurm job | violates `CompletedRan`: section 5 |

**Bounds.** Per-job properties of the local life cycle need one job, since no step
reads another job's spec; those about slots and workspaces have two. `MaxLaunches`
is `RetryMax + 1`, all the launches a correct daemon makes. Two outages give a
crash, a walk, and a crash in the walk or in the life that follows. `MCLocalJob`
has a job with `recover_on_reboot` and no second id: the sibling's write then fails
and is only logged, so the order of walk and resume is covered, and `MCReservations`
has the id; one outage is enough there for a resume, and the theorem
`WorkspacesAreExclusive` covers any number. A fault is a lost or late message, a
failed step or a death; one or two give a fault in a step and one in its recovery.
Two keys, reports, participants or generations are the fewest that can be confused
with each other. Symmetry is used for clients, keys and interchangeable jobs only,
never with liveness.

**Liveness.** "What has begun ends" is written `[]<>` of it having ended, wherever it
is left only by what ends it. `P ~> Q` says the same there, and costs TLC a tableau
of its own for each.

**Deadlock** is checked where a loop has no end (`local_job`, `host_pressure`,
`keyed_submit`, `broker`). The others may really stop, once the commands,
faults or attempts that bound them are used up or all work is settled.

**Fairness.** In every module: a process that runs goes on until it ends or dies;
nothing is assumed of commands, operators or faults. `LocalJob` and `HostPressure`
take the daemon's steps to be strongly fair, because it waits for a spec lock in a
blocking `flock` (`paths.py` 1172-1250) that serves it between two holders. `Broker`
adds that a request that is waited for is handled, and that a transfer in doubt is
not for ever too recent, or without evidence, whenever a pass looks. `GatewayRelay`
adds that leases run out and an awaited acknowledgement arrives or is given up.
`SchedulerJob` adds that the supervisor restarts the daemon and the cluster goes on.
`AdminUpdate` and `FleetRollout` take the verbs to be repeated: `recover-update`
after a death, `rollout-latest` by its timer.

## 4. Proofs

Every theorem is of the form `Spec => ...` for the module's own specification
(`PressureSpec`, `SlotsSpec` and `DrainSpec` where several are brought together), so it holds for
every value of the constants. `OutcomesAreTrue` alone has a hypothesis,
`Recover = {}`: no job is resumed in the workspace of another. With
`recover_on_reboot` a job can read the marker of a sibling (`MCRecovery`). The
assumptions are the `ASSUME`s of the component's module and nothing else: sets of
jobs, keys, generations or clients are arbitrary, bounds are natural numbers, and the
values that stand for "none" are not members of the set they are not in. `Broker`
also takes its jobs to be a finite set of positive numbers. The specifications are
used without their fairness.

| Module | Theorem | Property |
|---|---|---|
| `LocalJobProofs` | `TypeCorrect`, `AttemptsNeverOverlap`, `LabelsAreFinal`, `WorkspacesAreExclusive` | `TypeOK`, `OneAttempt`, `TerminalIsFinal`, `OneJobPerWorkspace` |
| `LocalJobHostProofs` | `NoCommandIsForgotten`, `OutcomesAreTrue`, `HostWithinCapacity` | `NoFrozenCommand`, `OutcomeIsTrue`, `Capacity` |
| `BrokerProofs` | `RecordsAreTrue`, `KilledIsStopped`, `TargetsHaveRoom` | `RecordTellsWhere`, `StoppedStaysStopped`, `NoOverCommit` |
| `HostServiceProofs` | `WatchdogRemembers` (`HostPressure`), `AdmittedGenerationIsKept` (`GenerationAdmission`), `StoreStaysSound` and `RunningKeepsRuntime` (`RuntimeSlots`) | `HeldIsRemembered`, `AdmittedIsKept`, `StoreIsSound`, `RuntimeStaysWhole` |
| `SubmitDrainProofs` | `ReceiptsMatch` and `HostKeepsPromise` (`KeyedSubmit`), `HeldTargetsGetNothing` and `LanesAreReturned` (`SchedulerDrain`) | `ReceiptMatchesIntent`, `KeepsPromise` (refinement), `HeldGetsNothing`, `NoLaneLeaks` |
| `GatewayRelayProofs` | `AnswersStayTrue`, `ResultsStayWhole` | `AnswersAreTrue`, `ResultsAreWhole` |
| `FleetRolloutProofs` | `ActionsRunOnce` | `LaunchedOnce` |
| `FleetRolloutHoldProofs` | `HostStaysDrained` | `GroupIsHeld` |

None of the properties is inductive: each speaks of an end that was prepared steps
before, by another process or another life of the same one. The invariants say what
a process may still take for granted when it uses what it read. TLC checked each of
them on the instance of its run before it was proved.

**LocalJob.** `OneAttempt` does not say why a retry finds the host clear.
`AttemptInv` does, per job. `Processes(j)`: only the last launch has processes, and
a wrapper that reports an exit code has waited for its command, so a zombie with an
exit code is alone. `Record(j)`: a recorded group is the last launch; a job that is
PENDING, or in a dispatch before the launch, has no process; a pauser owns a RUNNING
row; each stage and pass goes with the daemon memory it works on. The crux is
`record_finish`: a retry makes the job PENDING, so nothing of the group may be left.
Either the status is nonzero with the command waited for (`ReapIsAlone`), or it is a
signal, and then `Stranded` holds and the group was killed. Finality is a separate
per-action argument (`NextKeeps`) from the same invariant: there a pauser's SUSPENDED
is shown to replace RUNNING and never a label.

The others build on `AttemptInv`, one invariant each. *Workspaces*: a directory is
occupied not only by a job without a label but also by one that the startup walk has
read, or has put on its list, and that `_auto_resume` has still to replace
(`Occupies`); `_auto_resume` replaces only labelled jobs. *Pauses*: a stopped command
belongs to the recorded group and somebody owes it a signal (`Excused`): the record
says SUSPENDED, an intent names the group, or the job has a terminal label and the
watchdog's signal or the next walk is still to come. *Outcomes* (`Truth`): a collected
exit code and a marker are those of the wrapper of the last launch, a claimed job has
no marker, and an aborted one has no process left that could write one. *Capacity*:
the jobs on the host are those the daemon charges for, and one being launched; a
dispatch that has begun has a free slot, because the daemon is at one row at a time
(`Slots`), and after a crash the walk has found every job on the host before the first
pass dispatches (`Slot`).

**Broker.** A pass acts on a job it chose earlier and a kill decides on a record it
read earlier. `PassHolds` keeps the choice: what is being sent is in transfer, what
is replayed was in transfer and still is, an answer "fenced" means that the target
has the fence. `KillHolds` bounds how old the kill's copy may be: placed stays
placed, and a cancelled job that was not sent will not be. `StoppedIsSettled` is why
a job called stopped cannot arrive later.
`NoOverCommit` counts jobs, and placement counts them from sources of different ages:
charges, and figures that a target published some time ago. `Room` says why none is
missing in the sum. What a target runs and what is charged to it fit its slots
together (`Promised`); figures count placed jobs only, and use a slot for each that
has not ended (`Backed`); a charge is settled only once the figures count its job
(`Covers`), and the figures of a pass count no more than those published since.

**GenerationAdmission.** A job that may still use its generation has an unreleased
reservation of it (`JobsAreReserved`), what such a reservation names is there and is
not being removed (`RowsProtect`), a submission between its reservation and its spec
already has one (`PublishIsReserved`), and the provider's proof of termination is
sound because the claim is written before the batch job (`ClaimPrecedesBatch`).

**HostPressure.** A pause writes the tag that its intent carries, some steps after
the verdict. Whoever is inside `pause_job` armed the intent that stands
(`IntentIsThePausers`), and the daemon pauses only in its pause pass and only what it
remembered before (`PausesAreRemembered`).

**RuntimeSlots.** `StoreInv` has, for the process that holds the lock, what it has made
of its generation at each of its steps (`Built`), for every generation what any death
leaves of it (`Generation`: not yet sealed, it carries the receipt of its build), and
that the pointers name whole generations no retention is removing (`Pointers`).
`Holds` adds the jobs: the generation that one is pinned to, or runs from, is whole
and not among those a retention has doomed, except for the jobs in `raced`.

**KeyedSubmit.** No two specs are bound to one key (`SpecsAreBound`), those bound to
a claimed key are the claimed job's and a fenced key has none (`RecordsHold`), the
holder of a key's lock finds the key as its lookup left it (`CallsHold`), and what
was said of a key stays what its record says (`AnswersHold`). The refinement of
`OneShotKey` is then a step or a stutter for every action.

**SchedulerDrain.** A pass decides on files it read some steps ago. `CoverInv` ties
what was held throughout to what has been read: at the second read a target is held
by the copy of `drain.json`, or by a lease that is there now; a hold that goes from
`drain.json` to a lease is therefore in one of the two, in this order of reads only.
`LaneInv` follows the update's requests through a backlog that outlives the wait for
them. An update that took no lane has no request for one on its way; it waits for at
most one request; and when that one is the release, no request for the lane is behind
it. So an answered release is the last word, and an unanswered one is reported.

**GatewayRelay.** An acknowledgement may be arbitrarily late. `WireIsTrue` says what
each one still knows of the broker; `OneAcknowledgement` and `SubmitsAreClaimed` say
that a claimed submission has one answer and that none is out for a claim that a
refusal has settled; `RecordsAreTrue` follows from these in every step that applies
one.

**FleetRollout.** `Base` has the types and three agreements: the receipts of an
operation are written in order and its action runs only after its activation is
recorded (`ReceiptsAgree`); the recorder, once it has written the activation, is the
only one who may write the result, which is why an operation cannot be aborted and
executed (`ProcessesAgree`); the controller aborts only what was not authorized to
run (`ControllerAgrees`). `ActionsRunOnce` follows. `DrainInv` builds on `Base`. The
drain must outlive the controller, so the lease is tied to durable facts: an
operation authorized under a hold has its lease until it has a result, it is
journaled, and a lease is owned by an unsettled hold (`Stored`). The release needs
the converse: a controller past its reconciliation has left no authorized operation
behind except the one in hand (`Followed`), and in the finally clause, where that is
not so, `HostUnsettled` finds every such operation because it is journaled
(`CleansDrain`). `InStep` carries the lease from its confirmation to the
authorization. Every step has a lemma; the facts about what each step writes to the
journals are stated once and used by both modules.

**Only model-checked.** All liveness (`NothingLingers`, `HoldEnds`,
`NothingStranded`, `EverythingSettles`, `KilledStops`, `NothingForgotten`,
`MarkerEnds`, `Converges`): fairness and ENABLED are outside the
prover's reach. Among the safety properties: `LabelIsTrue` and
`RetriedOnlyAfterEnd`; the safety properties of `AdminUpdate`; `OpenedAfterProof` and
`CompleteIsTrue`, whose invariants TLC confirms but whose proofs are not written;
`BindingsAreBacked`, `FinishedIsTrue`,
`LeaseCoversUnverified` and `OperatorEditIsKept` of the `runtime` run. `Capacity` and
`OneJobPerWorkspace` are proved of `LocalJob`; the run checks them of the two
instances in `MCReservations`. There is no recursive definition in
the project, so nothing is left to TLC for want of induction over data.

## 5. Where the code and what is said of it disagree

`fenced_completes` is a run of its own: a start that the fence refuses leaves the
batch script with `exit 0` and no exit marker, Slurm's accounting reports COMPLETED
with 0, and the daemon records COMPLETED for a command that never ran
(`scheduler_start_fence.py` 291-292), where `docs/campaigns.md` 324 takes "a
completion with exit code 0" as proof.

The following configurations are kept beside the runs. TLC finds a counterexample
in each; the module to give it is in the second column. Where one has two properties
TLC stops at the first that it meets; leave that one out to see the other.

| Configuration | Module | What is said | What the code does |
|---|---|---|---|
| `MCIntentKept` | `MCLocalJob` | every durable pause intent is finished (`pause_resume.py` 554) | `_maybe_retry` clears the group and keeps the intent; the sweep then reports a mismatch on every tick and `pause_job` refuses the job |
| `MCScratch`: `CleanedAfterExit` | `MCLocalJob` | scratch is removed only after the group exits (`daemon.py` 3854) | `_record_finish` cleans when the wrapper is reaped, with the command alive as a survivor |
| `MCScratch`: `GoneOrphanIsCleaned` | `MCLocalJob` | killed orphans are cleaned once gone (`daemon.py` 4272) | without a marker a terminal orphan is dropped with no cleanup |
| `MCRecovery`: `OnlyAbortedResumes` | `MCLocalJob` | only what the walk aborted is resumed (`daemon.py` 3402) | the list is appended to even if the lock showed another label |
| `MCRecovery`: `MarkerIsOwn` | `MCLocalJob` | a marker is from this dispatch (`daemon.py` 7621) | with `recover_on_reboot`, a crash in the Popen window leaves a process that writes the sibling's marker |
| `MCStrandedHold` | `MCHostPressure` | tagged jobs are resumed after a restart (`daemon.py` 5346) | an intent completed after the reseed is remembered by nobody |
| `MCOperatorPause` | `MCHostPressure` | operator pauses stay (`watchdog.py` 261) | the resume pass has no owner filter |
| `MCRefusedRan` | `MCGatewayRelay` | a refused job counts as never delivered | the configuration is asked before the key is looked up, so a job that was accepted and whose acknowledgement was lost can be refused on redelivery (`gateway/connector.py` 180) |
| `MCStaleCode` | `MCSchedulerJob` | the code in the row is the attempt's own | a retry whose marker is missing is judged by the one fetched for the attempt before (`daemon.py` 10378) |
| `MCPressureWakes` | `MCAdminUpdate` | the rebuild does not race a running job (`admin.py`) | the host-pressure pass resumes jobs an update has paused (`daemon.py` 5465) |
| `MCStaleDrain`: `SnapshotIsCoherent` | `MCSchedulerDrain` | a "coherent legacy/lease snapshot" (`drain.py`) | a hold that moves from a lease to `drain.json` between the two reads is seen in neither |
| `MCStaleDrain`: `NothingRunsMeanwhile` | `MCSchedulerDrain` | the lane stops new work for the duration (`admin.py`) | a pass submits on the drain and marker it read at its start (`daemon.py` 8566) |
| `MCParticipantGaps`: `RolledBackIsOld` | `MCRuntime` | a lost answer is an unknown outcome, not "never applied" (`runtime_participant.py` 1063) | an apply answered with "pending" clears `needs_inspect` (898, 903-905), and a rollback then takes it as never applied (1070-1071) |
| `MCParticipantGaps`: `LeaseIsKept` | `MCRuntime` | an applied runtime that is unverified keeps the lease (`runtime_participant.py` 1140) | a release that fails or dies halfway leaves hosts without the lease and a journal that says "held"; a later rollback does not take it again (828-831, 1133) |
| `MCLostEdit` | `MCRuntime` | "recovery will not overwrite it" (`runtime_migration.py` 898); it "refuses to overwrite an edit you made after the apply" (`docs/runtime_slots.md` 266) | the file is read and compared, the staged one is checked, then the rename follows; an edit in between is lost (`runtime_migration.py` 916-927) |
| `MCRacedJob` | `MCRuntime` | every generation a live job references is kept (`runtime_retention.py` 15) | a job that has chosen its generation and not recorded it is in no census; an update and a retention can remove it before the command starts |
| `MCStuckReceipt` | `MCRuntime` | "finish or roll it back first" (`checkout_retirement.py`) | a receipt left in "initializing" can be neither finished nor rolled back |

The properties of section 3 exempt exactly these cases, each in its own comment:
`NothingLingers` excuses an intent whose group a retry took off the record,
`HeldIsRemembered` and `HoldEnds` the `adopted` pauses, `QuiescentBuild` a resume by
another actor, `HeldGetsNothing` the hold that moves the other way, `MarkerEnds` a
`Wedged` update, `Converges` an unknown outcome or a stranded hold,
`RuntimeStaysWhole` the jobs in `raced`, `OperatorEditIsKept` the edit that falls
between the comparison of a file and its rename. The variable `gaps` of
`ParticipantMigration` records what `FinishedIsTrue` and `LeaseCoversUnverified`
exempt: a command that saved, or went on from, a copy of the journal that another had
saved since (`stale`), a rollback that met a pending apply (`pending`), a release of
the leases that was cut off (`release`, the second property only), and authorities
that recorded what the journal does not tell of (`record`, the first property's last
clause only).

Three properties do not speak of a neighbouring case in this table. `OneJobPerWorkspace`
sees a live job that is resubmitted, not a killed one that is resumed (`MCRecovery`);
`AnswersAreTrue` is about accepted and cancelled jobs, not about refused ones
(`MCRefusedRan`); `LabelIsTrue` is about the end of the allocation, not about the
attempt that the code was fetched for (`MCStaleCode`).

## 6. Not modelled

- **Local life cycle**: cgroup scopes, children left in the background, recycled
  group ids and the start-time fingerprint, refused signals and multi-user mode,
  unreadable specs, reruns and dependencies, CPU, memory and GPU budgets (one slot
  count stands for them), a `vq kill` that dies between signal and write, the cache
  of settled rows, a retry refused because a claim cannot be repaired.
- **Scheduler job**: `LateWrapper` is FALSE in the runs: with a wrapper that writes
  its receipt after its job ended, the id in the row can be another attempt's.
- **Admin update**: an `fsync` that fails after its rename, the daemon's memory of
  pressure-held jobs, a kill in the launch window, the managed path of immutable
  slots (`runtime_daemon.py`), `update_all`, the quarantine of orphan markers.
- **Fleet rollout**: legacy hold migration, full holds of local hosts, advance of
  the tracked head, `--abandon-host`, host scoping, several targets per host.
- **Drain**: release of an owned full drain, status and other read-only snapshots;
  two `vq drain --scheduler-host` commands share the owner "operator".
- **Runtime**: torn writes of a marker, virtualenv rebinding mismatches,
  `rollback()` and `reclaim()` (nothing calls them), `run_scheduled`, the exemption
  of remote schedulers, the service census, gaps between submission and launcher,
  `_independent_runtime_work`; in migration, the compare and the rename of a binding
  are one step, and remote registry authorities and rebind are left out.
- **Everything else** (command line, web, reports, transport, configuration,
  containers, campaigns, placement policy, estimates) is in `PROJECT.json` with its
  reason.

## 7. Plan

1. **Proofs**: the remaining safety properties of section 3 that section 4 lists as
   model-checked only.
2. **Campaign controller and managed containers**: journals with uncertain submits,
   a module each.
3. **Dispatch order and dependencies** over several jobs; the settled-row cache.
4. **Algorithms**: retry and build backoff, effective drain caps, capacity debits,
   against reference definitions on bounded inputs.
