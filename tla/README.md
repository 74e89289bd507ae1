# A verification of agent-session-harness

`agent-session-harness` keeps a long-lived coding agent alive by rotating its
runtime: when the context of a session fills up, a supervisor checkpoints it,
ends it, and hands its task to a fresh successor that must acknowledge the
capsule before it gets its first prompt. This directory models that program in
TLA+, checks the models with TLC and proves theorems about them with TLAPS.

Paths below are those of the repository; `src/agent_session_harness/` is left
out of module paths.

## 1. Inventory

### Parts of the rotation, which run concurrently

| Part | State it keeps | Operations | Talks to |
| --- | --- | --- | --- |
| Supervisor (`supervisor.py`) | the durable `SupervisorSnapshot` (state file), in memory the effect just made | `start`, `tick` (`_advance_rotation`, `_acknowledge_unlocked`, `_retry_successor_unlocked`, `_complete_clean_exit`), `shutdown` | all of the below |
| `supervise` command (`cli.py`) | the loop | tick until stopped, then `shutdown` on every way out | supervisor |
| Coordinator adapter (`coordinator.py`) | none; the external store has claim, owner, lease epoch, expiry | `claim`, `heartbeat`, `fence` | `agent_coordinator` |
| Process driver (`process.py`) | launch intent, process registry, exit records | `start_fresh`, `graceful_stop`, `is_alive`, `exit_status`, `clear_exit_status` | guardians |
| Guardian (`guardian.py`), one per runtime | the child, the registry record | register, watch loop, terminate on request, exit record | state file, abort request |
| Hook command (`hooks/command.py`), run by the runtime | `.ack`, abort request, stop marker, ledger events | SessionStart, Stop, UserPromptSubmit, compaction | state file |
| Checkpoint manager (`checkpoint.py`) and mirror outbox (`outbox.py`) | none; queue and dead letters | `checkpoint`, `acknowledge`; `enqueue`, `replay` | store adapters |
| Ledger and activity (`ledger.py`, `activity.py`, `events.py`) | append-only events, cached fold | `append`, `materialize` | hooks write, supervisor reads |
| Governor (`governor.py`) | none | a pure transition function over drain phases | |

### Parts beside it

| Part | State | What makes it correct |
| --- | --- | --- |
| Daemon supervisor and controller (`daemon_*.py`) | lifecycle record, owned child | what runs is what the record names, only its owner signals it, a failed restart restores the old definition |
| Resource guardian (`resource_guardian.py`, `guardian_service.py`, `guardian_executor.py`, `guardian_singleton.py`, `resource_registry.py`) | singleton lease, registrations with incarnations | only the current guardian and registration authorise a cleanup, and only of what is dead |
| Guardian bake (`guardian_bake_*.py`, `adapters/guardian_bake_linear.py`) | a bounded spool, comments of an issue | no evidence is lost, none is posted twice |
| Context advisory (`context_advisory*.py`) | a ledger that the sessions of a project share | each tier is told once when it is crossed |
| Finalization latch (`finalization.py`) | one record | finalised once, over no unacknowledged block |
| Installation, report, configuration, parsers of usage | manifests, values | formatting and input/output; not modelled |

### What is hard here

* Every external effect is followed by a write of the snapshot; the process can
  die, be interrupted or get an exception between the two, and the next
  invocation continues from the durable phase.
* Five kinds of process touch the same chain without a common lock: supervisor,
  guardian, runtime, hook, another session that wants the task.
* The lease expires by time, whatever the supervisor is doing. Since BOU-2389
  the guardian does not end a runtime because its supervisor is slow or dead.
* `shutdown` decides from the phase whether a live runtime is the user's session
  (detach) or not (stop), and overwrites that phase.
* The acknowledgement deadline, the hook's own time-out and the ticks race.
* A replay of the outbox runs its mirrors without the queue's lock, while the
  supervisor, an operator's command and the checkpoint manager share the files.
* A daemon outlives its controller; another controller finds its record, may not
  reap it, and must not signal what is not its own.
* A cleanup is proposed, proved and authorised in steps; the lease, the
  registration and the process may each change between any two.

`PROJECT.json` lists each hazard with its line and the properties that cover it.

## 2. Modules

| Module | What it is |
| --- | --- |
| `Supervisor.tla` | the rotation: supervisor, command loop, guardians, runtimes, SessionStart hooks, coordinator, rival session |
| `Handoff.tla` | the abstract specification: one seat handed over |
| `Drain.tla` | what leads to a rotation: runtime and hooks, ledger, usage samples, self-compaction, consent, gates |
| `Outbox.tla` | checkpoint manager's mirrors, queue, two replay workers, dead letters |
| `Mailbox.tla` | the abstract specification of the outbox: what is accepted waits until delivered or refused |
| `Daemon.tla` | daemon supervisors under two controllers, the child processes, definition drift |
| `ResourceGuardian.tla` | the singleton's lease, the registry, the pass of the service, the executor |
| `BakeSpool.tla` | the evidence of a guardian bake: spool, eviction, drain |
| `Advisory.tla` | the context advisory hook and its shared ledger |
| `Finalization.tla` | the finalization latch |
| `MCOutbox.tla`, `MCDaemon.tla` | instances for TLC |
| `MCHost.tla` | the last four modules in one instance: they share no state, so a behaviour is one of one of them, chosen at the start |
| `MCSupervisor.tla` | instances for TLC, and four statements of the repository that the code does not keep |
| `MCDrain.tla` | two more statements that the code does not keep |
| `SupervisorProofs.tla` | theorems about `Supervisor` for every value of the constants |
| `DrainProofs.tla`, `OutboxProofs.tla`, `DaemonProofs.tla`, `ResourceGuardianProofs.tla`, `BakeSpoolProofs.tla`, `AdvisoryProofs.tla` | theorems about these six, each for every value of its constants |
| `HostProofs.tla` | what they say of the four host modules together (`MCHost`), and the theorems about `Finalization` |

### `Supervisor`: state

| Variable | In the code |
| --- | --- |
| `snapshot` | `SupervisorSnapshot`: `phase`, `generation`, `attempt` (`successor_attempt`), `conversation` (named by the runtime that holds it), `claim` (its lease epoch), `process`, `overdue` (the passing of `successor_ack_deadline_at`), `fingerprint`, `alarm` (`supervision_alarm`) |
| `ack` | the `.ack` file, by the runtime that wrote it |
| `pc` | where the supervisor process is between two effects or writes; `"down"` without one |
| `held` | what it has in memory only: a process or claim not persisted, a checkpoint receipt, `_successor_abort_pending`, the local `adopted` |
| `task` | the coordinator's record; its age is fresh, due for a heartbeat, or expired |
| `live`, `registered`, `clean`, `serial` | runtimes under a guardian, registry records, clean exit records, launches so far |
| `waiting`, `dispatched`, `aborting` | SessionStart hooks: waiting for the durable RUNNING, returned, abort requested |
| `stored`, `accepted` | capsule held, and acknowledged, by the required stores |
| `sessions`, `faults` | history: live runtimes that became the user's session and that no rotation has begun to end; faults so far |

### `Supervisor`: actions

An action is one read-modify-write of the snapshot or one external effect, so
that `Crash`, `Unwind` (an exception or a signal out of the working code) and
every step of another process can fall between any two of them.

| Code | Actions |
| --- | --- |
| `Supervisor.__init__`, `start` | `Boot`, `StartTerminal`, `ClaimRoot`, `SaveRootClaim`, `Resume` |
| launch in `start` and in `_advance_rotation` | `Launch`, `LaunchFails`, `SaveLaunch`, `HeartbeatAfterLaunch` |
| head of `tick` | `TickBegin`, `TickEnsureLive`, `TickHeartbeat` |
| `_complete_clean_exit` | `FenceExited`, `SaveCompleted`, `FinalizeCompleted` |
| usage and drain in `tick` | `Observe` |
| acknowledgement | `AwaitAck`, `AcknowledgeStores`, `SaveAcknowledged`, `ClearAck` |
| `_retry_successor_unlocked` | `StopFailedSuccessor`, `SaveRetry` |
| `_advance_rotation` | `ResumeRotation` and the actions of `Rotate` |
| `shutdown` | `ShutdownBegin`, `ShutdownRuntime`, `ShutdownFence`, `SaveShutdown` |
| `cli.py` loop | `LoopEnds`, `Unwind`, the order of `Supervise` |
| guardian, runtime | `Register`, `GuardianKill`, `RuntimeExit` |
| SessionStart hook | `HookStart`, `HookAwait`, `HookLingers` |
| clock, another session | `AckDeadline`, `Elapse`, `RivalClaim`, `RivalRelease` |

Two parts of the data are abstracted. The decision to warn, drain and rotate is
reduced to the phases it can lead to (`Observed`); a launch is one step with the
outcomes that intent file, registry and startup time-out leave to its caller. The
coordinator, the operating system and the other session are outside the
repository; they are modelled from what the adapter calls and expects.

### `Handoff` and the refinement

`Handoff` knows no process, file or lease: a chain is open, serving, saved,
ended, released, granted, offered, halted or done; it saves before it ends, its
runtime is gone before the task is released, it acquires the task only after
releasing it, a runtime sits down only for the generation that acquired, and
halted or done is for good. `Seat` in `Supervisor` maps the durable phase to the
stage (`Stage`: CHECKPOINTED and STOPPING are both "saved", AWAITING_ACK is
"offered"), the coordinator's owner to `holding` and `live` to `runtimes`.
`ImplementsHandoff` is `Seat!Spec`: steps between two writes are stutters.

### `Drain`

`Supervisor` leaves open when a tick warns, drains, gives a drain up or begins to
rotate; `Drain` says when. It leaves the rotation closed: `Rotate` and `Succeed`
are one step each.

| Variable | In the code |
| --- | --- |
| `snapshot` | the fields of `SupervisorSnapshot` that a drain depends on; a remembered identity is its place in the log |
| `marker` | the `.stop-request` file: absent, `requested`, with `idle_emitted` |
| `ledger` | the fold of `EventLedger.materialize`: unbalanced starts by kind over all generations, the requests and compactions of the managed conversation in order, and whether the stable identity of a repeated Stop is among the events |
| `pc`, `activity` | the place in the tick and what `materialize` returned to it |
| `working`, `prompt` | what the runtime is really doing, and a prompt between its hook's check and its event |
| `uncut`, `counted`, `released`, `declined` | history, for the properties only |

| Code | Actions |
| --- | --- |
| hooks | `PromptAllowed`, `TurnStarts`, `Starts`, `Finishes`, `Stop`, `Compact` |
| the command's poll | `Materialize` |
| `tick` | `ObserveUsage`, `ReleaseDrain`, `ClearMarker`, `Gate` |
| `_advance_rotation`, acknowledgement | `Rotate`, `Succeed` |
| clock, operating system | `GraceEnds`, `Crash` |

The hooks take the transition lock only in Stop, so all others fall between any
two steps of the tick. A usage sample may report any level with any confidence
or fail. Age and integrity of the events, liveness of the hooks and the project
probe are free to make the session look restless (`Rests`); only balanced counts
can make it look at rest. The identities of tools are abstracted to a count for
each kind.

### `Outbox` and the refinement

| Variable | In the code |
| --- | --- |
| `queue`, `dead` | `MirrorOutbox.path` and `dead_letter_path`; an entry is its adapter, its request and an identity (`enqueued_at`) |
| `lock` | `exclusive_lock(lock_path)` where it is held over several steps |
| `worker` | the supervisor (mirroring or replaying) and the operator's `outbox replay`: place, batch, outcomes |
| `chain` | of the supervisor's snapshot, what makes requests: generation, capsule, receipt, acknowledgement attempts |
| `holds`, `health` | external: what a mirror's record holds, and whether it answers |
| `issued`, `budget` | history and bounds |

| Code | Actions |
| --- | --- |
| `CheckpointManager.checkpoint`, `acknowledge` | `Checkpoint`, `Acknowledge`, then for each mirror `MirrorNow` and, when it does not confirm, `Enqueue` |
| `replay` | `ReadBatch`; for each entry `Skip`, or `Claim` and `Execute`; `Reconcile`, `AppendLetter`, `Replace` |
| operating system, mirrors | `Crash`, `HealthChanges` |

The verdict of the required stores is a choice here, since `Supervisor` has them.
A mirror that is down may have done its work all the same (a time-out after the
marker was written). `Mailbox` knows letters that were accepted, wait, were
delivered or refused; a letter stops waiting only when delivered or refused, and
never waits again. `ImplementsMailbox` maps `issued`, `queue`, `holds` and `dead`
to them. Two executions of one request at the same time (the manager's own and a
replay's) are atomic, so a marker appended twice is not in the model.

### `Daemon`

| Variable | In the code |
| --- | --- |
| `record` | `DaemonLifecycleRecord`; the process identity is the number of the launch, so a PID is never mistaken |
| `lock` | `OwnerDiagnosticLock` of the daemon, held over the steps of one operation |
| `control` | of each `DaemonControllerServer`: the `DaemonSupervisor` of the key with its definition, child handle and takeover, the one a drift may return to, the place in the operation and what follows it |
| `child` | external: leader, process group and parent of every launch |
| `published`, `spared`, `foreign`, `budget` | history and bounds |

| Code | Actions |
| --- | --- |
| `_dispatch` | `Accept` |
| `start`, `_start_locked` | `Start`, `Spawn`, `Probe`, `Cleanup`, `Undo` |
| `stop`, `restart`, `_stop_locked` | `Stop` (with `StopZombie`, `StopRunning`), `Kill`, `Relaunch` |
| `status` | `Status` |
| lock time-out | `Busy` |
| `_dispatch_definition_drift`, `_restart_definition` | `plan` in `control`, through `Succeeded` and `Failed` |
| `ensure_controller`, `serve`, `_stop_owned_daemons` | `Serve`, `Close`, `Leave` |
| operating system | `Exit`, `GroupEnds`, `Crash` |

`Sees` is `observe_process_identity`: the truth, or unknown. Two controllers on one
record are two sockets over one state directory, or a controller and its successor.

### `ResourceGuardian`, `BakeSpool`, `Advisory`, `Finalization`

| Code | Actions |
| --- | --- |
| `GuardianSingleton` | `Acquire`, `Heartbeat`, `Release`, `Expire`; `Current` and `Proves` are `assert_current` and `current_proof` |
| `ResourceRegistry` | `Register`, `Unregister`, `IsCurrent`, `Resolved`; a registration is its number |
| `GuardianService.run_once` | `RunOnce`, `List`, `Evaluate`, `Recheck`, `Propose` |
| `decide_guardian_action` | `Reasons` over all `Observations` that do not misreport the process |
| `GuardianExecutor.authorize` | `Ask`, `Resolve` |
| `GuardianBakeRuntime.record`, `GuardianBakeSpool` | `Report`, `Acknowledge`, `WindowEnds` |
| `GuardianBakeLinearSink.drain` | `Begin`, `Pick`, `Look`, `Create`, `Verify`, `Acknowledge`, `Fails` |
| `context_advisory_hook.main`, `_reset` | `Call`, `Reset`, then `Truncate`, `Write` or `Unwritten`, `Tell`; `Killed` |
| `FinalizationStore` | `Begin`, `RecordBlock`, `AcknowledgeBlock`, `Mark`, `Finalize` |

A lease past its time counts until the coordinator finds it expired. An
observation may say anything but a falsehood about the process: that trust is
what `ReapsOnlyTheDead` rests on, together with the incarnation of the
registration, which is all that tells a resource from its successor.

## 3. Runs

Those of the supervisor explore an unbounded number of restarts, a rival, hooks that answer
late or never and leases that run out at any moment. Bounds: `RetryLimit`,
`MaxGeneration` (rotations that may begin), `MaxFaults` (crashes, raises, failed
effects), `MaxEpoch` (epochs the rival may claim).

| Run | Bounds | Shows |
| --- | --- | --- |
| `supervisor_safety` | 1 retry, 2 rotations, 2 faults, epoch 2; about 1.4 million states | the type invariant, 4 invariants, 6 action properties and the refinement |
| `supervisor_liveness` | 1 retry, 1 rotation, 1 fault; about 90,000 states | `HandoffSettles`, `AbortedEnds` under `FairSpec` |
| `supervisor_reclaim` | no fault | violated, finding 1 |
| `supervisor_interrupt` | no fault | violated, finding 2 |
| `supervisor_detach` | 2 faults | violated, finding 3 |
| `supervisor_abort` | no fault | violated, finding 4 |
| `drain_safety` | tolerance 2, 2 compactions a generation, 1 unbalanced start of each kind; about 2.8 million states | the type invariant, 1 invariant and 4 action properties |
| `drain_latch` | the same | violated, finding 5 |
| `drain_wall` | the same | violated, finding 6 |
| `outbox_safety` | 2 mirrors, 2 generations, 2 capsules, 4 entries, files of 2 entries, 1 command, 1 crash, 1 outage; about 390,000 states | the type invariant, 3 invariants, the refinement, `QueueDrains` |
| `daemon_safety` | 2 controllers, 2 definitions, 3 launches, 3 requests, 1 fault; about 2.2 million states | the type invariant, 5 invariants and an action property |
| `host_safety` | 2 guardians, 2 keys, 2 registrations, 2 claims, 1 proposal; a spool of 2, 3 contents, 5 reports; 2 sessions, 2 hooks, 3 calls; 2 blocks; about 1.1 million states | the types, 5 invariants and an action property |

Why these bounds: a second rotation is the first one whose predecessor is itself
a successor (its conversation came from an acknowledgement, its claim from a
rotation), and nothing in the code looks further back than one generation. One
retry separates the first attempt, the last attempt and exhaustion. Two faults
give a fault during the recovery from a fault, which is what the crash-recovery
hazards and finding 3 need. Epoch 2 lets the rival take the task from the root
and from a successor. Runtimes are numbered by the launch that made them, so
there is nothing to reduce by symmetry. Deadlock is checked: `Boot` and the ticks
never run out.

In `Drain`, two compactions in a generation are one that is consumed and one that
must still count; a tolerance of 2 tells a streak that has begun from one that
has reached it; one unbalanced start of each kind is enough for a tool to outlive
its turn under a subagent and for a denied one to be reaped. Generations and
crashes are not bounded. `StableTurn` is TRUE, the runtime whose turns share an
identity; FALSE has fewer behaviours of `Stop`.

In `Outbox`, two generations give a request of each kind behind one of the other,
and one key queued again with another capsule; four entries over files of two fill
both; `Stripe` lets an entry share its claim lock with another. One mirror is served
by the supervisor only. `DeadLetteredOnce` allows a second letter for each crash,
which the code does leave. `CHECK_DEADLOCK FALSE`: once the bounds are used up and
the queue is empty, a replay changes nothing.

In `Daemon`, three launches are a child, its replacement under another definition,
and the roll-back; failing launches and publications are free, and the one fault is
a crash, an unknown identity or a group that survives its kill. Controllers and
definitions are interchangeable, and nothing is checked under fairness: `Alike` is a
sound symmetry. In `MCHost` guardians and keys are interchangeable in the same way
(its properties are invariants and one about single steps). One sink, since two
comment twice (see the hazards). `CHECK_DEADLOCK FALSE`: windows end and bounds are
used up.

The properties:

* `NoOverlap`, `PredecessorGone`, `ReleasedOnlyWhenGone`: no overlap of runtimes
  or of runtime and released claim, outside shutdown.
* `LaunchedWithCapsule`, `RotatesOnlyWithCapsule`: a session is ended only for a
  verified durable capsule, and its successor gets exactly that.
* `DispatchedOnlyAccepted`: the first prompt waits for every required store.
* `KeepsTheSession`: no step of the supervisor ends a session it has not begun
  to rotate.
* `LaunchBudget`, `HaltIsFinal`, `CompletedLeavesNothing`.
* `HandoffSettles`, `AbortedEnds`: liveness.
* `NothingReadIsCut`: work that the tick's activity could show, and that is still
  under way, is not cut by its rotation. Work that begins after the read can be
  (the root's next prompt, while the usage adapter runs); a comment at
  `supervisor.py:51-55` claims more.
* `ConsentIsYounger`, `ReleasesOnce`, `GraceHolds`: a compaction releases one drain,
  takes the consent given in it back, and holds the thresholds for its grace.
* `NothingLost`, `DeadLetteredOnce`, `ClaimedOnce`: two replays and the manager over
  one queue. `QueueDrains`: once the mirrors are back for good the queue empties.
* `NamedOrGone`, `SignalsAuthorised`, `OwnGeneration`, `KeepsItsChild`,
  `RunsItsDefinition`, `OwnersStopIsWhole`: nothing that the record has named runs
  on forgotten, and nobody signals what is not its own.
* `ReapsOnlyTheDead`, `AuthorizedUnderItsLease`: however long a proposal has waited.
* `EvidenceKept`, `PostedOnce`, `FinalStands`, and `ToldOfEachCrossingOnce`, which
  holds while no two hooks overlap and none is killed.
* `ReaderCannotPin`: with consent and rest, fewer than `Tolerance` ticks in a row
  are lost to samples without confidence.

Each has a faulty variant of a definition in its module (marked "Faulty
variant"), listed under "mutants", for which TLC finds it violated.

### Fairness

`FairSpec` asks for weak fairness of `Supervise` (the command's loop ticks
without end and `tick` does not wait on anything but bounded adapters), of
the guardians (`_watch_child` polls every interval until its child ends) and of
`AckDeadline` (time passes). It asks nothing of `Boot`, hooks, runtimes, the
rival or the lease: nobody promises to restart a supervisor, and a hook may hang
for ever, which is the case `HandoffSettles` is about. The supervisor may be
down, so the property ends there too.

`Outbox`'s `Spec` asks for weak fairness of a replay that was begun and of
`MirrorNow` (adapters answer within their time-out), and for strong fairness of the
steps that wait for the queue's lock, and of the supervisor's replay: it follows
every tick, and `flock` serves who waits. The operator's command need not run again.

## 4. Findings

1. **Reclamation before shutdown.** `README.md:424-426` says the guardian watches
   the supervisor heartbeat and ends the runtime before the lease can be
   reclaimed. `guardian.py:40-57` stopped doing so. A rival gets the task while
   the runtime runs.
2. **An interrupt leaves the child.** `README.md:113` says an interrupt stops the
   managed child; `_shutdown_unlocked` detaches an adopted one.
3. **A predecessor being ended is detached.** `supervisor.py:721-724` says it must
   not be. The first shutdown replaces STOPPING by BLOCKED before it stops the
   runtime; if that stop raises or the process dies, the next invocation's
   shutdown sees BLOCKED and detaches.
4. **An acknowledged session is aborted.** `guardian.py:50-51` reserves the abort
   for successors that never became the session. The hook aborts whenever it
   polls a phase other than AWAITING_ACK or RUNNING, thus also when RUNNING has
   already become WARNING, and when SessionStart fires again in such a phase.

5. **A turn is left open.** Within one generation's drains only one repeated Stop
   is logged (`hooks/command.py:443`, and `repeated_stop_idle_event` for a later
   drain). A prompt after it opens a turn that the ledger never closes: the session
   is busy for good, and so are its successors, since counts span the chain.
6. **A successor walled in.** Its prompts pass only in RUNNING
   (`hooks/command.py:182-198`). Drained between two turns it can neither start
   one nor be rotated, as only a Stop asks for the hand-off.

Findings 1 and 2 are documentation left behind by BOU-2389; 3 and 4 are behaviour
that the code's own comments exclude; 5 and 6 end in the state that the drain's
comments call the failure mode, a session that never rotates.

## 5. Proofs

Every safety property that a passing run checks, invariant, action property or
refinement, is also proved, for every value of the constants that the assumptions
named below allow.

### `SupervisorProofs`

Proved for every `RetryLimit`, `MaxGeneration`, `MaxFaults` and
`MaxEpoch`, assuming only that they are natural numbers (`ConstantsAssumption`):

| Theorem | Statement |
| --- | --- |
| `TypeCorrect` | `Spec => []TypeOK` |
| `Invariance` | `Spec => []Inv` |
| `SingleRuntime` | `Spec => []NoOverlap` |
| `PredecessorIsGone` | `Spec => []PredecessorGone` |
| `ReleasedWhenGone` | `Spec => ReleasedOnlyWhenGone` |
| `HaltIsForGood` | `Spec => HaltIsFinal` |
| `LaunchesAreBudgeted` | `Spec => []LaunchBudget` |
| `CompletionIsClean` | `Spec => []CompletedLeavesNothing` |
| `SuccessorsHaveTheirCapsule` | `Spec => LaunchedWithCapsule` |
| `SessionsAreSavedFirst` | `Spec => RotatesOnlyWithCapsule` |
| `PromptsAreAccepted` | `Spec => DispatchedOnlyAccepted` |
| `SessionIsKept` | `Spec => KeepsTheSession` |
| `SeatIsHandedOver` | `Spec => ImplementsHandoff` |

`NoOverlap` is not inductive: a launch must know that the runtimes of earlier
generations are gone. `Inv` adds to the types

* `OfThisGeneration`: a live runtime belongs to the snapshot's generation, which
  is why finding an earlier launch by generation is enough to find all of them;
* `Vacated`: none lives in the phases before the first launch, from STOPPED to
  CLAIMING and after completion, so that the generation changes only when
  `OfThisGeneration` is vacuous;
* `Recorded`: in the supervised phases and STOPPING, the snapshot's process is
  the only one that can live, so stopping it empties the chain;
* `EffectNotSaved`: the same facts in the window between an effect and its write;
* `PlaceFitsPhase`: which phases each place of the process can have, so that the
  windows exclude each other.

The argument has one lemma per layer (`TypeStep`, then `SeatStep` on top of it,
then `ReleaseStep` and `HaltStep` for the action properties), with one step per
action of `Next`.

`Inv` is about who runs. The other properties are about what else the chain has, and
follow from `Inv` with `Chain`, which has a part for each:

* `BudgetFit`: launches so far are at most those of the earlier generations, the
  attempts of this one, and one for each fault. A launch that was made and not
  persisted counts at once (`Launched`), which is where a fault costs its extra one;
* `ClaimFit`: while the chain owns the task, the lease is the snapshot's claim, or
  the one in memory that is about to be persisted;
* `CapsuleFit`: which capsule the stores hold and have acknowledged at each stage of
  a rotation, through the receipt in memory, the snapshot's fingerprint and the
  acknowledgement of the next generation;
* `SessionFit`: in which phases a user's session can be alive, and that a shutdown
  which looks at one has found it adopted.

The refinement reduces the fifty actions to three kinds of step. `SeatMoves` says that
each of them `Stays` in its phase (while a runtime comes or ends, or the task is lost
or acquired), `Turns` to another phase and changes nothing else that `Handoff` sees,
with what that phase needs of the claim and the runtimes, or `Advances` to the next
generation or attempt; `StayingImplements`, `TurningImplements` and
`AdvancingImplements` map each kind to a stutter or an action of `Handoff`.

### `DrainProofs`

For any `Tolerance` above zero, whatever `StableTurn` is, and any bounds
(`ConstantsAssumption`):

| Theorem | Statement |
| --- | --- |
| `TypeCorrect` | `Spec => []TypeOK` |
| `NoReaderPins` | `Spec => []ReaderCannotPin` |
| `WorkIsNotCut` | `Spec => NothingReadIsCut` |
| `ConsentIsRenewed` | `Spec => ConsentIsYounger` |
| `ReleaseIsOnce` | `Spec => ReleasesOnce` |
| `GraceIsKept` | `Spec => GraceHolds` |

Everything a tick decides rests on an activity that it read some steps before, while
the hooks went on. `Inv` says what that reading is still worth: work that is under
way has an unbalanced start, except for a tool that the end of a turn closed under a
subagent (`OpenWork`); an activity that was idle had nothing to cut, and belongs to
one tick (`ReadFit`); what was released or read is consumed, and the requests of a
released drain are taken back up to the compaction and beyond (`ConsumedFit`); and
each tick that only the reader holds back has made the streak longer (`StreakFit`).
The hooks only append to the log (`HooksAppend`), so that the latest signal within
what was read stays what it was (`LatestStays`).

### `OutboxProofs`

For any mirrors, any `Stripe` and any bounds, assuming that the two workers and the
value of a free lock are distinct, that the limits of both files are positive
(`BoundsAssumption`), and that there is a mirror (`MirrorsAssumption`; without one
nothing is queued):

| Theorem | Statement |
| --- | --- |
| `TypeCorrect` | `Spec => []TypeOK` |
| `NothingIsLost` | `Spec => []NothingLost` |
| `OneClaim` | `Spec => []ClaimedOnce` |
| `OneLetter` | `Spec => []DeadLetteredOnce` |
| `MailboxIsKept` | `Spec => ImplementsMailbox` |

A replay reads its batch under the lock, runs the mirrors without it, and takes the
lock again to write a new file. `Inv` says what it knows in between. A success in its
outcomes is of a request that the mirror has, and while it appends letters the queue
is still the file it read last, whose entries are delivered, letters or in the rest
(`Fit` of each worker); an entry is in the queue once and its number is new
(`FilesFit`); no two workers execute under one claim lock (`ClaimFit`). `LettersFit`
is what one letter for each entry needs: an entry that may still become a letter
(`Owed`) has at most one for each crash so far, since only a crash between the append
and the replacement of the file makes an entry owed again; one that is not owed has
at most one more. `Apart` is what each step of one worker owes to the other.

Which entries a reconciliation keeps is computed over a sequence of any length. That
is induction over data, and is proved from its least counterexample: `LeastNumber`,
then `OfTakes` and `OfKeeps` about the function `Of` (a recursive function, not an
operator).

For `Mailbox`, `AcceptStep`, `RefuseStep`, `DeliverStep` and `SettleStep` map the four
kinds of step that change the files or the mirrors.

### `DaemonProofs`

For any controllers, definitions and bounds, assuming that the value of a free lock
is not a controller (`ControllersAssumption`):

| Theorem | Statement |
| --- | --- |
| `TypeCorrect` | `Spec => []TypeOK` |
| `RunningIsNamed` | `Spec => []NamedOrGone` |
| `OnlyAuthorisedSignals` | `Spec => []SignalsAuthorised` |
| `GenerationsAreDistinct` | `Spec => []OwnGeneration` |
| `OwnersStopHolds` | `Spec => OwnersStopIsWhole` |
| `HandsAreKept` | `Spec => []KeepsItsChild` |
| `DefinitionsAreRun` | `Spec => []RunsItsDefinition` |

An operation decides in one step and acts in a later one, and between requests a
controller keeps a handle. `Inv` says what stays true in between: every handle, also
that of the supervisor a drift may return to, is of a child of that controller
(`Sensible`); who holds the lock has left the record as its next step needs it, with
a fresh generation before a launch, nobody named until the child is published, and
a child that it may signal before a kill (`Prepared`); a leader that its owner has
reaped left no group (`ChildFit`), so that a missing one needs no signal. Children
only age (`Ages`), whatever the others do. `Turn` and `Aside` are the two kinds of
step, under the lock and beside it; each action has one lemma on top of them.

The last two theorems are about the converse, from the child to the controller, and
need `HandFit` beside `Inv`: a child that runs under its controller, and has not
outlived a kill, is the handle of that controller and the recorded one, but for the
steps between its launch and its publication; and a handle's child runs the
definition beside it, also in the manager that is set aside for a roll-back.

### `ResourceGuardianProofs`

For any guardians, keys, shapes and bounds, assuming that the keys are finitely
many (`KeysAssumption`; a pass lists them):

| Theorem | Statement |
| --- | --- |
| `TypeCorrect` | `Spec => []TypeOK` |
| `OnlyTheDeadAreReaped` | `Spec => []ReapsOnlyTheDead` |
| `OneLeaseForBoth` | `Spec => []AuthorizedUnderItsLease` |

Neither property is inductive: what the executor resolves was observed some steps
before, by a pass that may have belonged to another lease. `Inv` carries the two
facts along the way. `Over`, that the registration's own process is over, is
established where a reason is found (`NoReasonToReapTheLiving`: the whole decision
table, over every observation), held by a guardian between its evaluation and its
proposal (`Sound`), then by the publication, and no change of the registry takes
it back (`WhatIsOverStaysOver`). That the asked publication has the epoch of the
executor's handle is `Sound` too. `OneMoves` and `OthersKeep` reduce a step to
the guardian that moves.

### `BakeSpoolProofs`

Assuming `SpoolBounds` (the capacity is positive), for any contents and, except for the
last, any number of drains **at the same time**, where the run has one:

| Theorem | Statement |
| --- | --- |
| `TypeCorrect` | `Spec => []TypeOK` |
| `NoEvidenceIsLost` | `Spec => []EvidenceKept` |
| `OneComment` | `OneDrain` implies `Spec => []PostedOnce` |

An acknowledgement names an identifier, and the drain that sends it saw a comment
with a content. `Holds` ties the two: identifiers are never reused, so a record of
that identifier has that content for as long as it is in the spool. The lemma
`RoomIsMade` is about eviction: it removes a delivered record, keeps every pending
one, and changes none. `OneComment` needs `OneDrain`, since two drains that look before
either comments do comment twice (see the hazards), and `Unposted`: who is about to
comment has seen that there is none.

### `AdvisoryProofs`

For any number of sessions and hooks and any models and levels the code can name
(`AdvisoryBounds`):

| Theorem | Statement |
| --- | --- |
| `TypeCorrect` | `Spec => []TypeOK` |
| `EachCrossingIsTold` | `Spec => ToldOfEachCrossingOnce` |

The ledger is rewritten whole, in three steps, by a hook that decided from what it had
read. The types hold whatever overlaps or is killed. While nothing has (`clean`), one
hook works at a time (`Alone`), between hooks the file says what each session was told
last (`Quietly`), and a hook under way will save that of all other sessions and what
it is about to tell of its own (`Steadily`).

### `HostProofs`

The four modules of the host share no state, and `MCHost` runs them as one. Under
`HostAssumption` (the bounds of the parts), for everything that `MCHost` takes as a
constant (it fixes `Models` to two; `AdvisoryProofs` does not):

| Theorem | Statement |
| --- | --- |
| `HostIsTyped` | `HostSpec => []HostTypeOK` |
| `HostKeepsEvidence` | `HostSpec => []EvidenceKept` |
| `HostPostsOnce` | with one sink, `HostSpec => []PostedOnce` |
| `HostTellsOnce` | `HostSpec => ToldOfEachCrossingOnce` |
| `HostReapsOnlyTheDead` | `HostSpec => [](ReapsOnlyTheDead /\ AuthorizedUnderItsLease)` |
| `FinalIsForGood` | `HostSpec => []FinalStands` |

A step of the host is one of each part or leaves that part alone (`HostStep`), so the
invariants of the parts are one of the host (`HostInv`). `MCHost` and the modules of
proofs each have an instance of their own of a part; `SameBake` and `SameAdvisory` say
that they are the same. The latch is proved here: a final record says that nothing is
pending; that the block recorded last was acknowledged needs `OnlyItsOwn`: the pending
block is the last one until its own acknowledgement.

### Only model-checked

The liveness properties `HandoffSettles`, `AbortedEnds` and `QueueDrains`: liveness
under fairness and ENABLED are out of the prover's reach. The refinement theorems are
about safety; that `Outbox` settles what waits is `QueueDrains`.

## 6. Not modelled

* In the rotation: reuse of a PID, a guardian that is itself killed or cannot
  drain the descendants of its runtime, two supervisors on one state file, errors
  of the files behind the registry and exit records, damage to the state file,
  alarms other than the detach, a different
  run specification on restart.
* In the drain: which tool an event is about, critical sections (nothing in the
  repository logs them), the incremental read of the ledger with its warnings and
  limits, a hook that dies between two of its writes, and a turn that the user
  interrupts.
* In the outbox: a line of the queue torn by a crash in the middle of an append,
  after which every read of the file raises; two executions of one request that
  overlap inside a mirror; a scan over its limit that never ends being retryable
  (a mirror that is down for good).
* In the daemon: reuse of a PID, a controller that ends because `ps` failed, the
  socket and its messages.
* In the host's parts: what an observer reads, more than one drain at a time, a
  report whose repeats are marked as delivered with the record they are counted in,
  the byte limits of the spool and the registry.
* The governor: nothing in the program calls it. Installation of hooks, reports,
  configuration and the parsers of usage: values and input/output.
* Everything listed with status `not_modelled` in `PROJECT.json`, with its reason.

## 7. Plan

In this order; each step keeps the previous runs.

1. Done: `Handoff`, `Supervisor`, their runs, and the first theorems.
2. Done: `Drain`, what `Observe` abstracts, with its runs and its theorems. Left of it:
   the end of a drain as a liveness property, under a runtime that ends its turns and
   outside the two findings that keep one from ending.
3. Done: `Outbox` with `Mailbox`, `Daemon`, `ResourceGuardian`, `BakeSpool`, `Advisory`
   and `Finalization`, with their runs.
4. Done: the proofs of every safety property and both refinements.
5. Left: the hazards without a property (`PROJECT.json`, with the reason for each), and
   an abstract specification of `Daemon`'s record and of the guardian's proposals that
   those modules would be shown to implement.
