----------------------------- MODULE Supervisor -----------------------------
(***************************************************************************)
(* The rotation supervisor: one chain of managed runtimes, one generation  *)
(* at a time.  The supervisor process keeps a durable snapshot and follows *)
(* every external effect (claim, launch, stop, fence, checkpoint, store    *)
(* acknowledgement) by a write of that snapshot; it may crash, be          *)
(* interrupted or raise between the two, and is started again later from   *)
(* the durable phase.  Around it run the guardians and their runtimes, the *)
(* SessionStart hooks, the task coordinator with its lease, and a rival    *)
(* session that wants the same task.                                       *)
(*                                                                         *)
(* An action is one read-modify-write of the snapshot or one external      *)
(* effect; `pc' says where the supervisor process is.                      *)
(***************************************************************************)
EXTENDS Naturals

CONSTANTS
  RetryLimit,      \* successor_retry_limit
  MaxGeneration,   \* bound: generations the chain may reach
  MaxFaults,       \* bound: crashes, raises and failed effects in a behaviour
  MaxEpoch         \* bound: the rival claims no lease epoch above it

ASSUME ConstantsAssumption ==
  /\ RetryLimit \in Nat
  /\ MaxGeneration \in Nat
  /\ MaxFaults \in Nat
  /\ MaxEpoch \in Nat

VARIABLES
  snapshot,       \* SupervisorSnapshot, the state file
  ack,            \* the .ack file beside it: the runtime whose hook wrote it
  pc,             \* where the supervisor process is, "down" when there is none
  held,           \* what that process has in memory and not in the snapshot
  task,           \* the coordinator's record of the task
  live,           \* runtimes alive under their guardian
  registered,     \* of these, those whose guardian wrote the process registry
  clean,          \* runtimes whose exit record says status 0, natural
  serial,         \* launches so far; the next runtime's launch nonce
  waiting,        \* live runtimes whose hook waits for the durable RUNNING
  dispatched,     \* live runtimes whose SessionStart hook returned
  aborting,       \* live runtimes whose hook requested their termination
  stored,         \* capsule the required stores hold
  accepted,       \* capsule the required stores have acknowledged
  sessions,       \* history: live runtimes that became the user's session and
                  \* that no rotation has begun to end
  faults          \* faults so far, at most MaxFaults

runtimeVars == <<live, registered, clean, serial>>
hookVars    == <<waiting, dispatched, aborting>>
storeVars   == <<stored, accepted>>
world       == <<task, runtimeVars, hookVars, storeVars, sessions>>
vars        == <<snapshot, ack, pc, held, world, faults>>

-----------------------------------------------------------------------------
Phases == {"initial", "running", "warning", "draining", "checkpointing",
           "checkpointed", "stopping", "stopped", "fencing", "fenced",
           "claiming", "launching", "awaiting_ack", "completed", "blocked"}

Observing  == {"running", "warning", "draining"}
Supervised == Observing \cup {"checkpointing", "checkpointed", "awaiting_ack"}
Beating    == Supervised \cup {"launching"}

\* Places of the supervisor process in start() and tick(), then in shutdown().
Working  == {"start", "claimed0", "launched", "postlaunch", "idle", "tick",
             "beat", "work", "exited", "accept", "accepted", "acked", "retry",
             "retried", "advance", "checkpoint", "receipt", "save", "stopped",
             "fenced", "claimed"}
Stopping == {"shutdown", "probe", "fence", "close", "keep"}
Places   == Working \cup Stopping \cup {"down"}

\* Age of the lease: within the heartbeat interval, past it, past the lease.
Fresh   == 0
Due     == 1
Expired == 2

Runtime   == [gen : Nat, id : Nat]
NoRuntime == [gen |-> 0, id |-> 0]
Capsule   == [target : Nat, version : Nat]
NoCapsule == [target |-> 0, version |-> 0]

\* Fields as SupervisorSnapshot names them, without the prefix of a group:
\* the process_* fields are `process', checkpoint_fingerprint with its path is
\* `fingerprint', successor_attempt is `attempt', a conversation is named by
\* the runtime that holds it, a claim by its lease epoch (0 for none), and
\* `overdue' says that successor_ack_deadline_at has passed.
Snapshot ==
  [phase : Phases, generation : Nat, attempt : Nat, conversation : Runtime,
   claim : Nat, process : Runtime, overdue : BOOLEAN, fingerprint : Capsule,
   alarm : BOOLEAN]

\* A launched process and a claim not yet persisted, a checkpoint receipt
\* (NoCapsule when it is not verified), _successor_abort_pending and the local
\* `adopted' of shutdown.
Held ==
  [process : Runtime, claim : Nat, receipt : Capsule, aborting : BOOLEAN,
   adopted : BOOLEAN]
Nothing ==
  [process |-> NoRuntime, claim |-> 0, receipt |-> NoCapsule,
   aborting |-> FALSE, adopted |-> FALSE]

Task == [epoch : Nat, owner : {"free", "chain", "rival"}, generation : Nat,
         age : {Fresh, Due, Expired}]

Init ==
  /\ snapshot = [phase |-> "initial", generation |-> 0, attempt |-> 0,
                 conversation |-> NoRuntime, claim |-> 0,
                 process |-> NoRuntime, overdue |-> FALSE,
                 fingerprint |-> NoCapsule, alarm |-> FALSE]
  /\ ack = NoRuntime /\ pc = "down" /\ held = Nothing
  /\ task = [epoch |-> 0, owner |-> "free", generation |-> 0, age |-> Fresh]
  /\ live = {} /\ registered = {} /\ clean = {} /\ serial = 0
  /\ waiting = {} /\ dispatched = {} /\ aborting = {}
  /\ stored = NoCapsule /\ accepted = NoCapsule
  /\ sessions = {} /\ faults = 0

\* One fault out of the budget of the behaviour.
Fault == faults < MaxFaults /\ faults' = faults + 1

\* The next place of the supervisor process, nothing else changing.
Goto(place) == pc' = place /\ UNCHANGED <<snapshot, ack, held, world, faults>>

\* The snapshot is persisted and the process goes on at `place'.
Persist(next, place) ==
  /\ snapshot' = next /\ pc' = place
  /\ UNCHANGED <<ack, held, world, faults>>

Blocked == [snapshot EXCEPT !.phase = "blocked"]

\* _refresh drops an acknowledgement that nobody expects.
Refresh ==
  ack' = IF snapshot.phase # "awaiting_ack" \/ ack.gen < snapshot.generation
         THEN NoRuntime ELSE ack

\* Faulty variant: the registry record of a stopped runtime is not removed.
EndsKeepingRecord(r, receipt) ==
  /\ live' = live \ {r} /\ UNCHANGED registered
  /\ clean' = (clean \ {r}) \cup receipt
  /\ waiting' = waiting \ {r} /\ dispatched' = dispatched \ {r}
  /\ aborting' = aborting \ {r} /\ sessions' = sessions \ {r}
  /\ UNCHANGED serial

\* Runtime r ends, and with it its hooks; its exit record says `receipt'.
Ends(r, receipt) ==
  /\ live' = live \ {r} /\ registered' = registered \ {r}
  /\ clean' = (clean \ {r}) \cup receipt
  /\ waiting' = waiting \ {r} /\ dispatched' = dispatched \ {r}
  /\ aborting' = aborting \ {r} /\ sessions' = sessions \ {r}
  /\ UNCHANGED serial

\* _fail_closed_for_stale_owner: only a process seen to be gone is forgotten.
FailClosed ==
  /\ snapshot' = IF snapshot.process \in live THEN Blocked
                 ELSE [Blocked EXCEPT !.process = NoRuntime]
  /\ pc' = "shutdown"
  /\ clean' = IF snapshot.process \in live THEN clean
              ELSE clean \ {snapshot.process}
  /\ UNCHANGED <<ack, held, task, live, registered, serial, hookVars,
                 storeVars, sessions, faults>>

-----------------------------------------------------------------------------
(* The coordinator, as the supervisor's adapter uses it. *)

\* The claim of epoch e is the active one; a lease past its time may already
\* have been found expired.
Current(e)  == task.owner = "chain" /\ task.epoch = e
Stale(e)    == ~Current(e) \/ task.age = Expired

\* heartbeat renews a current claim.
Beat(e) == Current(e) /\ task' = [task EXCEPT !.age = Fresh]

\* fence releases a current claim and repeats a release already made.
Fence(e) ==
  /\ task.epoch = e
  /\ task.owner \in {"chain", "free"}
  /\ task' = [task EXCEPT !.owner = "free"]
FenceStale(e) ==
  /\ task.owner # "free" \/ task.epoch # e
  /\ Stale(e)

\* claim for the owner "chain:g": the same owner keeps its epoch while the
\* lease runs; a free or expired task gets the next one.
Grant(g) ==
  \/ /\ task.owner = "chain" /\ task.generation = g
     /\ task' = [task EXCEPT !.age = Fresh]
  \/ /\ task.owner = "free" \/ (task.owner = "chain" /\ task.age = Expired)
     /\ task' = [epoch |-> task.epoch + 1, owner |-> "chain",
                 generation |-> g, age |-> Fresh]
Conflict(g) ==
  /\ task.owner # "free"
  /\ ~(task.owner = "chain" /\ task.generation = g)

-----------------------------------------------------------------------------
(* Parts of tick() that several places share. *)

\* _heartbeat_if_due, forced: renew the claim and go on, or fail closed.
Heartbeat(place) ==
  \/ /\ Beat(snapshot.claim) /\ pc' = place
     /\ UNCHANGED <<snapshot, ack, held, runtimeVars, hookVars, storeVars,
                    sessions, faults>>
  \/ Stale(snapshot.claim) /\ FailClosed

HeartbeatIfDue(place) ==
  IF snapshot.phase \in Beating /\ task.age # Fresh
  THEN Heartbeat(place) ELSE Goto(place)

\* _ensure_active_process_is_live.
EnsureLive(place) ==
  \/ /\ snapshot.phase \notin Supervised \/ snapshot.process \in live
     /\ Goto(place)
  \/ /\ snapshot.phase \in Supervised      \* the probe of the process raises
     /\ snapshot.process # NoRuntime
     /\ Fault
     /\ snapshot' = Blocked /\ pc' = "shutdown"
     /\ UNCHANGED <<ack, held, world>>
  \/ /\ snapshot.phase \in Supervised /\ snapshot.process \notin live
     /\ \/ snapshot.phase = "awaiting_ack" /\ Goto("retry")
        \/ /\ snapshot.phase \in {"running", "warning"}
           /\ snapshot.process \in clean
           /\ Goto("exited")
        \/ /\ snapshot.phase # "awaiting_ack"
           /\ ~(/\ snapshot.phase \in {"running", "warning"}
                /\ snapshot.process \in clean)
           /\ Persist(Blocked, "shutdown")

-----------------------------------------------------------------------------
(* start() *)

\* A supervisor process starts: it loads the snapshot and drops a stale .ack.
Boot ==
  /\ pc = "down" /\ pc' = "start"
  /\ Refresh
  /\ UNCHANGED <<snapshot, held, world, faults>>

\* A completed or blocked run is not started again; the process shuts down.
StartTerminal ==
  /\ pc = "start" /\ snapshot.phase \in {"completed", "blocked"}
  /\ Goto("shutdown")

ClaimRoot ==
  /\ pc = "start" /\ snapshot.phase = "initial"
  /\ \/ /\ Grant(0)
        /\ held' = [held EXCEPT !.claim = task'.epoch] /\ pc' = "claimed0"
        /\ UNCHANGED <<snapshot, ack, runtimeVars, hookVars, storeVars,
                       sessions, faults>>
     \/ Conflict(0) /\ Goto("shutdown")

SaveRootClaim ==
  /\ pc = "claimed0" /\ pc' = "start"
  /\ snapshot' = [snapshot EXCEPT !.generation = 0, !.phase = "launching",
                                  !.claim = held.claim]
  /\ held' = Nothing
  /\ UNCHANGED <<ack, world, faults>>

\* Any other phase is resumed: the process is checked, then tick() goes on.
Resume ==
  /\ pc = "start"
  /\ snapshot.phase \notin {"completed", "blocked", "initial"}
  /\ ~(snapshot.phase = "launching" /\ snapshot.generation = 0)
  /\ EnsureLive("idle")

-----------------------------------------------------------------------------
(* Launching: start_fresh with its registry and intent, in both callers. *)

NextRuntime(id) == [gen |-> snapshot.generation, id |-> id]

\* Faulty variant: a guardian that has not registered yet is not looked for.
MineRegistered == {r \in registered : r.gen = snapshot.generation}

Mine == {r \in live : r.gen = snapshot.generation}

\* Faulty variant: start() launches whatever the phase of the root is.
AtLaunchAnyPhase ==
  (pc = "start" /\ snapshot.generation = 0)
    \/ (pc = "advance" /\ snapshot.phase = "launching")

AtLaunch ==
  /\ snapshot.phase = "launching"
  /\ (pc = "start" /\ snapshot.generation = 0) \/ pc = "advance"

\* No runtime of the generation is alive: a guardian is spawned, registers and
\* becomes ready; or one launched earlier is found, or registers meanwhile.
Launch ==
  /\ AtLaunch
  /\ \E r \in IF Mine = {} THEN {NextRuntime(serial + 1)} ELSE Mine :
       /\ held' = [held EXCEPT !.process = r]
       /\ live' = live \cup {r} /\ registered' = registered \cup {r}
  /\ serial' = IF Mine = {} THEN serial + 1 ELSE serial
  /\ pc' = "launched"
  /\ UNCHANGED <<snapshot, ack, task, clean, hookVars, storeVars, sessions,
                 faults>>

\* start_fresh raises: the new runtime exits before it is ready, its guardian
\* does not register in time, an earlier guardian still has not, or the
\* registered one cannot be observed.
LaunchFails ==
  /\ AtLaunch
  /\ pc' = IF snapshot.generation = 0 THEN "shutdown" ELSE "retry"
  /\ \/ /\ Mine = {} /\ serial' = serial + 1
        /\ UNCHANGED <<live, faults>>
     \/ /\ Mine = {} /\ serial' = serial + 1 /\ Fault
        /\ live' = live \cup {NextRuntime(serial + 1)}
     \/ /\ Mine # {} /\ Mine \cap registered = {}
        /\ UNCHANGED <<live, serial, faults>>
     \/ /\ Mine \cap registered # {} /\ Fault
        /\ UNCHANGED <<live, serial>>
  /\ UNCHANGED <<snapshot, ack, held, task, registered, clean, hookVars,
                 storeVars, sessions>>

\* The root runs at once; a successor has to acknowledge first.
SaveLaunch ==
  /\ pc = "launched"
  /\ IF snapshot.generation = 0
     THEN /\ snapshot' = [snapshot EXCEPT !.phase = "running",
                                          !.process = held.process]
          /\ sessions' = sessions \cup ({held.process} \cap live)
          /\ pc' = "idle"
     ELSE /\ snapshot' = [snapshot EXCEPT !.phase = "awaiting_ack",
                                          !.overdue = FALSE,
                                          !.process = held.process]
          /\ pc' = "postlaunch"
          /\ UNCHANGED sessions
  /\ held' = Nothing
  /\ UNCHANGED <<ack, task, runtimeVars, hookVars, storeVars, faults>>

HeartbeatAfterLaunch == pc = "postlaunch" /\ HeartbeatIfDue("idle")

-----------------------------------------------------------------------------
(* tick() *)

TickBegin ==
  /\ pc = "idle" /\ pc' = "tick"
  /\ Refresh
  /\ UNCHANGED <<snapshot, held, world, faults>>

TickEnsureLive == pc = "tick" /\ EnsureLive("beat")
TickHeartbeat  == pc = "beat" /\ HeartbeatIfDue("work")

\* Faulty variant: completion is persisted without releasing the claim.
ForgetClaim == pc = "exited" /\ Goto("save")

\* _complete_clean_exit: release the claim, then persist completion.
FenceExited ==
  /\ pc = "exited"
  /\ \/ /\ Fence(snapshot.claim) /\ pc' = "save"
        /\ UNCHANGED <<snapshot, ack, held, runtimeVars, hookVars, storeVars,
                       sessions, faults>>
     \/ FenceStale(snapshot.claim) /\ Goto("save")
     \/ /\ Fault /\ snapshot' = Blocked /\ pc' = "shutdown"
        /\ UNCHANGED <<ack, held, world>>

SaveCompleted ==
  /\ pc = "save" /\ snapshot.phase \in {"running", "warning"}
  /\ Persist([snapshot EXCEPT !.phase = "completed", !.claim = 0], "shutdown")

\* Usage thresholds, the release of a drain by the runtime's own compaction and
\* the gates of a drain, abstracted to the phases they can lead to.
Observed(p) ==
  CASE p = "running"  -> {"running", "warning", "draining", "checkpointing"}
    [] p = "warning"  -> {"warning", "draining", "checkpointing"}
    [] p = "draining" -> {"draining", "running", "checkpointing"}

\* A measurement names the conversation, and no threshold is passed without.
Observe ==
  /\ pc = "work" /\ snapshot.phase \in Observing
  /\ \E p \in Observed(snapshot.phase),
        c \in {snapshot.conversation, snapshot.process} :
       /\ p # "running" => c # NoRuntime
       /\ p = "checkpointing" => snapshot.generation < MaxGeneration
       /\ Persist([snapshot EXCEPT !.phase = p, !.conversation = c],
                  IF p = "checkpointing" THEN "advance" ELSE "idle")

\* A rotation interrupted by a restart goes on where the snapshot says.
ResumeRotation ==
  /\ pc = "work" /\ snapshot.phase \notin Observing \cup {"awaiting_ack"}
  /\ Goto("advance")

\* Faulty variant: the deadline of the acknowledgement is never looked at.
AwaitAckForever ==
  /\ pc = "work" /\ snapshot.phase = "awaiting_ack"
  /\ \/ ack # snapshot.process /\ Goto("idle")
     \/ ack # NoRuntime /\ ack = snapshot.process /\ Heartbeat("accept")

\* Without an .ack file the successor is retried once its deadline is over; an
\* .ack of another process raises.
AwaitAck ==
  /\ pc = "work" /\ snapshot.phase = "awaiting_ack"
  /\ \/ /\ ack = NoRuntime
        /\ Goto(IF snapshot.overdue THEN "retry" ELSE "idle")
     \/ ack # NoRuntime /\ ack # snapshot.process /\ Goto("shutdown")
     \/ ack # NoRuntime /\ ack = snapshot.process /\ Heartbeat("accept")

\* Faulty variant: the result of the required stores is not looked at.
AcknowledgeUnverified ==
  /\ pc = "accept" /\ pc' = "accepted"
  /\ accepted' \in {accepted, snapshot.fingerprint}
  /\ UNCHANGED <<snapshot, ack, held, task, runtimeVars, hookVars, stored,
                 sessions, faults>>

\* Every required store acknowledges the capsule, or the attempt has failed.
AcknowledgeStores ==
  /\ pc = "accept"
  /\ \/ /\ accepted' = snapshot.fingerprint /\ pc' = "accepted"
        /\ UNCHANGED faults
     \/ /\ accepted' \in {accepted, snapshot.fingerprint}
        /\ Fault /\ pc' = "retry"
  /\ UNCHANGED <<snapshot, ack, held, task, runtimeVars, hookVars, stored,
                 sessions>>

SaveAcknowledged ==
  /\ pc = "accepted" /\ pc' = "acked"
  /\ snapshot' = [snapshot EXCEPT !.phase = "running", !.overdue = FALSE,
                                  !.conversation = snapshot.process]
  /\ sessions' = sessions \cup ({snapshot.process} \cap live)
  /\ UNCHANGED <<ack, held, task, runtimeVars, hookVars, storeVars, faults>>

ClearAck ==
  /\ pc = "acked" /\ pc' = "idle"
  /\ ack' = IF ack = snapshot.process THEN NoRuntime ELSE ack
  /\ UNCHANGED <<snapshot, held, world, faults>>

\* Faulty variant: the failed successor is forgotten instead of stopped.
ForgetFailedSuccessor ==
  /\ pc = "retry" /\ pc' = "retried"
  /\ ack' = NoRuntime
  /\ UNCHANGED <<snapshot, held, world, faults>>

\* _retry_successor_unlocked: the failed successor is stopped before anything
\* else, its .ack cleared; when it cannot be stopped the chain is blocked.
StopFailedSuccessor ==
  /\ pc = "retry"
  /\ \/ /\ Ends(snapshot.process, {})
        /\ ack' = NoRuntime /\ pc' = "retried"
        /\ UNCHANGED <<snapshot, held, task, storeVars, faults>>
     \/ /\ snapshot.process # NoRuntime /\ Fault
        /\ held' = [held EXCEPT !.aborting = TRUE]
        /\ snapshot' = Blocked /\ pc' = "shutdown"
        /\ UNCHANGED <<ack, world>>

\* Faulty variant: one attempt too many.
SaveRetryOnceMore ==
  /\ pc = "retried"
  /\ LET cleared == [snapshot EXCEPT !.process = NoRuntime, !.overdue = FALSE,
                                     !.conversation = NoRuntime]
     IN IF snapshot.attempt > RetryLimit
        THEN Persist([cleared EXCEPT !.phase = "blocked"], "shutdown")
        ELSE Persist([cleared EXCEPT !.phase = "launching",
                                     !.attempt = snapshot.attempt + 1],
                     "advance")

SaveRetry ==
  /\ pc = "retried"
  /\ LET cleared == [snapshot EXCEPT !.process = NoRuntime, !.overdue = FALSE,
                                     !.conversation = NoRuntime]
     IN IF snapshot.attempt >= RetryLimit
        THEN Persist([cleared EXCEPT !.phase = "blocked"], "shutdown")
        ELSE Persist([cleared EXCEPT !.phase = "launching",
                                     !.attempt = snapshot.attempt + 1],
                     "advance")

-----------------------------------------------------------------------------
(* _advance_rotation(), one effect or one persisted phase at a time *)

\* The checkpoint is bracketed by heartbeats, so that the adapters cannot use
\* up the lease unseen.
HeartbeatBeforeCheckpoint ==
  /\ pc = "advance" /\ snapshot.phase = "checkpointing"
  /\ IF snapshot.conversation = NoRuntime THEN Goto("idle")
     ELSE Heartbeat("checkpoint")

\* Faulty variant: an unverified receipt counts as a checkpoint.
CheckpointUnverified ==
  /\ pc = "checkpoint" /\ pc' = "receipt"
  /\ LET capsule == [target |-> snapshot.generation + 1,
                     version |-> stored.version + 1]
     IN stored' \in {stored, capsule} /\ held' = [held EXCEPT !.receipt = capsule]
  /\ UNCHANGED <<snapshot, ack, task, runtimeVars, hookVars, accepted,
                 sessions, faults>>

\* The stores verify a new capsule, or do not and hold what they hold.
Checkpoint ==
  /\ pc = "checkpoint" /\ pc' = "receipt"
  /\ LET capsule == [target |-> snapshot.generation + 1,
                     version |-> stored.version + 1]
     IN \/ /\ stored' = capsule /\ held' = [held EXCEPT !.receipt = capsule]
           /\ UNCHANGED faults
        \/ /\ stored' \in {stored, capsule} /\ UNCHANGED held
           /\ Fault
  /\ UNCHANGED <<snapshot, ack, task, runtimeVars, hookVars, accepted,
                 sessions>>

HeartbeatAfterCheckpoint == pc = "receipt" /\ Heartbeat("save")

\* Faulty variant: CHECKPOINTED is persisted without the new fingerprint.
SaveOldFingerprint ==
  /\ pc = "save" /\ snapshot.phase = "checkpointing"
  /\ IF held.receipt = NoCapsule THEN Goto("idle")
     ELSE /\ snapshot' = [snapshot EXCEPT !.phase = "checkpointed"]
          /\ held' = Nothing /\ pc' = "advance"
          /\ UNCHANGED <<ack, world, faults>>

SaveCheckpoint ==
  /\ pc = "save" /\ snapshot.phase = "checkpointing"
  /\ IF held.receipt = NoCapsule THEN Goto("idle")
     ELSE /\ snapshot' = [snapshot EXCEPT !.phase = "checkpointed",
                                          !.fingerprint = held.receipt]
          /\ held' = Nothing /\ pc' = "advance"
          /\ UNCHANGED <<ack, world, faults>>

\* From here the guardian, too, may end the predecessor.
BeginStop ==
  /\ pc = "advance" /\ snapshot.phase = "checkpointed"
  /\ snapshot' = [snapshot EXCEPT !.phase = "stopping"]
  /\ sessions' = sessions \ {snapshot.process}
  /\ UNCHANGED <<ack, pc, held, task, runtimeVars, hookVars, storeVars, faults>>

\* Faulty variant: nobody looks whether the predecessor survived its stop.
StopUnchecked ==
  /\ pc = "advance" /\ snapshot.phase = "stopping" /\ pc' = "stopped"
  /\ \/ Ends(snapshot.process, {})
     \/ UNCHANGED <<runtimeVars, hookVars, sessions>>
  /\ UNCHANGED <<snapshot, ack, held, task, storeVars, faults>>

StopPredecessor ==
  /\ pc = "advance" /\ snapshot.phase = "stopping"
  /\ \/ /\ Ends(snapshot.process, {}) /\ pc' = "stopped"
        /\ UNCHANGED faults
     \/ /\ snapshot.process \in live /\ Fault /\ pc' = "shutdown"
        /\ UNCHANGED <<runtimeVars, hookVars, sessions>>
  /\ UNCHANGED <<snapshot, ack, held, task, storeVars>>

SaveStopped ==
  /\ pc = "stopped"
  /\ Persist([snapshot EXCEPT !.phase = "stopped", !.process = NoRuntime],
             "advance")

BeginFence ==
  /\ pc = "advance" /\ snapshot.phase = "stopped"
  /\ Persist([snapshot EXCEPT !.phase = "fencing"], "advance")

FencePredecessor ==
  /\ pc = "advance" /\ snapshot.phase = "fencing"
  /\ \/ /\ Fence(snapshot.claim) /\ pc' = "fenced"
        /\ UNCHANGED <<snapshot, ack, held, runtimeVars, hookVars, storeVars,
                       sessions, faults>>
     \/ FenceStale(snapshot.claim) /\ FailClosed

SaveFenced ==
  /\ pc = "fenced"
  /\ Persist([snapshot EXCEPT !.phase = "fenced"], "advance")

BeginClaim ==
  /\ pc = "advance" /\ snapshot.phase = "fenced"
  /\ Persist([snapshot EXCEPT !.phase = "claiming"], "advance")

ClaimSuccessor ==
  /\ pc = "advance" /\ snapshot.phase = "claiming"
  /\ \/ /\ Grant(snapshot.generation + 1)
        /\ held' = [held EXCEPT !.claim = task'.epoch] /\ pc' = "claimed"
        /\ UNCHANGED <<snapshot, ack, runtimeVars, hookVars, storeVars,
                       sessions, faults>>
     \/ Conflict(snapshot.generation + 1) /\ Goto("shutdown")

SaveSuccessorClaim ==
  /\ pc = "claimed" /\ pc' = "advance"
  /\ snapshot' = [snapshot EXCEPT !.phase = "launching", !.attempt = 0,
                                  !.generation = snapshot.generation + 1,
                                  !.conversation = NoRuntime,
                                  !.claim = held.claim]
  /\ held' = Nothing
  /\ UNCHANGED <<ack, world, faults>>

-----------------------------------------------------------------------------
(* shutdown(), which the command runs on every way out of its loop *)

\* What the process holds in memory counts only where the snapshot has none.
LastProcess == IF snapshot.process # NoRuntime THEN snapshot.process
               ELSE held.process
LastClaim   == IF snapshot.claim # 0 THEN snapshot.claim ELSE held.claim

\* Faulty variant: a blocked chain counts as one that may stop its runtime.
AdoptedUnlessBlocked ==
  /\ ~held.aborting
  /\ snapshot.phase \notin {"launching", "awaiting_ack", "stopping", "blocked"}
  /\ ~(snapshot.generation > 0 /\ snapshot.conversation = NoRuntime)

\* _runtime_was_adopted
RuntimeWasAdopted ==
  /\ ~held.aborting
  /\ snapshot.phase \notin {"launching", "awaiting_ack", "stopping"}
  /\ ~(snapshot.generation > 0 /\ snapshot.conversation = NoRuntime)

FinalizeCompleted ==
  /\ pc = "shutdown" /\ snapshot.phase = "completed"
  /\ Refresh
  /\ snapshot' = [snapshot EXCEPT !.process = NoRuntime]
  /\ clean' = clean \ {snapshot.process}
  /\ pc' = "down" /\ held' = Nothing
  /\ UNCHANGED <<task, live, registered, serial, hookVars, storeVars,
                 sessions, faults>>

\* The adoption is read before the phase is overwritten.
ShutdownBegin ==
  /\ pc = "shutdown" /\ snapshot.phase # "completed"
  /\ Refresh
  /\ held' = [held EXCEPT !.adopted = RuntimeWasAdopted]
  /\ snapshot' = IF LastProcess = NoRuntime THEN snapshot
                 ELSE [Blocked EXCEPT !.process = LastProcess,
                                      !.claim = LastClaim]
  /\ pc' = "probe"
  /\ UNCHANGED <<world, faults>>

\* A live adopted runtime is detached, any other is stopped; a runtime that
\* survives its stop ends the shutdown with an error.
ShutdownRuntime ==
  /\ pc = "probe"
  /\ \/ /\ snapshot.process \in live /\ held.adopted
        /\ snapshot' = [snapshot EXCEPT !.alarm = TRUE] /\ pc' = "fence"
        /\ UNCHANGED <<held, runtimeVars, hookVars, sessions, faults>>
     \/ /\ ~(snapshot.process \in live /\ held.adopted)
        /\ Ends(snapshot.process, {}) /\ pc' = "fence"
        /\ UNCHANGED <<snapshot, held, faults>>
     \/ /\ snapshot.process \in live /\ ~held.adopted /\ Fault
        /\ pc' = "down" /\ held' = Nothing
        /\ UNCHANGED <<snapshot, runtimeVars, hookVars, sessions>>
  /\ UNCHANGED <<ack, task, storeVars>>

\* A stale claim counts as released; after an error the claim is kept.
ShutdownFence ==
  /\ pc = "fence"
  /\ \/ LastClaim = 0 /\ Goto("close")
     \/ /\ LastClaim # 0 /\ Fence(LastClaim) /\ pc' = "close"
        /\ UNCHANGED <<snapshot, ack, held, runtimeVars, hookVars, storeVars,
                       sessions, faults>>
     \/ LastClaim # 0 /\ FenceStale(LastClaim) /\ Goto("close")
     \/ /\ LastClaim # 0 /\ Fault /\ pc' = "keep"
        /\ UNCHANGED <<snapshot, ack, held, world>>

SaveShutdown ==
  /\ pc \in {"close", "keep"} /\ pc' = "down"
  /\ snapshot' = [Blocked EXCEPT !.process = NoRuntime,
                    !.claim = IF pc = "close" THEN 0 ELSE LastClaim]
  /\ held' = Nothing
  /\ UNCHANGED <<ack, world, faults>>

-----------------------------------------------------------------------------
(* What may happen to the supervisor process *)

\* --max-ticks is reached, or Ctrl-C arrives between two ticks.
LoopEnds == pc = "idle" /\ Goto("shutdown")

\* An adapter, a write or a signal raises; what was held stays in memory.
Unwind ==
  /\ pc \in Working \ {"idle"} /\ Fault
  /\ pc' = "shutdown"
  /\ held' = [held EXCEPT !.receipt = NoCapsule]
  /\ UNCHANGED <<snapshot, ack, world>>

Crash ==
  /\ pc # "down" /\ Fault
  /\ pc' = "down" /\ held' = Nothing
  /\ UNCHANGED <<snapshot, ack, world>>

-----------------------------------------------------------------------------
(* Guardians, runtimes and SessionStart hooks *)

\* The state file asks this guardian's runtime to end: the rotation is stopping
\* its generation.  Nothing else in the file is lethal.
StopRequested(r) ==
  /\ snapshot.phase = "stopping" /\ snapshot.generation = r.gen
  /\ snapshot.claim # 0
  /\ snapshot.process \in {NoRuntime, r}

\* A guardian that was slow to start registers after all.
Register(r) ==
  /\ r \in live \ registered
  /\ registered' = registered \cup {r}
  /\ UNCHANGED <<snapshot, ack, pc, held, task, live, clean, serial, hookVars,
                 storeVars, sessions, faults>>

\* Faulty variant: the watch loop does not look at the abort request.
KillOnStopOnly(r) ==
  /\ r \in registered /\ StopRequested(r)
  /\ Ends(r, {})
  /\ UNCHANGED <<snapshot, ack, pc, held, task, storeVars, faults>>

\* The guardian ends its runtime for a request of the rotation or of a hook.
GuardianKill(r) ==
  /\ r \in registered
  /\ r \in aborting \/ StopRequested(r)
  /\ Ends(r, {})
  /\ UNCHANGED <<snapshot, ack, pc, held, task, storeVars, faults>>

\* The runtime exits by itself, or its guardian gives up registering; only a
\* status zero that no stop request raced is recorded as clean.
RuntimeExit(r) ==
  /\ r \in live
  /\ \/ Ends(r, {})
     \/ r \in registered /\ ~StopRequested(r) /\ Ends(r, {r})
  /\ UNCHANGED <<snapshot, ack, pc, held, task, storeVars, faults>>

\* The snapshot names r as the runtime of the current generation.
Names(r) == snapshot.generation = r.gen /\ snapshot.process = r
Durable(r) ==
  Names(r) /\ snapshot.phase = "running" /\ snapshot.conversation = r

HookReturns(r) ==
  /\ dispatched' = dispatched \cup {r} /\ waiting' = waiting \ {r}
  /\ UNCHANGED <<ack, aborting>>
HookAborts(r) ==
  /\ aborting' = aborting \cup {r} /\ waiting' = waiting \ {r}
  /\ UNCHANGED <<ack, dispatched>>

\* SessionStart of a runtime, at its start and again when it clears or compacts
\* its conversation.  A successor's writes the .ack file, under the lock that
\* lets it check the snapshot once more, or requests its own termination: the
\* snapshot does not match, or the launch is not recorded in time.
HookStart(r) ==
  /\ r \in live \ (waiting \cup aborting)
  /\ \/ (r.gen = 0 \/ Durable(r)) /\ HookReturns(r)
     \/ /\ r.gen > 0 /\ Names(r) /\ snapshot.phase = "awaiting_ack"
        /\ ack' = r /\ waiting' = waiting \cup {r}
        /\ UNCHANGED <<dispatched, aborting>>
     \/ /\ r.gen > 0 /\ ~Durable(r)
        /\ ~(Names(r) /\ snapshot.phase = "awaiting_ack")
        /\ HookAborts(r)
  /\ UNCHANGED <<snapshot, pc, held, task, runtimeVars, storeVars, sessions,
                 faults>>

\* _await_durable_acknowledgement: RUNNING lets the hook return, another phase
\* or its own timeout make it abort.
HookAwait(r) ==
  /\ r \in waiting
  /\ \/ Durable(r) /\ HookReturns(r)
     \/ ~Durable(r) /\ HookAborts(r)
  /\ UNCHANGED <<snapshot, pc, held, task, runtimeVars, storeVars, sessions,
                 faults>>

\* A hook that has its own process group may outlive its runtime.
HookLingers ==
  /\ snapshot.phase = "awaiting_ack" /\ snapshot.generation > 0
  /\ snapshot.process \notin live /\ snapshot.process # NoRuntime
  /\ Fault
  /\ ack' = snapshot.process
  /\ UNCHANGED <<snapshot, pc, held, world>>

-----------------------------------------------------------------------------
(* Time and the rival *)

AckDeadline ==
  /\ snapshot.phase = "awaiting_ack" /\ ~snapshot.overdue
  /\ snapshot' = [snapshot EXCEPT !.overdue = TRUE]
  /\ UNCHANGED <<ack, pc, held, world, faults>>

Elapse ==
  /\ snapshot.claim # 0 \/ task.owner = "chain"
  /\ task.age # Expired
  /\ task' = [task EXCEPT !.age = task.age + 1]
  /\ UNCHANGED <<snapshot, ack, pc, held, runtimeVars, hookVars, storeVars,
                 sessions, faults>>

RivalClaim ==
  /\ task.owner = "free" \/ (task.owner = "chain" /\ task.age = Expired)
  /\ task.epoch < MaxEpoch
  /\ task' = [task EXCEPT !.epoch = task.epoch + 1, !.owner = "rival",
                          !.generation = 0]
  /\ UNCHANGED <<snapshot, ack, pc, held, runtimeVars, hookVars, storeVars,
                 sessions, faults>>

RivalRelease ==
  /\ task.owner = "rival"
  /\ task' = [task EXCEPT !.owner = "free"]
  /\ UNCHANGED <<snapshot, ack, pc, held, runtimeVars, hookVars, storeVars,
                 sessions, faults>>

-----------------------------------------------------------------------------
Rotate ==
  \/ HeartbeatBeforeCheckpoint \/ Checkpoint \/ HeartbeatAfterCheckpoint
  \/ SaveCheckpoint \/ BeginStop \/ StopPredecessor \/ SaveStopped
  \/ BeginFence \/ FencePredecessor \/ SaveFenced
  \/ BeginClaim \/ ClaimSuccessor \/ SaveSuccessorClaim

Supervise ==
  \/ StartTerminal \/ ClaimRoot \/ SaveRootClaim \/ Resume
  \/ Launch \/ LaunchFails \/ SaveLaunch \/ HeartbeatAfterLaunch
  \/ TickBegin \/ TickEnsureLive \/ TickHeartbeat
  \/ FenceExited \/ SaveCompleted \/ Observe \/ ResumeRotation
  \/ AwaitAck \/ AcknowledgeStores \/ SaveAcknowledged \/ ClearAck
  \/ StopFailedSuccessor \/ SaveRetry
  \/ Rotate
  \/ FinalizeCompleted \/ ShutdownBegin \/ ShutdownRuntime \/ ShutdownFence
  \/ SaveShutdown

Guard(r) == Register(r) \/ GuardianKill(r)

Environment ==
  \/ \E r \in live : Guard(r) \/ RuntimeExit(r) \/ HookStart(r) \/ HookAwait(r)
  \/ HookLingers \/ AckDeadline \/ Elapse \/ RivalClaim \/ RivalRelease

Next == Boot \/ Supervise \/ LoopEnds \/ Unwind \/ Crash \/ Environment

Spec == Init /\ [][Next]_vars

\* The command keeps ticking, the guardian's watch loop keeps polling and time
\* passes.  Nobody promises to start the supervisor again, to keep it alive or
\* to let a hook run.
FairSpec ==
  /\ Spec
  /\ WF_vars(Supervise)
  /\ WF_vars(\E r \in live : Guard(r))
  /\ WF_vars(AckDeadline)

-----------------------------------------------------------------------------
TypeOK ==
  /\ snapshot \in Snapshot
  /\ ack \in Runtime
  /\ pc \in Places
  /\ held \in Held
  /\ task \in Task
  /\ live \subseteq Runtime /\ clean \subseteq Runtime
  /\ registered \subseteq live /\ waiting \subseteq live
  /\ dispatched \subseteq live /\ aborting \subseteq live
  /\ sessions \subseteq live
  /\ serial \in Nat
  /\ stored \in Capsule /\ accepted \in Capsule
  /\ faults \in Nat

\* At most one runtime of the chain is alive, whatever crashed in between:
\* start_fresh finds an earlier launch in its registry instead of repeating it,
\* and a failed successor is gone before the next attempt.
NoOverlap == \A r, s \in live : r = s

\* "stop while still claimed, then fence/release, then fresh successor": from
\* the moment STOPPED is durable until the next launch nothing runs.
PredecessorGone ==
  snapshot.phase \in {"stopped", "fencing", "fenced", "claiming"} => live = {}

\* Outside a shutdown the chain gives up its claim only when no runtime is left
\* that could still work on the task.
ReleasedOnlyWhenGone ==
  [][(/\ task.owner = "chain" /\ task'.owner = "free"
      /\ pc \notin Stopping) => live = {}]_vars

\* A successor is launched only with the capsule that the required stores hold
\* and that was written for its generation.
LaunchedWithCapsule ==
  [][\A r \in live' \ live :
       r.gen > 0 => /\ snapshot.fingerprint = stored
                    /\ snapshot.fingerprint.target = r.gen]_vars

\* The rotation begins to end a user's session only when the verified capsule
\* for its successor is durable in the stores and in the snapshot.
RotatesOnlyWithCapsule ==
  [][\A r \in sessions \ sessions' :
       r \in live' => /\ snapshot.fingerprint = stored
                      /\ snapshot.fingerprint.target = r.gen + 1]_vars

\* A successor's SessionStart returns, and so lets the first prompt through,
\* only after every required store acknowledged the capsule of its generation.
DispatchedOnlyAccepted ==
  [][\A r \in dispatched' \ dispatched :
       r.gen > 0 => /\ accepted = snapshot.fingerprint
                    /\ accepted.target = r.gen]_vars

\* The supervisor never ends a session that the user has and that it has not
\* begun to rotate: a fault, an interrupt, a lost lease and a restart all leave
\* the runtime running.
KeepsTheSession ==
  [][pc' # pc => \A r \in sessions : r \in live']_vars

\* The retry budget bounds the launches of a generation; each fault costs at
\* most one more.
LaunchBudget ==
  serial <= 1 + snapshot.generation * (RetryLimit + 1) + faults

\* A blocked or completed run is over: it launches nothing and takes no claim.
HaltIsFinal ==
  [][snapshot.phase \in {"blocked", "completed"} =>
       /\ snapshot'.phase = snapshot.phase
       /\ serial' = serial
       /\ task'.owner = "chain" => task.owner = "chain"]_vars

\* A completed run leaves no runtime and no running lease behind.
CompletedLeavesNothing ==
  snapshot.phase = "completed" =>
    /\ live = {}
    /\ task.owner = "chain" => task.age = Expired

\* A rotation under way ends in a running successor or in a blocked chain, or
\* the supervisor is down; in particular a successor whose hook never answers
\* does not leave both sides waiting.
HandoffSettles ==
  (/\ snapshot.phase \in {"checkpointed", "stopping", "stopped", "fencing",
                          "fenced", "claiming", "launching", "awaiting_ack"}
   /\ pc # "down")
  ~> (snapshot.phase \in Observing \cup {"blocked"} \/ pc = "down")

\* A successor whose hook requested its termination does not live on.
AbortedEnds == (aborting # {}) ~> (aborting = {})

\* The chain implements the hand-over of one seat.
Stage ==
  CASE snapshot.phase = "initial"                            -> "open"
    [] snapshot.phase = "launching" /\ snapshot.generation = 0 -> "open"
    [] snapshot.phase \in Observing \cup {"checkpointing"}   -> "serving"
    [] snapshot.phase \in {"checkpointed", "stopping"}       -> "saved"
    [] snapshot.phase \in {"stopped", "fencing"}             -> "ended"
    [] snapshot.phase \in {"fenced", "claiming"}             -> "released"
    [] snapshot.phase = "launching" /\ snapshot.generation > 0 -> "granted"
    [] snapshot.phase = "awaiting_ack"                       -> "offered"
    [] snapshot.phase = "blocked"                            -> "halted"
    [] snapshot.phase = "completed"                          -> "done"

Seat == INSTANCE Handoff WITH
  stage <- Stage, generation <- snapshot.generation,
  attempt <- snapshot.attempt, holding <- (task.owner = "chain"),
  runtimes <- live

ImplementsHandoff == Seat!Spec
=============================================================================
