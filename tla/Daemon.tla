------------------------------- MODULE Daemon -------------------------------
(***************************************************************************)
(* One daemon under controllers that share its durable record.  A          *)
(* controller serves one request after the other; an operation holds the   *)
(* daemon's lock, a request may take several operations.  The child and    *)
(* its process group live on their own: they may die at any time, and      *)
(* outlive the controller that started them.                               *)
(***************************************************************************)
EXTENDS Naturals, Sequences, FiniteSets

CONSTANTS
  Controllers,    \* processes that serve requests about the daemon
  Definitions,    \* what may be run under its key
  MaxLaunches,    \* bound: children ever created
  MaxRequests,    \* bound: requests served
  MaxFaults       \* bound: crashes, identities that are unknown, and groups
                  \* that outlive their kill

ASSUME BoundsAssumption ==
  {MaxLaunches, MaxRequests, MaxFaults} \subseteq Nat

VARIABLES
  record,     \* the durable DaemonLifecycleRecord
  lock,       \* who holds the daemon's lock
  control,    \* what each controller is doing
  child,      \* the children created so far, in order
  published,  \* history: children the record has named
  spared,     \* history: children that outlived a kill
  foreign,    \* history: children signalled by who had no right to
  budget      \* bound: requests and faults that are left

vars == <<record, lock, control, child, published, spared, foreign, budget>>

-----------------------------------------------------------------------------
NoOne      == "no one"
ASSUME ControllersAssumption == NoOne \notin Controllers
Nobody     == 0                     \* no process identity, no child handle
Phases     == {"stopped", "starting", "running", "stopping", "failed"}
Operations == {"start", "stop", "restart", "status"}

\* A child's leader runs, is dead and not reaped, or is gone; others of its
\* process group may be left.  `owner' is the controller that can reap it.
Children == [definition : Definitions, leader : {"running", "zombie", "missing"},
             group : BOOLEAN, owner : Controllers \cup {NoOne},
             generation : Nat]
Launches == DOMAIN child

\* A DaemonSupervisor: its definition, the handle of the child it created last,
\* and whether a request for this key allowed to take the process over.
Managing(d) == [definition |-> d, handle |-> Nobody, takeover |-> FALSE]
NoManager   == [definition |-> "none", handle |-> Nobody, takeover |-> FALSE]

\* `old' is the supervisor a changed definition may be rolled back to; `plan'
\* says what follows the operation that `pc' is in.
NoRequest == [op |-> "none", definition |-> "none"]
Idle(m) == [pc |-> "idle", plan |-> "reply", manager |-> m, old |-> NoManager,
            request |-> NoRequest]
Down    == [Idle(NoManager) EXCEPT !.pc = "down"]

Init ==
  /\ record = [phase |-> "stopped", generation |-> 0, identity |-> Nobody]
  /\ lock = NoOne /\ child = <<>>
  /\ control = [c \in Controllers |-> Idle(NoManager)]
  /\ published = {} /\ spared = {} /\ foreign = {}
  /\ budget = [requests |-> MaxRequests, faults |-> MaxFaults]

Fault == budget.faults > 0 /\ budget' = [budget EXCEPT !.faults = @ - 1]

-----------------------------------------------------------------------------
(* Children *)

ChildrenOnly == UNCHANGED <<record, lock, control, published, spared, foreign, budget>>

\* The leader exits; its controller has to reap it, or init does.
Exit(i, left) ==
  /\ child[i].leader = "running"
  /\ child' = [child EXCEPT ![i].group = left,
                 ![i].leader = IF child[i].owner = NoOne THEN "missing" ELSE "zombie"]
  /\ ChildrenOnly

GroupEnds(i) ==
  /\ child[i].group /\ child' = [child EXCEPT ![i].group = FALSE]
  /\ ChildrenOnly

\* What is left of the children when controller c is gone.
Orphaned(c) ==
  [i \in Launches |->
     IF child[i].owner # c THEN child[i]
     ELSE [child[i] EXCEPT !.owner = NoOne,
             !.leader = IF @ = "zombie" THEN "missing" ELSE @]]

\* The whole group ends; who owns the leader reaps it.
Ended(i, c) ==
  [child EXCEPT ![i].group = FALSE,
     ![i].leader = IF child[i].owner \in {c, NoOne} THEN "missing" ELSE "zombie"]

\* A group is signalled: by its owner, or by who may take it over.
Signalled(c, i) ==
  foreign' = IF child[i].owner = c \/ control[c].manager.takeover
             THEN foreign ELSE foreign \cup {i}

\* Faulty variant: what cannot be told is taken for gone.
SeesAbsence(i, answer) ==
  \/ answer = child[i].leader /\ UNCHANGED budget
  \/ answer = "missing" /\ Fault

\* observe_process_identity tells the truth or does not know.
Sees(i, answer) ==
  \/ answer = child[i].leader /\ UNCHANGED budget
  \/ answer = "unknown" /\ Fault

-----------------------------------------------------------------------------
(* What follows an operation that has published `rec' and leaves k behind    *)

\* The answer is sent, or the error.
Replies(k) == Idle(k.manager)

\* What _dispatch_definition_drift and _restart_definition ask for: something
\* runs, or may.
Owns(k)          == k.manager.handle # Nobody /\ child[k.manager.handle].leader # "missing"
Occupied(k, rec) == rec.phase = "running" \/ rec.identity # Nobody \/ Owns(k)

\* Faulty variant: the new definition is noted and the supervisor kept.
AfterNoting(k, rec) ==
  [Idle([k.manager EXCEPT !.definition = k.request.definition]) EXCEPT !.pc = k.request.op,
     !.plan = IF k.request.op = "stop" THEN "forget" ELSE "reply"]

\* A status under the old definition has answered.
AfterObserving(k, rec) ==
  IF k.request.op = "stop" THEN [Idle(k.manager) EXCEPT !.pc = "stop", !.plan = "forget"]
  ELSE IF ~Occupied(k, rec)
       THEN [Idle(Managing(k.request.definition)) EXCEPT !.pc = k.request.op]
  ELSE IF k.request.op = "status" THEN Replies(k)
  ELSE [k EXCEPT !.pc = "stop", !.plan = "replace"]

\* The launch of the new definition has failed and a status has answered: what
\* may be running stays, else the old supervisor starts its definition again.
AfterRecovering(k, rec) ==
  IF Occupied(k, rec) THEN Replies(k)
  ELSE [k EXCEPT !.manager = k.old, !.old = NoManager, !.pc = "start", !.plan = "rollback"]

\* Faulty variant: the new definition is started beside the old child.
ReplacesAtOnce(k, rec) ==
  CASE k.plan = "observe" -> [Idle(Managing(k.request.definition)) EXCEPT !.pc = k.request.op]
    [] k.plan = "close" -> [k EXCEPT !.pc = "closing"]
    [] OTHER -> Replies(k)

Succeeded(k, rec) ==
  CASE k.plan = "reply"    -> Replies(k)
    [] k.plan = "forget"   -> Replies([k EXCEPT !.manager = NoManager])
    [] k.plan = "observe"  -> AfterObserving(k, rec)
    [] k.plan = "replace"  -> [k EXCEPT !.old = k.manager,
                                 !.manager = Managing(k.request.definition),
                                 !.pc = "start", !.plan = "launch", !.request = NoRequest]
    [] k.plan = "launch"   -> Replies(k)
    [] k.plan = "recover"  -> AfterRecovering(k, rec)
    [] k.plan = "rollback" -> Replies(k)
    [] k.plan = "close"    -> [k EXCEPT !.pc = "closing"]

Failed(k) ==
  CASE k.plan = "launch" -> [k EXCEPT !.pc = "status", !.plan = "recover"]
    [] k.plan = "close"  -> [k EXCEPT !.pc = "closing"]
    [] k.plan \in {"recover", "rollback"} -> Replies(k)
    [] OTHER -> Replies(k)

Publish(rec) ==
  /\ record' = rec
  /\ published' = IF rec.identity = Nobody THEN published ELSE published \cup {rec.identity}

\* The record with another phase, the same generation and no process.
Marked(phase) == [record EXCEPT !.phase = phase, !.identity = Nobody]

\* The operation returns, or raises with the record at `rec', and gives the lock.
Returns(c, k, rec) ==
  /\ Publish(rec) /\ lock' = NoOne
  /\ control' = [control EXCEPT ![c] = Succeeded(k, rec)]

\* Faulty variant: an error keeps the lock.
RaisesLocked(c, k, rec) ==
  /\ Publish(rec) /\ lock' = c
  /\ control' = [control EXCEPT ![c] = Failed(k)]

Raises(c, k, rec) ==
  /\ Publish(rec) /\ lock' = NoOne
  /\ control' = [control EXCEPT ![c] = Failed(k)]

\* The operation goes on under the lock.
GoesOn(c, k, rec) ==
  /\ Publish(rec) /\ lock' = c /\ control' = [control EXCEPT ![c] = k]

Enters(c, op) == control[c].pc = op /\ lock = NoOne

Busy(c) ==
  /\ control[c].pc \in Operations /\ lock \notin {NoOne, c}
  /\ control' = [control EXCEPT ![c] = Failed(@)]
  /\ UNCHANGED <<record, lock, child, published, spared, foreign, budget>>

-----------------------------------------------------------------------------
(* DaemonSupervisor.start *)

Starting(generation) ==
  [phase |-> "starting", generation |-> generation, identity |-> Nobody]

Start(c) ==
  LET k == control[c]  i == record.identity IN
  /\ Enters(c, "start")
  /\ IF i = Nobody
     THEN GoesOn(c, [k EXCEPT !.pc = "spawn"], Starting(record.generation + 1)) /\ UNCHANGED budget
     ELSE \/ /\ Sees(i, "running")
             /\ Returns(c, k, [record EXCEPT !.phase = "running"])
          \/ Sees(i, "unknown") /\ Raises(c, k, record)
          \/ /\ \E gone \in {"zombie", "missing"} : Sees(i, gone)
             /\ GoesOn(c, [k EXCEPT !.pc = "spawn"], Starting(record.generation + 1))
  /\ UNCHANGED <<child, spared, foreign>>

Spawn(c) ==
  LET k == control[c] IN
  /\ k.pc = "spawn"
  /\ \/ /\ Raises(c, k, Marked("failed")) /\ UNCHANGED child
     \/ /\ Len(child) < MaxLaunches
        /\ child' = Append(child, [definition |-> k.manager.definition, leader |-> "running",
                                   group |-> FALSE, owner |-> c,
                                   generation |-> record.generation])
        /\ GoesOn(c, [k EXCEPT !.pc = "probe", !.manager.handle = Len(child) + 1], record)
  /\ UNCHANGED <<spared, foreign, budget>>

\* The child is probed once; a child that runs is published.
Probe(c) ==
  LET k == control[c]  i == k.manager.handle IN
  /\ k.pc = "probe"
  /\ \/ /\ Sees(i, "running")
        /\ Returns(c, k, [record EXCEPT !.phase = "running", !.identity = i])
     \/ /\ child[i].leader = "running" /\ UNCHANGED budget
        /\ GoesOn(c, [k EXCEPT !.pc = "undo"], record)
     \/ /\ \E lost \in {"zombie", "unknown"} : Sees(i, lost)
        /\ GoesOn(c, [k EXCEPT !.pc = "cleanup"], record)
  /\ UNCHANGED <<child, spared, foreign>>

Released(k) == [k EXCEPT !.manager.handle = Nobody]

\* _terminate_owned_child of a launch that failed its probe; when the group
\* survives, the record still says STARTING and the handle is kept.
Cleanup(c) ==
  LET k == control[c]  i == k.manager.handle IN
  /\ k.pc = "cleanup" /\ Signalled(c, i)
  /\ \/ /\ child' = Ended(i, c) /\ UNCHANGED <<spared, budget>>
        /\ Raises(c, Released(k), Marked("failed"))
     \/ /\ Fault /\ spared' = spared \cup {i} /\ UNCHANGED child
        /\ Raises(c, k, record)

\* The same for a publication that failed; so may the one that says FAILED.
Undo(c) ==
  LET k == control[c]  i == k.manager.handle IN
  /\ k.pc = "undo" /\ Signalled(c, i)
  /\ \/ /\ child' = Ended(i, c) /\ UNCHANGED <<spared, budget>>
        /\ \E rec \in {Marked("failed"), record} : Raises(c, Released(k), rec)
     \/ /\ Fault /\ spared' = spared \cup {i} /\ UNCHANGED child
        /\ \E rec \in {[record EXCEPT !.phase = "failed", !.identity = i], record} :
             Raises(c, k, rec)

-----------------------------------------------------------------------------
(* DaemonSupervisor.stop and restart *)

\* A restart goes on with the launch of the next generation.
Stopped(c, k) ==
  IF k.pc \in {"restart", "rekill"}
  THEN GoesOn(c, [k EXCEPT !.pc = "relaunch"], Marked("stopped"))
  ELSE Returns(c, k, Marked("stopped"))

\* Faulty variant: a dead leader is reaped and its group forgotten.
StopReaps(c, k, i) ==
  /\ child' = IF k.manager.handle = i THEN [child EXCEPT ![i].leader = "missing"] ELSE child
  /\ Stopped(c, IF k.manager.handle = i THEN Released(k) ELSE k)
  /\ UNCHANGED <<spared, foreign, budget>>

\* The leader is dead and not reaped.  Its owner ends what is left of the group;
\* another controller calls the daemon stopped, unless it may take it over.
StopZombie(c, k, i) ==
  LET owns == k.manager.handle = i IN
  \/ /\ child[i].group /\ owns /\ Signalled(c, i)
     /\ \/ /\ child' = Ended(i, c) /\ UNCHANGED <<spared, budget>>
           /\ Stopped(c, Released(k))
        \/ /\ Fault /\ spared' = spared \cup {i} /\ UNCHANGED child
           /\ Raises(c, k, record)
  \/ /\ IF owns THEN ~child[i].group ELSE ~(child[i].group /\ k.manager.takeover)
     /\ child' = IF owns THEN [child EXCEPT ![i].leader = "missing"] ELSE child
     /\ Stopped(c, IF owns THEN Released(k) ELSE k)
     /\ UNCHANGED <<spared, foreign, budget>>

\* Faulty variant: whoever is asked may signal.
MaySignalAnyone(k, i) == TRUE

MaySignal(k, i) == k.manager.handle = i \/ k.manager.takeover

\* A verified leader is signalled in the next step; a zombie whose group is left
\* only by who took it over.
StopRunning(c, k, i) ==
  \/ /\ MaySignal(k, i)
     /\ GoesOn(c, [k EXCEPT !.pc = IF k.pc = "restart" THEN "rekill" ELSE "kill"],
               [record EXCEPT !.phase = "stopping"])
  \/ ~MaySignal(k, i) /\ Raises(c, k, record)

Stop(c) ==
  LET k == control[c]  i == record.identity IN
  /\ Enters(c, "stop") \/ Enters(c, "restart")
  /\ \/ i = Nobody /\ Stopped(c, k) /\ UNCHANGED <<child, spared, foreign, budget>>
     \/ /\ i # Nobody /\ child[i].leader = "missing"
        /\ IF k.manager.handle = i THEN Raises(c, k, record) ELSE Stopped(c, k)
        /\ UNCHANGED <<child, spared, foreign, budget>>
     \/ /\ i # Nobody /\ Sees(i, "unknown") /\ Raises(c, k, record)
        /\ UNCHANGED <<child, spared, foreign>>
     \/ i # Nobody /\ child[i].leader = "zombie" /\ StopZombie(c, k, i)
     \/ /\ i # Nobody
        /\ \/ child[i].leader = "running"
           \/ /\ child[i].leader = "zombie" /\ child[i].group
              /\ k.manager.handle # i /\ k.manager.takeover
        /\ StopRunning(c, k, i)
        /\ UNCHANGED <<child, spared, foreign, budget>>

\* SIGTERM, a wait, SIGKILL, a wait; what is left after that is recorded.
Kill(c) ==
  LET k == control[c]  i == record.identity IN
  /\ k.pc \in {"kill", "rekill"} /\ Signalled(c, i)
  /\ \/ child' = Ended(i, c) /\ Stopped(c, k) /\ UNCHANGED <<spared, budget>>
     \/ /\ Fault /\ spared' = spared \cup {i} /\ UNCHANGED child
        /\ Raises(c, k, [record EXCEPT !.phase = "failed"])

\* Faulty variant: a restart keeps the generation.
RelaunchSame(c) ==
  /\ control[c].pc = "relaunch"
  /\ GoesOn(c, [control[c] EXCEPT !.pc = "spawn"], Starting(record.generation))
  /\ UNCHANGED <<child, spared, foreign, budget>>

Relaunch(c) ==
  /\ control[c].pc = "relaunch"
  /\ GoesOn(c, [control[c] EXCEPT !.pc = "spawn"], Starting(record.generation + 1))
  /\ UNCHANGED <<child, spared, foreign, budget>>

-----------------------------------------------------------------------------
(* DaemonSupervisor.status *)

Status(c) ==
  LET k == control[c]  i == record.identity  owns == k.manager.handle = i IN
  /\ Enters(c, "status")
  /\ \/ i = Nobody /\ Returns(c, k, record) /\ UNCHANGED <<child, budget>>
     \/ i # Nobody /\ Sees(i, "unknown") /\ Raises(c, k, record) /\ UNCHANGED child
     \/ /\ i # Nobody /\ Sees(i, "running") /\ UNCHANGED child
        /\ Returns(c, k, [record EXCEPT !.phase = "running"])
     \/ /\ i # Nobody /\ Sees(i, "zombie") /\ UNCHANGED child
        /\ child[i].group /\ (owns \/ k.manager.takeover)
        /\ Returns(c, k, [record EXCEPT !.phase = "failed"])
     \/ /\ i # Nobody /\ \E gone \in {"zombie", "missing"} : Sees(i, gone)
        /\ ~(child[i].leader = "zombie" /\ child[i].group /\ (owns \/ k.manager.takeover))
        /\ child' = IF owns THEN [child EXCEPT ![i].leader = "missing"] ELSE child
        /\ Returns(c, IF owns THEN Released(k) ELSE k, Marked("stopped"))
  /\ UNCHANGED <<spared, foreign>>

-----------------------------------------------------------------------------
(* DaemonControllerServer *)

\* A request finds or makes the supervisor of the key; with another definition
\* the old supervisor is asked for the status first.
Accept(c, op, d, takeover) ==
  LET m == IF control[c].manager = NoManager THEN Managing(d) ELSE control[c].manager
      allowed == [m EXCEPT !.takeover = @ \/ takeover]
      request == [op |-> op, definition |-> d]
  IN
  /\ control[c].pc = "idle" /\ budget.requests > 0
  /\ control' = [control EXCEPT ![c] =
       IF m.definition = d
       THEN [Idle(allowed) EXCEPT !.pc = op, !.plan = IF op = "stop" THEN "forget" ELSE "reply"]
       ELSE [Idle(allowed) EXCEPT !.pc = "status", !.request = request, !.plan = "observe"]]
  /\ budget' = [budget EXCEPT !.requests = @ - 1]
  /\ UNCHANGED <<record, lock, child, published, spared, foreign>>

\* An orderly end stops the daemon if it can.
Close(c) ==
  /\ control[c].pc = "idle"
  /\ control' = [control EXCEPT ![c] =
       IF @.manager = NoManager THEN [@ EXCEPT !.pc = "closing"]
       ELSE [Idle(@.manager) EXCEPT !.pc = "stop", !.plan = "close"]]
  /\ UNCHANGED <<record, lock, child, published, spared, foreign, budget>>

Leaves(c) == control' = [control EXCEPT ![c] = Down] /\ child' = Orphaned(c)

Leave(c) ==
  /\ control[c].pc = "closing" /\ Leaves(c)
  /\ UNCHANGED <<record, lock, published, spared, foreign, budget>>

Crash(c) ==
  /\ control[c].pc \notin {"down", "closing"} /\ Fault /\ Leaves(c)
  /\ lock' = IF lock = c THEN NoOne ELSE lock
  /\ UNCHANGED <<record, published, spared, foreign>>

Serve(c) ==
  /\ control[c].pc = "down"
  /\ control' = [control EXCEPT ![c] = Idle(NoManager)]
  /\ UNCHANGED <<record, lock, child, published, spared, foreign, budget>>

Operate(c) ==
  \/ Start(c) \/ Spawn(c) \/ Probe(c) \/ Cleanup(c) \/ Undo(c)
  \/ Stop(c) \/ Kill(c) \/ Relaunch(c) \/ Status(c) \/ Busy(c)

Next ==
  \/ \E c \in Controllers :
       \/ Operate(c) \/ Close(c) \/ Leave(c) \/ Crash(c) \/ Serve(c)
       \/ \E op \in Operations, d \in Definitions, t \in BOOLEAN : Accept(c, op, d, t)
  \/ \E i \in Launches : GroupEnds(i) \/ \E left \in BOOLEAN : Exit(i, left)

Spec == Init /\ [][Next]_vars

-----------------------------------------------------------------------------
TypeOK ==
  /\ record \in [phase : Phases, generation : Nat, identity : {Nobody} \cup Launches]
  /\ record.phase = "running" => record.identity # Nobody
  /\ lock \in Controllers \cup {NoOne} /\ child \in Seq(Children)
  /\ \A c \in Controllers :
       /\ control[c].manager.handle \in {Nobody} \cup Launches
       /\ control[c].pc \in {"spawn", "probe", "undo", "cleanup", "kill", "rekill",
                             "relaunch"} <=> lock = c
  /\ published \subseteq Launches /\ spared \subseteq Launches

\* A child that the record has named and that still runs is the one it names:
\* neither a crash nor another controller makes a running daemon forgotten, and
\* no second one is published beside it (daemon_supervisor.py:81-88, 218-284).
NamedOrGone ==
  \A i \in published : child[i].leader = "running" => record.identity = i

\* Nobody signals a process group but the controller that started it, or one
\* that a request for the daemon allowed to (README.md:122-126).
SignalsAuthorised == foreign = {}

\* When the owner of the recorded child calls the daemon stopped, its process
\* group is empty, also when the leader had died before.
OwnersStopIsWhole ==
  [][\A c \in Controllers :
       /\ control'[c] # control[c] /\ record.identity # Nobody
       /\ control[c].manager.handle = record.identity
       /\ record'.phase = "stopped"
       => child'[record.identity].leader # "running" /\ ~child'[record.identity].group]_vars

\* No two children share a generation, whoever launched them and however the
\* launch ended.
OwnGeneration ==
  \A i, j \in Launches : child[i].generation = child[j].generation => i = j

\* A controller keeps the handle of its running child, through every change of
\* definition and roll-back, unless the child outlived its kill.
KeepsItsChild ==
  \A c \in Controllers, i \in Launches :
    child[i].owner = c /\ child[i].leader = "running" =>
      i \in spared \cup {control[c].manager.handle, control[c].old.handle}

\* Between requests, the child a controller has started runs the definition that
\* the controller goes by.
RunsItsDefinition ==
  \A c \in Controllers :
    LET m == control[c].manager IN
    control[c].pc = "idle" /\ m.handle # Nobody /\ child[m.handle].leader = "running" =>
      child[m.handle].definition = m.definition
=============================================================================
