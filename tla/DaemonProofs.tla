---------------------------- MODULE DaemonProofs ----------------------------
(***************************************************************************)
(* Who may signal a daemon, what its record names and which generation a   *)
(* child has, for any number of controllers, definitions, launches,        *)
(* requests and faults.                                                    *)
(***************************************************************************)
EXTENDS Daemon, SequenceTheorems, TLAPS

-----------------------------------------------------------------------------
(* The inductive invariant                                                   *)

LockedPcs == {"spawn", "probe", "undo", "cleanup", "kill", "rekill", "relaunch"}
FreePcs   == {"idle", "closing", "down"} \cup Operations
Plans     == {"reply", "forget", "observe", "replace", "launch", "recover", "rollback", "close"}
Managers  == [definition : Definitions \cup {"none"}, handle : {Nobody} \cup Launches,
              takeover : BOOLEAN]
Requests  == [op : Operations \cup {"none"}, definition : Definitions \cup {"none"}]
Controls  == [pc : LockedPcs \cup FreePcs, plan : Plans, manager : Managers, old : Managers,
              request : Requests]
Records   == [phase : Phases, generation : Nat, identity : {Nobody} \cup Launches]

\* A controller holds the handles of its own children only, and has a definition
\* for whatever it is about to launch.
Sensible(c, k) ==
  /\ k \in Controls
  /\ k.manager.handle # Nobody => child[k.manager.handle].owner = c
  /\ k.old.handle # Nobody => child[k.old.handle].owner = c
  /\ k.manager = NoManager \/ k.manager.definition \in Definitions
  /\ k.pc \in Operations \cup LockedPcs => k.manager.definition \in Definitions
  /\ k.plan \in {"launch", "recover"} => k.old.definition \in Definitions
  /\ k.plan \in {"observe", "replace"} =>
       k.request.op \in Operations /\ k.request.definition \in Definitions

\* What the holder of the lock has made of the record.
Prepared(k) ==
  /\ k.pc = "spawn" => record.phase = "starting" /\ \A i \in Launches : child[i].generation < record.generation
  /\ k.pc \in {"spawn", "probe", "undo", "cleanup", "relaunch"} => record.identity = Nobody
  /\ k.pc \in {"probe", "undo", "cleanup"} => k.manager.handle # Nobody
  /\ k.pc \in {"kill", "rekill"} => record.identity # Nobody /\ MaySignal(k, record.identity)

RecordFit ==
  /\ record \in Records
  /\ record.phase = "running" => record.identity # Nobody
  /\ record.identity # Nobody => record.phase # "stopped"

\* A leader that its owner has reaped leaves no group behind.
ChildFit ==
  /\ child \in Seq(Children) /\ OwnGeneration
  /\ \A i \in Launches :
       /\ child[i].generation <= record.generation
       /\ child[i].leader = "missing" /\ child[i].owner # NoOne => ~child[i].group
HistoryFit ==
  published \subseteq Launches /\ spared \subseteq Launches /\ foreign = {} /\ NamedOrGone
LockFit ==
  /\ lock \in Controllers \cup {NoOne}
  /\ \A c \in Controllers : control[c].pc \in LockedPcs <=> lock = c
ControlFit ==
  /\ control = [c \in Controllers |-> control[c]]
  /\ \A c \in Controllers : Sensible(c, control[c]) /\ Prepared(control[c])

Inv == RecordFit /\ ChildFit /\ HistoryFit /\ LockFit /\ ControlFit

-----------------------------------------------------------------------------
(* Children                                                                  *)

\* What may happen to children that exist: none comes to life again.
Ages ==
  /\ child' \in Seq(Children) /\ Len(child') = Len(child)
  /\ \A i \in Launches :
       /\ child'[i].generation = child[i].generation
       /\ child'[i].leader = "running" => child[i].leader = "running"
       /\ child'[i].leader = "missing" /\ child'[i].owner # NoOne => ~child'[i].group
OwnersStay == \A i \in Launches : child'[i].owner = child[i].owner
KeepsOwners(c) == \A i \in Launches : child[i].owner # c => child'[i].owner = child[i].owner

\* Ageing keeps what is known of the children.
LEMMA AgesFit ==
  ASSUME Inv, Ages, record'.generation \in Nat, record.generation <= record'.generation
  PROVE  ChildFit' /\ Launches' = Launches
<1>1. Launches' = Launches BY DEF Inv, ChildFit, Ages, Launches
<1>2. ASSUME NEW i \in Launches PROVE child[i].generation \in Nat
  <2>1. child[i] \in Children BY DEF Inv, ChildFit, Launches
  <2>2. QED BY <2>1 DEF Children
<1>3. \A i \in Launches : child'[i].generation <= record'.generation
  BY <1>2 DEF Inv, ChildFit, RecordFit, Records, Ages
<1>4. OwnGeneration' BY <1>1 DEF Inv, ChildFit, OwnGeneration, Ages
<1>5. QED BY <1>1, <1>3, <1>4 DEF ChildFit, Ages

\* One child changes, and ages.
LEMMA OneAges ==
  ASSUME Inv, NEW i \in Launches, NEW x \in Children, child' = [child EXCEPT ![i] = x],
         x.generation = child[i].generation, x.owner = child[i].owner,
         x.leader = "running" => child[i].leader = "running",
         x.leader = "missing" /\ x.owner # NoOne => ~x.group
  PROVE  Ages /\ OwnersStay /\ child'[i] = x
<1>1. child \in Seq(Children) /\ i \in 1 .. Len(child) BY DEF Inv, ChildFit, Launches
<1>2. child' \in Seq(Children) /\ Len(child') = Len(child) BY <1>1
<1>3. \A j \in Launches : child'[j] = IF j = i THEN x ELSE child[j]
  BY <1>1 DEF Launches
<1>4. QED BY <1>2, <1>3 DEF Ages, OwnersStay, Inv, ChildFit

\* Nothing happens to any child.
LEMMA NoneAges ==
  ASSUME Inv, UNCHANGED child PROVE Ages /\ OwnersStay
BY DEF Ages, OwnersStay, Inv, ChildFit

\* A group that is killed is gone, with its leader.
LEMMA EndedAges ==
  ASSUME Inv, NEW i \in Launches, NEW c, child' = Ended(i, c)
  PROVE  /\ Ages /\ OwnersStay
         /\ child'[i].leader # "running" /\ ~child'[i].group
<1> DEFINE x == [child[i] EXCEPT !.group = FALSE,
                   !.leader = IF child[i].owner \in {c, NoOne} THEN "missing" ELSE "zombie"]
<1>1. child[i] \in Children BY DEF Inv, ChildFit, Launches
<1>2. x \in Children /\ x.generation = child[i].generation /\ x.owner = child[i].owner
      /\ x.leader # "running" /\ ~x.group
  BY <1>1 DEF Children
<1>3. child' = [child EXCEPT ![i] = x] BY <1>1 DEF Ended, Inv, ChildFit, Launches
<1> HIDE DEF x
<1>4. QED BY <1>2, <1>3, OneAges

\* A leader is reaped when its group is empty, or nobody else counts on it.
LEMMA ReapedAges ==
  ASSUME Inv, NEW i \in Launches, child' = [child EXCEPT ![i].leader = "missing"],
         child[i].owner # NoOne => ~child[i].group
  PROVE  /\ Ages /\ OwnersStay
         /\ child'[i].leader # "running" /\ (~child[i].group => ~child'[i].group)
<1> DEFINE x == [child[i] EXCEPT !.leader = "missing"]
<1>1. child[i] \in Children BY DEF Inv, ChildFit, Launches
<1>2. x \in Children /\ x.generation = child[i].generation /\ x.owner = child[i].owner
      /\ x.leader = "missing" /\ (~child[i].group => ~x.group)
  BY <1>1 DEF Children
<1>3. child' = [child EXCEPT ![i] = x] BY <1>1 DEF Inv, ChildFit, Launches
<1> HIDE DEF x
<1>4. QED BY <1>2, <1>3, OneAges

\* The children of a controller that is gone age as the others do.
LEMMA OrphanedAges ==
  ASSUME Inv, NEW c \in Controllers, child' = Orphaned(c)
  PROVE  Ages /\ KeepsOwners(c)
<1> DEFINE x(i) == IF child[i].owner # c THEN child[i]
                   ELSE [child[i] EXCEPT !.owner = NoOne,
                           !.leader = IF @ = "zombie" THEN "missing" ELSE @]
<1>1. child \in Seq(Children) BY DEF Inv, ChildFit
<1>2. ASSUME NEW i \in Launches
      PROVE  /\ x(i) \in Children /\ x(i).generation = child[i].generation
             /\ x(i).leader = "running" => child[i].leader = "running"
             /\ x(i).leader = "missing" /\ x(i).owner # NoOne => ~x(i).group
             /\ child[i].owner # c => x(i).owner = child[i].owner
  <2>1. child[i] \in Children BY <1>1 DEF Launches
  <2>2. QED BY <2>1 DEF Children, Inv, ChildFit
<1>3. child' = [i \in Launches |-> x(i)] BY DEF Orphaned
<1> HIDE DEF x
<1>4. child' \in Seq(Children) /\ Len(child') = Len(child)
      /\ \A i \in Launches : child'[i] = x(i)
  BY <1>1, <1>2, <1>3 DEF Launches
<1>5. QED BY <1>2, <1>4 DEF Ages, KeepsOwners

-----------------------------------------------------------------------------
(* Controllers                                                               *)

\* What a controller holds is not disturbed by the others.
LEMMA OthersKeep ==
  ASSUME Inv, NEW d \in Controllers, control'[d] = control[d],
         Launches \subseteq Launches',
         \A i \in Launches : child[i].owner = d => child'[i].owner = d
  PROVE  Sensible(d, control[d])'
<1>1. Sensible(d, control[d]) BY DEF Inv, ControlFit
<1>2. control[d].manager.handle \in {Nobody} \cup Launches
      /\ control[d].old.handle \in {Nobody} \cup Launches
  BY <1>1 DEF Sensible, Controls, Managers
<1>3. control[d] \in Controls'
  <2>1. Managers \subseteq Managers' BY DEF Managers
  <2>2. QED BY <1>1, <2>1 DEF Sensible, Controls
<1>4. QED BY <1>1, <1>2, <1>3 DEF Sensible

\* A step under the lock, of the controller that holds it, takes it or gives it back.
LEMMA Turn ==
  ASSUME Inv, NEW c \in Controllers, lock \in {NoOne, c},
         control' = [control EXCEPT ![c] = control'[c]],
         lock' = IF control'[c].pc \in LockedPcs THEN c ELSE NoOne,
         Sensible(c, control[c])', Prepared(control[c])', Publish(record'),
         RecordFit', ChildFit', Launches \subseteq Launches', KeepsOwners(c),
         UNCHANGED foreign, spared' \subseteq Launches',
         \A j \in published : child'[j].leader = "running" => record'.identity = j
  PROVE  Inv'
<1>1. LockFit'
  BY ControllersAssumption DEF Inv, LockFit, ControlFit
<1>2. HistoryFit'
  BY DEF Inv, HistoryFit, Publish, NamedOrGone, RecordFit, Records
<1>3. ASSUME NEW d \in Controllers PROVE Sensible(d, control[d])' /\ Prepared(control[d])'
  <2>1. CASE d = c BY <2>1
  <2>2. CASE d # c
    <3>1. control'[d] = control[d] /\ control[d].pc \notin LockedPcs
      BY <2>2, ControllersAssumption DEF Inv, LockFit, ControlFit
    <3>2. Sensible(d, control[d])' BY <2>2, <3>1, OthersKeep DEF KeepsOwners
    <3>3. Prepared(control[d])' BY <3>1 DEF Prepared, LockedPcs
    <3>4. QED BY <3>2, <3>3
  <2>3. QED BY <2>1, <2>2
<1>4. ControlFit' BY <1>3 DEF Inv, ControlFit
<1>5. QED BY <1>1, <1>2, <1>4 DEF Inv

\* A step of a controller that neither holds the lock nor takes it.
LEMMA Aside ==
  ASSUME Inv, NEW c \in Controllers, control' = [control EXCEPT ![c] = control'[c]],
         control[c].pc \notin LockedPcs, control'[c].pc \notin LockedPcs,
         UNCHANGED <<record, lock, published, spared, foreign>>,
         Sensible(c, control[c])', Ages, KeepsOwners(c)
  PROVE  Inv'
<1>1. ChildFit' /\ Launches' = Launches /\ RecordFit'
  BY AgesFit DEF Inv, RecordFit, Records
<1>2. LockFit' BY DEF Inv, LockFit, ControlFit
<1>3. HistoryFit' BY <1>1 DEF Inv, HistoryFit, NamedOrGone, Ages
<1>4. ASSUME NEW d \in Controllers PROVE Sensible(d, control[d])' /\ Prepared(control[d])'
  <2>1. CASE d = c BY <2>1 DEF Prepared, LockedPcs
  <2>2. CASE d # c
    <3>1. control'[d] = control[d] /\ Prepared(control[d])
      BY <2>2 DEF Inv, ControlFit
    <3>2. Sensible(d, control[d])' BY <1>1, <2>2, <3>1, OthersKeep DEF KeepsOwners
    <3>3. Prepared(control[d])' BY <1>1, <3>1 DEF Prepared, MaySignal, Ages
    <3>4. QED BY <3>2, <3>3
  <2>3. QED BY <2>1, <2>2
<1>5. ControlFit' BY <1>4 DEF Inv, ControlFit
<1>6. QED BY <1>1, <1>2, <1>3, <1>5 DEF Inv

\* The parts that a controller's state is made of.
LEMMA Parts ==
  ASSUME NEW c, NEW k, Sensible(c, k)'
  PROVE  /\ k.manager \in Managers' /\ k.old \in Managers' /\ k.request \in Requests
         /\ k.plan \in Plans /\ k \in Controls'
         /\ NoManager \in Managers' /\ NoManager.handle = Nobody /\ NoRequest \in Requests
         /\ \A d \in Definitions :
              Managing(d) \in Managers' /\ Managing(d).handle = Nobody /\ Managing(d).definition = d
         /\ \A m : Idle(m) = [pc |-> "idle", plan |-> "reply", manager |-> m, old |-> NoManager,
                              request |-> NoRequest]
<1>1. k \in Controls' BY DEF Sensible
<1>2. k.manager \in Managers' /\ k.old \in Managers' /\ k.request \in Requests /\ k.plan \in Plans
  BY <1>1 DEF Controls
<1>3. NoManager \in Managers' /\ NoManager.handle = Nobody BY DEF NoManager, Managers
<1>4. NoRequest \in Requests BY DEF NoRequest, Requests
<1>5. ASSUME NEW d \in Definitions
      PROVE  Managing(d) \in Managers' /\ Managing(d).handle = Nobody /\ Managing(d).definition = d
  BY DEF Managing, Managers
<1>6. QED BY <1>1, <1>2, <1>3, <1>4, <1>5 DEF Idle

\* A controller that only has a supervisor is sensible at rest or before an operation.
LEMMA IdleIsSensible ==
  ASSUME NEW c, NEW m \in Managers', NEW pc \in FreePcs, NEW plan \in {"reply", "forget", "close"},
         m.handle # Nobody => child'[m.handle].owner = c,
         m = NoManager \/ m.definition \in Definitions,
         pc \in Operations => m.definition \in Definitions,
         NEW n, n = [pc |-> pc, plan |-> plan, manager |-> m, old |-> NoManager, request |-> NoRequest]
  PROVE  Sensible(c, n)' /\ n.pc \notin LockedPcs
<1>1. NoManager \in Managers' /\ NoManager.handle = Nobody BY DEF NoManager, Managers
<1>2. NoRequest \in Requests BY DEF NoRequest, Requests
<1>3. pc \notin LockedPcs BY DEF FreePcs, LockedPcs, Operations
<1>4. n \in Controls' BY <1>1, <1>2 DEF Controls, Plans
<1>5. QED BY <1>1, <1>3, <1>4 DEF Sensible, LockedPcs, FreePcs, Operations

\* What follows an operation that returns is sensible, whatever the plan says.
LEMMA AfterSuccess ==
  ASSUME NEW c, NEW k, NEW rec, NEW n, n = Succeeded(k, rec), Sensible(c, k)',
         k.manager.definition \in Definitions
  PROVE  Sensible(c, n)' /\ n.pc \notin LockedPcs
<1>0. /\ k.manager \in Managers' /\ k.old \in Managers' /\ k.request \in Requests
      /\ k.plan \in Plans /\ k \in Controls'
      /\ NoManager \in Managers' /\ NoManager.handle = Nobody /\ NoRequest \in Requests
      /\ \A d \in Definitions :
           Managing(d) \in Managers' /\ Managing(d).handle = Nobody /\ Managing(d).definition = d
      /\ \A m : Idle(m) = [pc |-> "idle", plan |-> "reply", manager |-> m, old |-> NoManager,
                           request |-> NoRequest]
  BY Parts
<1>1. k.manager.handle # Nobody => child'[k.manager.handle].owner = c BY DEF Sensible
<1>2. CASE n = Replies(k)
  <2>1. n = [pc |-> "idle", plan |-> "reply", manager |-> k.manager, old |-> NoManager,
             request |-> NoRequest]
    BY <1>0, <1>2 DEF Replies
  <2>2. "idle" \in FreePcs \ Operations BY DEF FreePcs, Operations
  <2>3. QED BY <1>0, <1>1, <2>1, <2>2, IdleIsSensible
<1>3. CASE k.plan = "forget"
  <2>1. n = Idle(NoManager) BY <1>0, <1>3 DEF Succeeded, Replies, Controls
  <2>2. QED BY <1>0, <2>1, IdleIsSensible DEF FreePcs, Operations
<1>4. CASE k.plan = "observe"
  <2>1. n = AfterObserving(k, rec) /\ k.request.op \in Operations /\ k.request.definition \in Definitions
    BY <1>4 DEF Succeeded, Sensible
  <2>2. CASE n = [Idle(k.manager) EXCEPT !.pc = "stop", !.plan = "forget"]
    BY <1>0, <1>1, <2>2, IdleIsSensible DEF FreePcs, Operations
  <2>3. CASE n = [Idle(Managing(k.request.definition)) EXCEPT !.pc = k.request.op]
    <3>1. n = [pc |-> k.request.op, plan |-> "reply", manager |-> Managing(k.request.definition),
               old |-> NoManager, request |-> NoRequest]
      BY <1>0, <2>3
    <3>2. QED BY <1>0, <2>1, <3>1, IdleIsSensible DEF FreePcs
  <2>4. CASE n = [k EXCEPT !.pc = "stop", !.plan = "replace"]
    BY <1>0, <2>1, <2>4 DEF Sensible, Controls, LockedPcs, FreePcs, Plans, Operations
  <2>5. QED BY <1>2, <2>1, <2>2, <2>3, <2>4 DEF AfterObserving
<1>5. CASE k.plan = "replace"
  <2>1. n = [k EXCEPT !.old = k.manager, !.manager = Managing(k.request.definition),
                      !.pc = "start", !.plan = "launch", !.request = NoRequest]
    BY <1>5 DEF Succeeded
  <2>2. k.request.definition \in Definitions BY <1>5 DEF Sensible
  <2>3. /\ n.pc = "start" /\ n.plan = "launch" /\ n.manager = Managing(k.request.definition)
        /\ n.old = k.manager /\ n \in Controls'
    BY <1>0, <2>1, <2>2 DEF Controls, FreePcs, Plans, Operations
  <2>4. QED BY <1>0, <1>1, <2>2, <2>3 DEF Sensible, LockedPcs
<1>6. CASE k.plan = "recover"
  <2>1. n = AfterRecovering(k, rec) BY <1>6 DEF Succeeded
  <2>2. CASE n = [k EXCEPT !.manager = k.old, !.old = NoManager, !.pc = "start", !.plan = "rollback"]
    <3>1. /\ n.pc = "start" /\ n.plan = "rollback" /\ n.manager = k.old /\ n.old = NoManager
          /\ n \in Controls'
      BY <1>0, <2>2 DEF Controls, FreePcs, Plans, Operations
    <3>2. k.old.definition \in Definitions /\ (k.old.handle # Nobody => child'[k.old.handle].owner = c)
      BY <1>6 DEF Sensible
    <3>3. QED BY <1>0, <3>1, <3>2 DEF Sensible, LockedPcs
  <2>3. QED BY <1>2, <2>1, <2>2 DEF AfterRecovering
<1>7. CASE k.plan = "close"
  <2>1. n = [k EXCEPT !.pc = "closing"] BY <1>7 DEF Succeeded
  <2>2. QED BY <1>0, <1>7, <2>1 DEF Sensible, Controls, LockedPcs, FreePcs, Operations
<1>8. CASE k.plan \in {"reply", "launch", "rollback"}
  <2>1. n = Replies(k) BY <1>8 DEF Succeeded
  <2>2. QED BY <1>2, <2>1
<1>9. QED BY <1>0, <1>3, <1>4, <1>5, <1>6, <1>7, <1>8 DEF Plans

\* What follows an operation that raises is, too.
LEMMA AfterFailure ==
  ASSUME NEW c, NEW k, NEW n, n = Failed(k), Sensible(c, k)', k.manager.definition \in Definitions
  PROVE  Sensible(c, n)' /\ n.pc \notin LockedPcs
<1>1. k \in Controls' /\ k.plan \in Plans BY Parts
<1>2. CASE k.plan = "launch"
  <2>1. n = [k EXCEPT !.pc = "status", !.plan = "recover"] BY <1>2 DEF Failed
  <2>2. QED BY <1>1, <1>2, <2>1 DEF Sensible, Controls, LockedPcs, FreePcs, Plans, Operations
<1>3. CASE k.plan = "close"
  <2>1. n = [k EXCEPT !.pc = "closing"] BY <1>3 DEF Failed
  <2>2. QED BY <1>1, <1>3, <2>1 DEF Sensible, Controls, LockedPcs, FreePcs, Operations
<1>4. CASE k.plan \notin {"launch", "close"}
  <2>1. n = Idle(k.manager) BY <1>4 DEF Failed, Replies
  <2>2. k.manager \in Managers' /\ (k.manager.handle # Nobody => child'[k.manager.handle].owner = c)
    BY Parts DEF Sensible
  <2>3. QED BY <2>1, <2>2, IdleIsSensible DEF Idle, FreePcs, Operations
<1>5. QED BY <1>2, <1>3, <1>4

-----------------------------------------------------------------------------
(* Operations under the lock                                                 *)

\* What an operation may write: a record that keeps the process it names, unless
\* that is no longer running.
Lawful(rec) ==
  /\ rec \in Records /\ record.generation <= rec.generation
  /\ rec.phase = "running" => rec.identity # Nobody
  /\ rec.identity # Nobody => rec.phase # "stopped"
  /\ \/ rec.identity = record.identity
     \/ record.identity # Nobody => child'[record.identity].leader # "running"

\* The frame of a step under the lock in which children only age.
Framed(c) ==
  /\ Inv /\ c \in Controllers /\ lock \in {NoOne, c}
  /\ Ages /\ OwnersStay /\ UNCHANGED foreign /\ spared' \subseteq Launches

\* A lawful record keeps the named children that run.
LEMMA WritesRecord ==
  ASSUME NEW c, NEW rec, Framed(c), Lawful(rec), Publish(rec)
  PROVE  /\ RecordFit' /\ ChildFit' /\ Launches' = Launches /\ record' = rec
         /\ \A j \in published : child'[j].leader = "running" => rec.identity = j
<1>1. record' = rec /\ rec.generation \in Nat BY DEF Publish, Lawful, Records
<1>2. ChildFit' /\ Launches' = Launches BY <1>1, AgesFit DEF Framed, Lawful
<1>3. RecordFit' BY <1>1, <1>2 DEF Lawful, RecordFit, Records
<1>4. ASSUME NEW j \in published, child'[j].leader = "running" PROVE rec.identity = j
  <2>1. j \in Launches /\ j # Nobody
    BY DEF Framed, Inv, HistoryFit, ChildFit, Launches, Nobody
  <2>2. record.identity = j BY <1>4, <2>1 DEF Framed, Inv, HistoryFit, NamedOrGone, Ages
  <2>3. QED BY <1>4, <2>1, <2>2 DEF Lawful
<1>5. QED BY <1>1, <1>2, <1>3, <1>4

\* An operation ends.
LEMMA Ends ==
  ASSUME NEW c, NEW k, NEW rec, Framed(c), Lawful(rec), Returns(c, k, rec) \/ Raises(c, k, rec),
         Sensible(c, k)', k.manager.definition \in Definitions
  PROVE  Inv'
<1>1. Publish(rec) /\ lock' = NoOne BY DEF Returns, Raises
<1>2. PICK n \in {Succeeded(k, rec), Failed(k)} :
        control' = [control EXCEPT ![c] = control'[c]] /\ control'[c] = n
  BY DEF Returns, Raises, Framed, Inv, ControlFit
<1>3. Sensible(c, n)' /\ n.pc \notin LockedPcs BY AfterSuccess, AfterFailure
<1>4. Sensible(c, control[c])' /\ Prepared(control[c])' BY <1>2, <1>3 DEF Prepared, LockedPcs
<1>5. QED BY <1>1, <1>2, <1>3, <1>4, WritesRecord, Turn DEF Framed, OwnersStay, KeepsOwners

\* An operation goes on under the lock.
LEMMA Proceeds ==
  ASSUME NEW c, NEW k, NEW rec, Framed(c), Lawful(rec), GoesOn(c, k, rec), k.pc \in LockedPcs,
         Sensible(c, k)', Prepared(k)'
  PROVE  Inv'
<1>1. Publish(rec) /\ lock' = c BY DEF GoesOn
<1>2. control' = [control EXCEPT ![c] = control'[c]] /\ control'[c] = k
  BY DEF GoesOn, Framed, Inv, ControlFit
<1>3. Sensible(c, control[c])' /\ Prepared(control[c])' BY <1>2
<1>4. QED BY <1>1, <1>2, <1>3, WritesRecord, Turn DEF Framed, OwnersStay, KeepsOwners

\* The records that operations write.
LEMMA Writes ==
  ASSUME Inv
  PROVE  /\ record \in Records /\ record.generation \in Nat
         /\ \A p \in Phases :
              /\ [record EXCEPT !.phase = p] \in Records
              /\ [record EXCEPT !.phase = p].phase = p
              /\ [record EXCEPT !.phase = p].generation = record.generation
              /\ [record EXCEPT !.phase = p].identity = record.identity
              /\ Marked(p) \in Records /\ Marked(p).phase = p
              /\ Marked(p).generation = record.generation /\ Marked(p).identity = Nobody
         /\ \A n \in Nat : /\ Starting(n) \in Records /\ Starting(n).phase = "starting"
                           /\ Starting(n).generation = n /\ Starting(n).identity = Nobody
BY DEF Inv, RecordFit, Records, Marked, Starting, Phases

\* A controller's own state, and what it becomes under the lock.
LEMMA Own ==
  ASSUME Inv, NEW c \in Controllers, Ages, OwnersStay,
         NEW k, k = control[c], k.pc \in Operations \cup LockedPcs
  PROVE  /\ k.manager.definition \in Definitions /\ k \in Controls
         /\ Sensible(c, k)' /\ Sensible(c, Released(k))'
         /\ Released(k).manager.definition = k.manager.definition /\ Released(k).pc = k.pc
         /\ \A p \in LockedPcs :
              /\ [k EXCEPT !.pc = p].pc = p /\ [k EXCEPT !.pc = p].manager = k.manager
              /\ Sensible(c, [k EXCEPT !.pc = p])'
              /\ Sensible(c, [Released(k) EXCEPT !.pc = p])'
<1> DEFINE r == Released(k)
<1>1. Sensible(c, k) /\ k \in Controls /\ k.manager \in Managers /\ k.manager.definition \in Definitions
  BY DEF Inv, ControlFit, Sensible, Controls
<1>2. Launches' = Launches BY DEF Inv, ChildFit, Ages, Launches
<1>3. Managers' = Managers /\ Controls' = Controls BY <1>2 DEF Managers, Controls
<1>4. k.manager.handle \in {Nobody} \cup Launches /\ k.old.handle \in {Nobody} \cup Launches
  BY <1>1 DEF Controls, Managers
<1>5. Sensible(c, k)' BY <1>1, <1>3, <1>4 DEF Sensible, OwnersStay
<1>6. r = [k EXCEPT !.manager = [k.manager EXCEPT !.handle = Nobody]] BY <1>1 DEF Released, Controls, Managers
<1>7. [k.manager EXCEPT !.handle = Nobody] \in Managers
      /\ [k.manager EXCEPT !.handle = Nobody].handle = Nobody
      /\ [k.manager EXCEPT !.handle = Nobody].definition = k.manager.definition
  BY <1>1 DEF Managers
<1>8. r \in Controls /\ r.manager.handle = Nobody /\ r.manager.definition = k.manager.definition
      /\ r.old = k.old /\ r.pc = k.pc /\ r.plan = k.plan /\ r.request = k.request
  BY <1>1, <1>6, <1>7 DEF Controls
<1>9. Sensible(c, r)' BY <1>1, <1>3, <1>5, <1>8 DEF Sensible, OwnersStay
<1>10. ASSUME NEW p \in LockedPcs, NEW h \in {k, r}
       PROVE  Sensible(c, [h EXCEPT !.pc = p])' /\ [h EXCEPT !.pc = p].pc = p
              /\ [h EXCEPT !.pc = p].manager = h.manager
  <2>1. CASE h = k
    <3>1. [k EXCEPT !.pc = p] \in Controls BY <1>1 DEF Controls
    <3>2. QED BY <1>1, <1>3, <1>5, <2>1, <3>1 DEF Sensible, Controls
  <2>2. CASE h = r
    <3>1. [r EXCEPT !.pc = p] \in Controls BY <1>8 DEF Controls
    <3>2. QED BY <1>1, <1>3, <1>8, <1>9, <2>2, <3>1 DEF Sensible, Controls
  <2>3. QED BY <2>1, <2>2
<1>11. QED BY <1>1, <1>5, <1>8, <1>9, <1>10

\* The same at another place under the lock.
LEMMA OwnAt ==
  ASSUME Inv, NEW c \in Controllers, Ages, OwnersStay,
         NEW k, k = control[c], k.pc \in Operations \cup LockedPcs,
         NEW p \in LockedPcs, NEW h, h = [k EXCEPT !.pc = p]
  PROVE  Sensible(c, h)' /\ h.pc = p /\ h.manager = k.manager
<1>1. /\ k \in Controls /\ \A q \in LockedPcs : Sensible(c, [k EXCEPT !.pc = q])'
  BY Own
<1>2. h.pc = p /\ h.manager = k.manager BY <1>1 DEF Controls
<1>3. Sensible(c, h)' BY <1>1, Zenon
<1>4. QED BY <1>2, <1>3

\* Start keeps a child that runs, and takes a new generation otherwise.
LEMMA StartStep ==
  ASSUME Inv, NEW c \in Controllers, Start(c) PROVE Inv'
<1> PICK k : k = control[c] OBVIOUS
<1> DEFINE i == record.identity
<1>1. /\ k.pc = "start" /\ lock = NoOne /\ UNCHANGED <<child, spared, foreign>>
      /\ k.pc \in Operations \cup LockedPcs
  BY DEF Start, Enters, Operations
<1>2. Ages /\ OwnersStay BY <1>1, NoneAges
<1>3. Framed(c) BY <1>1, <1>2 DEF Framed, Inv, HistoryFit
<1>4. k.manager.definition \in Definitions /\ Sensible(c, k)'
      /\ Sensible(c, [k EXCEPT !.pc = "spawn"])' /\ [k EXCEPT !.pc = "spawn"].pc = "spawn"
  <2>1. "spawn" \in LockedPcs BY DEF LockedPcs
  <2>2. k.manager.definition \in Definitions /\ Sensible(c, k)' /\ k \in Controls
        /\ \A p \in LockedPcs : Sensible(c, [k EXCEPT !.pc = p])'
    BY <1>1, <1>2, Own
  <2>3. [k EXCEPT !.pc = "spawn"].pc = "spawn" BY <2>2 DEF Controls
  <2>4. QED BY <2>1, <2>2, <2>3, Zenon
<1>5. CASE GoesOn(c, [k EXCEPT !.pc = "spawn"], Starting(record.generation + 1))
           /\ (i = Nobody \/ child[i].leader # "running")
  <2> DEFINE rec == Starting(record.generation + 1)
  <2>1. rec \in Records /\ rec.phase = "starting" /\ rec.generation = record.generation + 1
        /\ rec.identity = Nobody /\ record.generation \in Nat
    BY Writes
  <2>2. Lawful(rec) BY <1>1, <1>5, <2>1 DEF Lawful
  <2>3. record' = rec BY <1>5 DEF GoesOn, Publish
  <2>4. \A j \in Launches : child'[j].generation < rec.generation
    <3>1. ASSUME NEW j \in Launches PROVE child[j] \in Children /\ child[j].generation <= record.generation
      BY DEF Inv, ChildFit, Launches
    <3>2. QED BY <1>1, <2>1, <3>1 DEF Children
  <2>5. ASSUME NEW h, h = [k EXCEPT !.pc = "spawn"] PROVE Prepared(h)'
    BY <1>1, <1>4, <2>1, <2>3, <2>4, <2>5 DEF Prepared, Launches
  <2> HIDE DEF rec
  <2>6. QED BY <1>3, <1>4, <1>5, <2>2, <2>5, Proceeds DEF LockedPcs, rec
<1>6. CASE i # Nobody /\ Returns(c, k, [record EXCEPT !.phase = "running"])
  <2>1. Lawful([record EXCEPT !.phase = "running"])
    BY <1>6, Writes DEF Lawful, Phases
  <2>2. QED BY <1>3, <1>4, <1>6, <2>1, Ends
<1>7. CASE Raises(c, k, record)
  <2>1. Lawful(record) BY Writes DEF Lawful, Inv, RecordFit
  <2>2. QED BY <1>3, <1>4, <1>7, <2>1, Ends
<1>8. QED BY <1>1, <1>5, <1>6, <1>7 DEF Start, Sees

\* A child is created with the generation that was taken for it.
LEMMA SpawnStep ==
  ASSUME Inv, NEW c \in Controllers, Spawn(c) PROVE Inv'
<1> PICK k : k = control[c] OBVIOUS
<1>1. /\ k.pc = "spawn" /\ lock = c /\ UNCHANGED <<spared, foreign>>
      /\ k.pc \in Operations \cup LockedPcs
  BY DEF Spawn, Inv, LockFit, LockedPcs
<1>2. /\ record.identity = Nobody /\ record.phase = "starting"
      /\ \A i \in Launches : child[i].generation < record.generation
  BY <1>1 DEF Inv, ControlFit, Prepared
<1>3. CASE Raises(c, k, Marked("failed")) /\ UNCHANGED child
  <2>1. Ages /\ OwnersStay BY <1>3, NoneAges
  <2>2. Framed(c) BY <1>1, <2>1 DEF Framed, Inv, HistoryFit
  <2>3. Lawful(Marked("failed")) BY <1>2, Writes DEF Lawful, Phases
  <2>4. k.manager.definition \in Definitions /\ Sensible(c, k)' BY <1>1, <2>1, Own
  <2>5. QED BY <1>3, <2>2, <2>3, <2>4, Ends
<1>4. ASSUME NEW x, x = [definition |-> k.manager.definition, leader |-> "running",
                         group |-> FALSE, owner |-> c, generation |-> record.generation],
             NEW h, h = [k EXCEPT !.pc = "probe", !.manager.handle = Len(child) + 1],
             child' = Append(child, x), GoesOn(c, h, record)
      PROVE  Inv'
  <2>1. k \in Controls /\ Sensible(c, k) /\ k.manager.definition \in Definitions /\ k.manager \in Managers
    BY <1>1 DEF Inv, ControlFit, Sensible, Controls
  <2>2. x \in Children /\ x.generation = record.generation /\ x.owner = c /\ x.leader = "running"
    BY <1>4, <2>1, Writes DEF Children
  <2>3. child \in Seq(Children) BY DEF Inv, ChildFit
  <2>4. /\ child' \in Seq(Children) /\ Len(child') = Len(child) + 1
        /\ \A i \in Launches : child'[i] = child[i]
        /\ child'[Len(child) + 1] = x
    BY <1>4, <2>2, <2>3 DEF Launches
  <2>5. Launches' = Launches \cup {Len(child) + 1} /\ Len(child) + 1 \notin Launches
        /\ Len(child) + 1 # Nobody
    BY <2>3, <2>4 DEF Launches, Nobody
  <2>6. record' = record /\ Publish(record') /\ lock' = c
        /\ control' = [control EXCEPT ![c] = control'[c]] /\ control'[c] = h
    BY <1>4 DEF GoesOn, Publish, Inv, ControlFit
  <2>7. ChildFit'
    <3>1. \A i \in Launches : child'[i].generation < record.generation BY <1>2, <2>4
    <3>2. ASSUME NEW i \in Launches', NEW j \in Launches', child'[i].generation = child'[j].generation
          PROVE  i = j
      <4>1. ASSUME NEW n \in Launches PROVE child[n].generation < record.generation /\ child[n].generation \in Nat
        <5>1. child[n] \in Children BY <2>3 DEF Launches
        <5>2. QED BY <1>2, <5>1 DEF Children
      <4>2. CASE i \in Launches /\ j \in Launches
        BY <2>4, <3>2, <4>2 DEF Inv, ChildFit, OwnGeneration
      <4>3. CASE i = Len(child) + 1 /\ j \in Launches
        BY <2>2, <2>4, <3>2, <4>1, <4>3, Writes
      <4>4. CASE j = Len(child) + 1 /\ i \in Launches
        BY <2>2, <2>4, <3>2, <4>1, <4>4, Writes
      <4>5. QED BY <2>5, <4>2, <4>3, <4>4
    <3>3. OwnGeneration' BY <3>2 DEF OwnGeneration
    <3>4. ASSUME NEW i \in Launches'
          PROVE  /\ child'[i].generation <= record.generation
                 /\ child'[i].leader = "missing" /\ child'[i].owner # NoOne => ~child'[i].group
      <4>1. CASE i \in Launches BY <2>4, <4>1 DEF Inv, ChildFit
      <4>2. CASE i = Len(child) + 1 BY <2>2, <2>4, <4>2, Writes
      <4>3. QED BY <2>5, <4>1, <4>2
    <3>5. QED BY <2>4, <2>6, <3>3, <3>4 DEF ChildFit
  <2>8. RecordFit' BY <2>5, <2>6 DEF Inv, RecordFit, Records
  <2>9. h \in Controls' /\ h.pc = "probe" /\ h.manager.handle = Len(child) + 1
        /\ h.manager.definition = k.manager.definition /\ h.old = k.old /\ h.plan = k.plan
        /\ h.request = k.request
    <3>1. [k.manager EXCEPT !.handle = Len(child) + 1] \in Managers'
      BY <2>1, <2>5 DEF Managers
    <3>2. k.old \in Managers' BY <2>1, <2>5 DEF Controls, Managers
    <3>3. h = [k EXCEPT !.pc = "probe", !.manager = [k.manager EXCEPT !.handle = Len(child) + 1]]
      BY <1>4, <2>1 DEF Controls
    <3>4. QED BY <2>1, <3>1, <3>2, <3>3 DEF Controls, LockedPcs, Managers
  <2>10. Sensible(c, h)'
    <3>1. k.old.handle # Nobody => child'[k.old.handle].owner = c
      BY <2>1, <2>4 DEF Sensible, Controls, Managers
    <3>2. QED BY <2>1, <2>2, <2>4, <2>9, <3>1 DEF Sensible
  <2>11. Prepared(h)' BY <1>2, <2>5, <2>6, <2>9 DEF Prepared
  <2>12. \A j \in published : child'[j].leader = "running" => record'.identity = j
    BY <2>4, <2>6 DEF Inv, HistoryFit, NamedOrGone
  <2>13. Sensible(c, control[c])' /\ Prepared(control[c])' BY <2>6, <2>10, <2>11
  <2>14. KeepsOwners(c) /\ spared' \subseteq Launches' /\ control'[c].pc \in LockedPcs
    BY <1>1, <2>4, <2>5, <2>6, <2>9 DEF KeepsOwners, Inv, HistoryFit, LockedPcs
  <2>15. QED BY <1>1, <2>5, <2>6, <2>7, <2>8, <2>12, <2>13, <2>14, Turn
<1>5. QED BY <1>3, <1>4 DEF Spawn

\* A launch may be named when nothing else is.
LEMMA Naming ==
  ASSUME Inv, record.identity = Nobody, NEW i \in Launches, NEW p \in {"running", "failed"}
  PROVE  Lawful([record EXCEPT !.phase = p, !.identity = i])
<1>1. record \in [phase : Phases, generation : Nat, identity : {Nobody} \cup Launches] /\ i # Nobody
  BY DEF Inv, RecordFit, Records, ChildFit, Launches, Nobody
<1>2. p \in Phases /\ p # "stopped" BY DEF Phases
<1> DEFINE r == [record EXCEPT !.phase = p, !.identity = i]
<1>3. r.phase = p /\ r.generation = record.generation /\ r.identity = i BY <1>1
<1>4. r \in Records BY <1>1, <1>2 DEF Records
<1>5. record.generation \in Nat BY <1>1
<1> HIDE DEF r
<1>6. Lawful(r) BY <1>1, <1>2, <1>3, <1>4, <1>5 DEF Lawful
<1>7. QED BY <1>6 DEF r

\* A launch is published, or goes on to be undone.
LEMMA ProbeStep ==
  ASSUME Inv, NEW c \in Controllers, Probe(c) PROVE Inv'
<1> PICK k : k = control[c] OBVIOUS
<1> DEFINE i == k.manager.handle
<1>1. /\ k.pc = "probe" /\ lock = c /\ UNCHANGED <<child, spared, foreign>>
      /\ k.pc \in Operations \cup LockedPcs
  BY DEF Probe, Inv, LockFit, LockedPcs
<1>2. record.identity = Nobody /\ i # Nobody
  BY <1>1 DEF Inv, ControlFit, Prepared
<1>3. Ages /\ OwnersStay BY <1>1, NoneAges
<1>4. Framed(c) BY <1>1, <1>3 DEF Framed, Inv, HistoryFit
<1>5. k.manager.definition \in Definitions /\ Sensible(c, k)' /\ i \in Launches
  BY <1>1, <1>2, <1>3, Own DEF Controls, Managers
<1>6. CASE Returns(c, k, [record EXCEPT !.phase = "running", !.identity = i])
  <2>1. Lawful([record EXCEPT !.phase = "running", !.identity = i]) BY <1>2, <1>5, Naming
  <2>2. QED BY <1>4, <1>5, <1>6, <2>1, Ends
<1>7. ASSUME NEW p \in {"undo", "cleanup"}, GoesOn(c, [k EXCEPT !.pc = p], record) PROVE Inv'
  <2>1. PICK h : h = [k EXCEPT !.pc = p] OBVIOUS
  <2>2. p \in LockedPcs BY DEF LockedPcs
  <2>3. Sensible(c, h)' /\ h.pc = p /\ h.manager = k.manager
    BY <1>1, <1>3, <2>1, <2>2, OwnAt
  <2>4. Lawful(record) BY Writes DEF Lawful, Inv, RecordFit
  <2>5. record' = record BY <1>7 DEF GoesOn, Publish
  <2>6. Prepared(h)' BY <1>2, <2>3, <2>5 DEF Prepared
  <2>7. QED BY <1>4, <1>7, <2>1, <2>2, <2>3, <2>4, <2>6, Proceeds
<1>8. QED BY <1>6, <1>7 DEF Probe

\* The group of a launch that is undone is the controller's own.
LEMMA UndoStep ==
  ASSUME Inv, NEW c \in Controllers, Cleanup(c) \/ Undo(c) PROVE Inv'
<1> PICK k : k = control[c] OBVIOUS
<1> DEFINE i == k.manager.handle
<1>1. /\ k.pc \in {"cleanup", "undo"} /\ lock = c /\ k.pc \in Operations \cup LockedPcs
      /\ Signalled(c, i)
  BY DEF Cleanup, Undo, Inv, LockFit, LockedPcs
<1>2. record.identity = Nobody /\ i # Nobody /\ Sensible(c, k) /\ i \in Launches
  BY <1>1 DEF Inv, ControlFit, Prepared, Sensible, Controls, Managers
<1>3. UNCHANGED foreign BY <1>1, <1>2 DEF Signalled, Sensible
<1>4. /\ Marked("failed") \in Records /\ Marked("failed").phase = "failed"
      /\ Marked("failed").generation = record.generation /\ Marked("failed").identity = Nobody
      /\ record \in Records /\ record.generation \in Nat
  BY Writes DEF Phases
<1>5. CASE child' = Ended(i, c) /\ UNCHANGED spared
           /\ \E rec \in {Marked("failed"), record} : Raises(c, Released(k), rec)
  <2>1. Ages /\ OwnersStay BY <1>2, <1>5, EndedAges
  <2>2. Framed(c) BY <1>1, <1>3, <1>5, <2>1 DEF Framed, Inv, HistoryFit
  <2>3. Lawful(Marked("failed")) /\ Lawful(record)
    BY <1>2, <1>4 DEF Lawful, Inv, RecordFit
  <2>4. Released(k).manager.definition \in Definitions /\ Sensible(c, Released(k))'
    BY <1>1, <2>1, Own
  <2>5. QED BY <1>5, <2>2, <2>3, <2>4, Ends
<1>6. CASE spared' = spared \cup {i} /\ UNCHANGED child
           /\ \E rec \in {[record EXCEPT !.phase = "failed", !.identity = i], record} : Raises(c, k, rec)
  <2>1. Ages /\ OwnersStay BY <1>6, NoneAges
  <2>2. Framed(c) BY <1>1, <1>2, <1>3, <1>6, <2>1 DEF Framed, Inv, HistoryFit
  <2>3. Lawful([record EXCEPT !.phase = "failed", !.identity = i]) /\ Lawful(record)
    <3>1. Lawful(record) BY <1>4 DEF Lawful, Inv, RecordFit
    <3>2. QED BY <1>2, <3>1, Naming
  <2>4. k.manager.definition \in Definitions /\ Sensible(c, k)' BY <1>1, <2>1, Own
  <2>5. QED BY <1>6, <2>2, <2>3, <2>4, Ends
<1>7. QED BY <1>5, <1>6 DEF Cleanup, Undo

\* A daemon that is stopped is restarted under the same lock, or not.
LEMMA StoppedFits ==
  ASSUME NEW c, NEW h, Framed(c), Stopped(c, h), Sensible(c, h)',
         Sensible(c, [h EXCEPT !.pc = "relaunch"])', h.manager.definition \in Definitions,
         record.identity # Nobody => child'[record.identity].leader # "running"
  PROVE  Inv'
<1>1. Inv BY DEF Framed
<1>2. Lawful(Marked("stopped")) BY <1>1, Writes DEF Lawful, Phases
<1>3. CASE Returns(c, h, Marked("stopped"))
  BY <1>2, <1>3, Ends
<1>4. CASE GoesOn(c, [h EXCEPT !.pc = "relaunch"], Marked("stopped"))
  <2>1. PICK n : n = [h EXCEPT !.pc = "relaunch"] OBVIOUS
  <2>2. n.pc = "relaunch" BY <2>1 DEF Sensible, Controls
  <2>3. record' = Marked("stopped") /\ Marked("stopped").identity = Nobody
    BY <1>1, <1>4, Writes DEF GoesOn, Publish, Phases
  <2>4. Prepared(n)' BY <2>2, <2>3 DEF Prepared
  <2>5. QED BY <1>2, <1>4, <2>1, <2>2, <2>4, Proceeds DEF LockedPcs
<1>5. QED BY <1>3, <1>4 DEF Stopped

\* The generation of a restart is a new one.
LEMMA RelaunchStep ==
  ASSUME Inv, NEW c \in Controllers, Relaunch(c) PROVE Inv'
<1> PICK k : k = control[c] OBVIOUS
<1> DEFINE rec == Starting(record.generation + 1)
<1>1. /\ k.pc = "relaunch" /\ lock = c /\ UNCHANGED <<child, spared, foreign>>
      /\ k.pc \in Operations \cup LockedPcs
  BY DEF Relaunch, Inv, LockFit, LockedPcs
<1>2. record.identity = Nobody BY <1>1 DEF Inv, ControlFit, Prepared
<1>3. Ages /\ OwnersStay BY <1>1, NoneAges
<1>4. Framed(c) BY <1>1, <1>3 DEF Framed, Inv, HistoryFit
<1>5. PICK h : h = [k EXCEPT !.pc = "spawn"] OBVIOUS
<1>6. Sensible(c, h)' /\ h.pc = "spawn"
  <2>1. "spawn" \in LockedPcs BY DEF LockedPcs
  <2>2. QED BY <1>1, <1>3, <1>5, <2>1, OwnAt
<1>7. rec \in Records /\ rec.phase = "starting" /\ rec.generation = record.generation + 1
      /\ rec.identity = Nobody /\ record.generation \in Nat
  BY Writes
<1>8. Lawful(rec) BY <1>2, <1>7 DEF Lawful
<1>9. GoesOn(c, h, rec) /\ record' = rec BY <1>5 DEF Relaunch, GoesOn, Publish
<1>10. ASSUME NEW j \in Launches PROVE child'[j].generation < rec.generation
  <2>1. child[j] \in Children /\ child[j].generation <= record.generation
    BY DEF Inv, ChildFit, Launches
  <2>2. QED BY <1>1, <1>7, <2>1 DEF Children
<1>11. Prepared(h)' BY <1>1, <1>6, <1>7, <1>9, <1>10 DEF Prepared, Launches
<1>12. QED BY <1>4, <1>6, <1>8, <1>9, <1>11, Proceeds DEF LockedPcs

\* A zombie is stopped by who started it, with its group, or by somebody else
\* as far as the record goes.
LEMMA StopZombieStep ==
  ASSUME Inv, NEW c \in Controllers, lock = NoOne, NEW k, k = control[c],
         k.pc \in {"stop", "restart"}, NEW i \in Launches, i = record.identity,
         child[i].leader = "zombie", StopZombie(c, k, i)
  PROVE  Inv'
<1>1. k.pc \in Operations \cup LockedPcs BY DEF Operations
<1>2. Sensible(c, k) /\ i # Nobody
  BY DEF Inv, ControlFit, ChildFit, Launches, Nobody
<1>3. "relaunch" \in LockedPcs BY DEF LockedPcs
<1>4. CASE Ages /\ OwnersStay /\ UNCHANGED <<spared, foreign>> /\ child'[i].leader # "running"
           /\ (Stopped(c, k) \/ Stopped(c, Released(k)))
  <2>1. Framed(c) BY <1>4 DEF Framed, Inv, HistoryFit
  <2>2. /\ k.manager.definition \in Definitions /\ Sensible(c, k)' /\ Sensible(c, Released(k))'
        /\ Released(k).manager.definition = k.manager.definition
        /\ \A p \in LockedPcs : /\ Sensible(c, [k EXCEPT !.pc = p])'
                                /\ Sensible(c, [Released(k) EXCEPT !.pc = p])'
    BY <1>1, <1>4, Own
  <2>3. CASE Stopped(c, k)
    <3>1. Sensible(c, [k EXCEPT !.pc = "relaunch"])' BY <1>3, <2>2, Zenon
    <3>2. QED BY <1>4, <2>1, <2>2, <2>3, <3>1, StoppedFits
  <2>4. CASE Stopped(c, Released(k))
    <3>1. Sensible(c, [Released(k) EXCEPT !.pc = "relaunch"])' BY <1>3, <2>2, Zenon
    <3>2. QED BY <1>4, <2>1, <2>2, <2>4, <3>1, StoppedFits
  <2>5. QED BY <1>4, <2>3, <2>4
<1>5. CASE /\ child[i].group /\ k.manager.handle = i /\ Signalled(c, i)
           /\ child' = Ended(i, c) /\ UNCHANGED spared /\ Stopped(c, Released(k))
  <2>1. UNCHANGED foreign BY <1>2, <1>5 DEF Signalled, Sensible
  <2>2. Ages /\ OwnersStay /\ child'[i].leader # "running" BY <1>5, EndedAges
  <2>3. QED BY <1>4, <1>5, <2>1, <2>2
<1>6. CASE /\ child[i].group /\ k.manager.handle = i /\ Signalled(c, i)
           /\ spared' = spared \cup {i} /\ UNCHANGED child /\ Raises(c, k, record)
  <2>1. UNCHANGED foreign BY <1>2, <1>6 DEF Signalled, Sensible
  <2>2. Ages /\ OwnersStay BY <1>6, NoneAges
  <2>3. Framed(c) BY <1>6, <2>1, <2>2 DEF Framed, Inv, HistoryFit
  <2>4. Lawful(record) BY Writes DEF Lawful, Inv, RecordFit
  <2>5. k.manager.definition \in Definitions /\ Sensible(c, k)' BY <1>1, <2>2, Own
  <2>6. QED BY <1>6, <2>3, <2>4, <2>5, Ends
<1>7. CASE /\ k.manager.handle = i /\ ~child[i].group /\ UNCHANGED <<spared, foreign>>
           /\ child' = [child EXCEPT ![i].leader = "missing"] /\ Stopped(c, Released(k))
  <2>1. Ages /\ OwnersStay /\ child'[i].leader # "running" BY <1>7, ReapedAges
  <2>2. QED BY <1>4, <1>7, <2>1
<1>8. CASE UNCHANGED <<child, spared, foreign>> /\ Stopped(c, k)
  <2>1. Ages /\ OwnersStay BY <1>8, NoneAges
  <2>2. QED BY <1>4, <1>8, <2>1
<1>9. QED BY <1>5, <1>6, <1>7, <1>8 DEF StopZombie

\* Stop leaves a child that may not be signalled, and takes aim at one that may.
LEMMA StopStep ==
  ASSUME Inv, NEW c \in Controllers, Stop(c) PROVE Inv'
<1> PICK k : k = control[c] OBVIOUS
<1> DEFINE i == record.identity
<1>1. k.pc \in {"stop", "restart"} /\ lock = NoOne /\ k.pc \in Operations \cup LockedPcs
  BY DEF Stop, Enters, Operations
<1>2. i # Nobody => i \in Launches BY DEF Inv, RecordFit, Records
<1>3. CASE i # Nobody /\ child[i].leader = "zombie" /\ StopZombie(c, k, i)
  BY <1>1, <1>2, <1>3, StopZombieStep
<1>4. CASE UNCHANGED <<child, spared, foreign>>
  <2>1. Ages /\ OwnersStay BY <1>4, NoneAges
  <2>2. Framed(c) BY <1>1, <1>4, <2>1 DEF Framed, Inv, HistoryFit
  <2>3. /\ k.manager.definition \in Definitions /\ Sensible(c, k)'
        /\ \A p \in LockedPcs : Sensible(c, [k EXCEPT !.pc = p])'
    BY <1>1, <2>1, Own
  <2>4. CASE Raises(c, k, record)
    <3>1. Lawful(record) BY Writes DEF Lawful, Inv, RecordFit
    <3>2. QED BY <2>2, <2>3, <2>4, <3>1, Ends
  <2>5. CASE Stopped(c, k) /\ (i = Nobody \/ child[i].leader = "missing")
    <3>1. "relaunch" \in LockedPcs BY DEF LockedPcs
    <3>2. Sensible(c, [k EXCEPT !.pc = "relaunch"])' BY <2>3, <3>1, Zenon
    <3>3. QED BY <1>4, <2>2, <2>3, <2>5, <3>2, StoppedFits
  <2>6. CASE i # Nobody /\ MaySignal(k, i)
             /\ \E p \in {"kill", "rekill"} :
                  GoesOn(c, [k EXCEPT !.pc = p], [record EXCEPT !.phase = "stopping"])
    <3>1. PICK p \in {"kill", "rekill"} :
            GoesOn(c, [k EXCEPT !.pc = p], [record EXCEPT !.phase = "stopping"])
      BY <2>6
    <3>2. PICK h : h = [k EXCEPT !.pc = p] OBVIOUS
    <3>3. p \in LockedPcs BY DEF LockedPcs
    <3>4. Sensible(c, h)' /\ h.pc = p /\ h.manager = k.manager
      BY <1>1, <2>1, <3>2, <3>3, OwnAt
    <3>5. Lawful([record EXCEPT !.phase = "stopping"]) BY Writes DEF Lawful, Phases
    <3>6. record'.identity = i BY <3>1, Writes DEF GoesOn, Publish, Phases
    <3>7. Prepared(h)' BY <2>6, <3>4, <3>6 DEF Prepared, MaySignal
    <3>8. QED BY <2>2, <3>1, <3>2, <3>3, <3>4, <3>5, <3>7, Proceeds
  <2>7. QED BY <1>4, <2>4, <2>5, <2>6, <1>3 DEF Stop, StopRunning
<1>5. QED BY <1>3, <1>4 DEF Stop

\* A kill is of the controller's own group, or of one it may take over.
LEMMA KillStep ==
  ASSUME Inv, NEW c \in Controllers, Kill(c) PROVE Inv'
<1> PICK k : k = control[c] OBVIOUS
<1> DEFINE i == record.identity
<1>1. /\ k.pc \in {"kill", "rekill"} /\ lock = c /\ k.pc \in Operations \cup LockedPcs
      /\ Signalled(c, i)
  BY DEF Kill, Inv, LockFit, LockedPcs
<1>2. i # Nobody /\ i \in Launches /\ MaySignal(k, i) /\ Sensible(c, k)
  BY <1>1 DEF Inv, ControlFit, Prepared, RecordFit, Records
<1>3. UNCHANGED foreign BY <1>1, <1>2 DEF Signalled, MaySignal, Sensible
<1>4. CASE child' = Ended(i, c) /\ Stopped(c, k) /\ UNCHANGED spared
  <2>1. Ages /\ OwnersStay /\ child'[i].leader # "running" BY <1>2, <1>4, EndedAges
  <2>2. Framed(c) BY <1>1, <1>3, <1>4, <2>1 DEF Framed, Inv, HistoryFit
  <2>3. /\ k.manager.definition \in Definitions /\ Sensible(c, k)'
        /\ \A p \in LockedPcs : Sensible(c, [k EXCEPT !.pc = p])'
    BY <1>1, <2>1, Own
  <2>4. "relaunch" \in LockedPcs BY DEF LockedPcs
  <2>5. Sensible(c, [k EXCEPT !.pc = "relaunch"])' BY <2>3, <2>4, Zenon
  <2>6. QED BY <1>4, <2>1, <2>2, <2>3, <2>5, StoppedFits
<1>5. CASE spared' = spared \cup {i} /\ UNCHANGED child
           /\ Raises(c, k, [record EXCEPT !.phase = "failed"])
  <2>1. Ages /\ OwnersStay BY <1>5, NoneAges
  <2>2. Framed(c) BY <1>1, <1>2, <1>3, <1>5, <2>1 DEF Framed, Inv, HistoryFit
  <2>3. Lawful([record EXCEPT !.phase = "failed"]) BY <1>2, Writes DEF Lawful, Phases
  <2>4. k.manager.definition \in Definitions /\ Sensible(c, k)' BY <1>1, <2>1, Own
  <2>5. QED BY <1>5, <2>2, <2>3, <2>4, Ends
<1>6. QED BY <1>4, <1>5 DEF Kill

\* A status reaps and forgets only what is over.
LEMMA StatusStep ==
  ASSUME Inv, NEW c \in Controllers, Status(c) PROVE Inv'
<1> PICK k : k = control[c] OBVIOUS
<1> DEFINE i == record.identity
           owns == k.manager.handle = i
<1>1. /\ k.pc = "status" /\ lock = NoOne /\ k.pc \in Operations \cup LockedPcs
      /\ UNCHANGED <<spared, foreign>>
  BY DEF Status, Enters, Operations
<1>2. i # Nobody => i \in Launches BY DEF Inv, RecordFit, Records
<1>3. Lawful(record)
  BY Writes DEF Lawful, Inv, RecordFit
<1>4. CASE UNCHANGED child
           /\ \/ Returns(c, k, record) \/ Raises(c, k, record)
              \/ i # Nobody /\ \E p \in {"running", "failed"} : Returns(c, k, [record EXCEPT !.phase = p])
  <2>1. Ages /\ OwnersStay BY <1>4, NoneAges
  <2>2. Framed(c) BY <1>1, <1>4, <2>1 DEF Framed, Inv, HistoryFit
  <2>3. k.manager.definition \in Definitions /\ Sensible(c, k)' BY <1>1, <2>1, Own
  <2>4. ASSUME NEW p \in {"running", "failed"}, i # Nobody PROVE Lawful([record EXCEPT !.phase = p])
    BY <2>4, Writes DEF Lawful, Phases
  <2>5. QED BY <1>3, <1>4, <2>2, <2>3, <2>4, Ends
<1>5. CASE /\ i # Nobody /\ child[i].leader # "running"
           /\ ~(child[i].leader = "zombie" /\ child[i].group /\ (owns \/ k.manager.takeover))
           /\ child' = IF owns THEN [child EXCEPT ![i].leader = "missing"] ELSE child
           /\ Returns(c, IF owns THEN Released(k) ELSE k, Marked("stopped"))
  <2>1. Ages /\ OwnersStay /\ child'[i].leader # "running"
    <3>1. CASE owns
      <4>1. child[i] \in Children BY <1>2, <1>5 DEF Inv, ChildFit, Launches
      <4>2. child[i].owner # NoOne => ~child[i].group
        BY <1>2, <1>5, <3>1, <4>1 DEF Inv, ChildFit, Children
      <4>3. QED BY <1>2, <1>5, <3>1, <4>2, ReapedAges
    <3>2. CASE ~owns
      <4>1. UNCHANGED child BY <1>5, <3>2
      <4>2. QED BY <1>5, <4>1, NoneAges
    <3>3. QED BY <3>1, <3>2
  <2>2. Framed(c) BY <1>1, <2>1 DEF Framed, Inv, HistoryFit
  <2>3. Lawful(Marked("stopped")) BY <1>5, <2>1, Writes DEF Lawful, Phases
  <2>4. /\ k.manager.definition \in Definitions /\ Sensible(c, k)' /\ Sensible(c, Released(k))'
        /\ Released(k).manager.definition = k.manager.definition
    BY <1>1, <2>1, Own
  <2>5. QED
    <3>1. CASE owns BY <1>5, <2>2, <2>3, <2>4, <3>1, Ends
    <3>2. CASE ~owns BY <1>5, <2>2, <2>3, <2>4, <3>2, Ends
    <3>3. QED BY <3>1, <3>2
<1>6. QED
  <2>1. Status(c) => \/ UNCHANGED child
                        /\ \/ Returns(c, k, record) \/ Raises(c, k, record)
                           \/ i # Nobody /\ \E p \in {"running", "failed"} :
                                              Returns(c, k, [record EXCEPT !.phase = p])
                     \/ /\ i # Nobody /\ child[i].leader # "running"
                        /\ ~(child[i].leader = "zombie" /\ child[i].group /\ (owns \/ k.manager.takeover))
                        /\ child' = IF owns THEN [child EXCEPT ![i].leader = "missing"] ELSE child
                        /\ Returns(c, IF owns THEN Released(k) ELSE k, Marked("stopped"))
    BY DEF Status, Sees
  <2>2. QED BY <1>4, <1>5, <2>1

-----------------------------------------------------------------------------
(* Steps beside the lock                                                     *)

\* The operating system only ages the children.
LEMMA ChildStep ==
  ASSUME Inv, \E i \in Launches : GroupEnds(i) \/ \E left \in BOOLEAN : Exit(i, left)
  PROVE  Inv'
<1>1. PICK i \in Launches : GroupEnds(i) \/ \E left \in BOOLEAN : Exit(i, left) OBVIOUS
<1>2. UNCHANGED <<record, lock, control, published, spared, foreign>>
  BY <1>1 DEF GroupEnds, Exit, ChildrenOnly
<1>3. child[i] \in Children BY DEF Inv, ChildFit, Launches
<1>4. Ages /\ OwnersStay
  <2>1. CASE GroupEnds(i)
    <3> DEFINE x == [child[i] EXCEPT !.group = FALSE]
    <3>1. x \in Children /\ x.generation = child[i].generation /\ x.owner = child[i].owner
          /\ x.leader = child[i].leader /\ ~x.group
      BY <1>3 DEF Children
    <3>2. child' = [child EXCEPT ![i] = x] BY <2>1 DEF GroupEnds
    <3> HIDE DEF x
    <3>3. QED BY <3>1, <3>2, OneAges
  <2>2. ASSUME NEW left \in BOOLEAN, Exit(i, left) PROVE Ages /\ OwnersStay
    <3> DEFINE x == [child[i] EXCEPT !.group = left,
                       !.leader = IF child[i].owner = NoOne THEN "missing" ELSE "zombie"]
    <3>1. x \in Children /\ x.generation = child[i].generation /\ x.owner = child[i].owner
          /\ x.leader # "running" /\ (x.leader = "missing" => x.owner = NoOne)
      BY <1>3 DEF Children
    <3>2. child' = [child EXCEPT ![i] = x] BY <2>2 DEF Exit
    <3> HIDE DEF x
    <3>3. QED BY <3>1, <3>2, OneAges
  <2>3. QED BY <1>1, <2>1, <2>2
<1>5. ChildFit' /\ Launches' = Launches /\ RecordFit'
  BY <1>2, <1>4, AgesFit DEF Inv, RecordFit, Records
<1>6. HistoryFit' BY <1>2, <1>4, <1>5 DEF Inv, HistoryFit, NamedOrGone, Ages
<1>7. ASSUME NEW d \in Controllers PROVE Sensible(d, control[d])' /\ Prepared(control[d])'
  <2>1. Sensible(d, control[d])' BY <1>2, <1>4, <1>5, OthersKeep DEF OwnersStay
  <2>2. Prepared(control[d]) BY DEF Inv, ControlFit
  <2>3. Prepared(control[d])' BY <1>2, <1>4, <1>5, <2>2 DEF Prepared, MaySignal, Ages
  <2>4. QED BY <2>1, <2>3
<1>8. LockFit' /\ ControlFit' BY <1>2, <1>7 DEF Inv, LockFit, ControlFit
<1>9. QED BY <1>5, <1>6, <1>8 DEF Inv

\* A daemon whose lock is held answers with an error.
LEMMA BusyStep ==
  ASSUME Inv, NEW c \in Controllers, Busy(c) PROVE Inv'
<1> PICK k : k = control[c] OBVIOUS
<1>1. /\ k.pc \in Operations /\ k.pc \notin LockedPcs
      /\ UNCHANGED <<record, lock, child, published, spared, foreign>>
  BY DEF Busy, Operations, LockedPcs
<1>2. Ages /\ OwnersStay BY <1>1, NoneAges
<1>3. k.manager.definition \in Definitions /\ Sensible(c, k)' BY <1>1, <1>2, Own
<1>4. PICK n : n = Failed(k) OBVIOUS
<1>5. Sensible(c, n)' /\ n.pc \notin LockedPcs BY <1>3, <1>4, AfterFailure
<1>6. control' = [control EXCEPT ![c] = control'[c]] /\ control'[c] = n
  BY <1>4 DEF Busy, Inv, ControlFit
<1>7. Sensible(c, control[c])' BY <1>5, <1>6
<1>8. QED BY <1>1, <1>2, <1>5, <1>6, <1>7, Aside DEF OwnersStay, KeepsOwners

\* A controller without a supervisor is sensible.
LEMMA BareIsSensible ==
  ASSUME NEW c, NEW pc \in FreePcs \ Operations, NEW n, n = [Idle(NoManager) EXCEPT !.pc = pc]
  PROVE  Sensible(c, n)' /\ n.pc \notin LockedPcs
<1>1. NoManager \in Managers' /\ NoManager.handle = Nobody BY DEF NoManager, Managers
<1>2. n = [pc |-> pc, plan |-> "reply", manager |-> NoManager, old |-> NoManager, request |-> NoRequest]
  BY DEF Idle
<1>3. QED BY <1>1, <1>2, IdleIsSensible

\* A controller that ends or dies leaves its children to nobody.
LEMMA LeaveStep ==
  ASSUME Inv, NEW c \in Controllers, Leave(c) \/ Crash(c) PROVE Inv'
<1>1. /\ child' = Orphaned(c) /\ UNCHANGED <<record, published, spared, foreign>>
      /\ control' = [control EXCEPT ![c] = control'[c]] /\ control'[c] = Down
  BY DEF Leave, Crash, Leaves, Inv, ControlFit
<1>2. Ages /\ KeepsOwners(c) BY <1>1, OrphanedAges
<1>3. "down" \in FreePcs \ Operations BY DEF FreePcs, Operations
<1>4. PICK n : n = Down OBVIOUS
<1>5. Sensible(c, n)' /\ n.pc \notin LockedPcs BY <1>3, <1>4, BareIsSensible DEF Down
<1>6. Sensible(c, control[c])' BY <1>1, <1>4, <1>5
<1>7. CASE control[c].pc \notin LockedPcs
  <2>1. lock # c BY <1>7 DEF Inv, LockFit
  <2>2. UNCHANGED lock BY <2>1 DEF Leave, Crash
  <2>3. QED BY <1>1, <1>2, <1>4, <1>5, <1>6, <1>7, <2>2, Aside
<1>8. CASE control[c].pc \in LockedPcs
  <2>1. lock = c BY <1>8 DEF Inv, LockFit
  <2>2. control[c].pc # "closing" BY <1>8 DEF LockedPcs
  <2>3. lock' = NoOne BY <2>1, <2>2 DEF Leave, Crash
  <2>4. ChildFit' /\ Launches' = Launches BY <1>1, <1>2, AgesFit DEF Inv, RecordFit, Records
  <2>5. RecordFit' BY <1>1, <2>4 DEF Inv, RecordFit, Records
  <2>6. Prepared(control[c])' BY <1>1, <1>4, <1>5 DEF Prepared, LockedPcs
  <2>7. HistoryFit' BY <1>1, <1>2, <2>4 DEF Inv, HistoryFit, NamedOrGone, Ages
  <2>8. ASSUME NEW d \in Controllers PROVE Sensible(d, control[d])' /\ Prepared(control[d])'
    <3>1. CASE d = c BY <1>6, <2>6, <3>1
    <3>2. CASE d # c
      <4>1. control'[d] = control[d] /\ control[d].pc \notin LockedPcs
        BY <1>1, <2>1, <3>2 DEF Inv, LockFit, ControlFit
      <4>2. Sensible(d, control[d])' BY <1>2, <2>4, <3>2, <4>1, OthersKeep DEF KeepsOwners
      <4>3. QED BY <4>1, <4>2 DEF Prepared, LockedPcs
    <3>3. QED BY <3>1, <3>2
  <2>9. ControlFit' BY <1>1, <2>8 DEF Inv, ControlFit
  <2>10. LockFit'
    BY <1>1, <1>4, <1>5, <2>1, <2>3, ControllersAssumption DEF Inv, LockFit, ControlFit
  <2>11. QED BY <2>4, <2>5, <2>7, <2>9, <2>10 DEF Inv
<1>9. QED BY <1>7, <1>8

\* A request finds a supervisor or makes one, and holds what it held.
LEMMA AcceptStep ==
  ASSUME Inv, NEW c \in Controllers, NEW op \in Operations, NEW d \in Definitions,
         NEW t \in BOOLEAN, Accept(c, op, d, t)
  PROVE  Inv'
<1> PICK k : k = control[c] OBVIOUS
<1> PICK m : m = IF k.manager = NoManager THEN Managing(d) ELSE k.manager OBVIOUS
<1> PICK allowed : allowed = [m EXCEPT !.takeover = @ \/ t] OBVIOUS
<1>1. /\ k.pc = "idle" /\ k.pc \notin LockedPcs
      /\ UNCHANGED <<record, lock, child, published, spared, foreign>>
  BY DEF Accept, LockedPcs
<1>2. Ages /\ OwnersStay BY <1>1, NoneAges
<1>3. Sensible(c, k) BY DEF Inv, ControlFit
<1>4. m \in Managers /\ m.definition \in Definitions
      /\ (m.handle # Nobody => child[m.handle].owner = c)
  <2>1. CASE k.manager = NoManager BY <2>1 DEF Managing, Managers
  <2>2. CASE k.manager # NoManager BY <1>3, <2>2 DEF Sensible, Controls
  <2>3. QED BY <2>1, <2>2
<1>5. Launches' = Launches BY <1>1 DEF Launches
<1>6. /\ allowed \in Managers /\ allowed.definition \in Definitions
      /\ allowed.handle # Nobody => child[allowed.handle].owner = c
  BY <1>4 DEF Managers
<1>7. allowed \in Managers' BY <1>5, <1>6 DEF Managers
<1>8. PICK n : n = IF m.definition = d
                   THEN [Idle(allowed) EXCEPT !.pc = op, !.plan = IF op = "stop" THEN "forget" ELSE "reply"]
                   ELSE [Idle(allowed) EXCEPT !.pc = "status",
                           !.request = [op |-> op, definition |-> d], !.plan = "observe"]
  OBVIOUS
<1>9. control' = [control EXCEPT ![c] = control'[c]] /\ control'[c] = n
  BY <1>8 DEF Accept, Inv, ControlFit
<1>10. Sensible(c, n)' /\ n.pc \notin LockedPcs
  <2>1. CASE m.definition = d
    <3>1. PICK plan \in {"reply", "forget"} :
            n = [pc |-> op, plan |-> plan, manager |-> allowed, old |-> NoManager, request |-> NoRequest]
      BY <1>8, <2>1 DEF Idle
    <3>2. op \in FreePcs BY DEF FreePcs
    <3>3. child'[allowed.handle].owner = child[allowed.handle].owner BY <1>1
    <3>4. QED BY <1>6, <1>7, <3>1, <3>2, <3>3, IdleIsSensible
  <2>2. CASE m.definition # d
    <3>1. n = [pc |-> "status", plan |-> "observe", manager |-> allowed, old |-> NoManager,
               request |-> [op |-> op, definition |-> d]]
      BY <1>8, <2>2 DEF Idle
    <3>2. NoManager \in Managers' /\ NoManager.handle = Nobody BY DEF NoManager, Managers
    <3>3. [op |-> op, definition |-> d] \in Requests BY DEF Requests
    <3>4. n \in Controls' BY <1>7, <3>1, <3>2, <3>3 DEF Controls, Plans, FreePcs, Operations
    <3>5. n.pc \notin LockedPcs BY <3>1 DEF LockedPcs
    <3>6. allowed.handle # Nobody => child'[allowed.handle].owner = c BY <1>1, <1>6
    <3>7. QED BY <1>6, <3>1, <3>2, <3>4, <3>5, <3>6 DEF Sensible
  <2>3. QED BY <2>1, <2>2
<1>11. Sensible(c, control[c])' BY <1>9, <1>10
<1>12. QED BY <1>1, <1>2, <1>9, <1>10, <1>11, Aside DEF OwnersStay, KeepsOwners

\* An orderly end holds what it held.
LEMMA CloseStep ==
  ASSUME Inv, NEW c \in Controllers, Close(c) PROVE Inv'
<1> PICK k : k = control[c] OBVIOUS
<1>1. /\ k.pc = "idle" /\ k.pc \notin LockedPcs
      /\ UNCHANGED <<record, lock, child, published, spared, foreign>>
  BY DEF Close, LockedPcs
<1>2. Ages /\ OwnersStay BY <1>1, NoneAges
<1>3. Sensible(c, k) BY DEF Inv, ControlFit
<1>4. Launches' = Launches BY <1>1 DEF Launches
<1>5. PICK n : n = IF k.manager = NoManager THEN [k EXCEPT !.pc = "closing"]
                   ELSE [Idle(k.manager) EXCEPT !.pc = "stop", !.plan = "close"]
  OBVIOUS
<1>6. control' = [control EXCEPT ![c] = control'[c]] /\ control'[c] = n
  BY <1>5 DEF Close, Inv, ControlFit
<1>7. k \in Controls' /\ k.manager \in Managers'
  <2>1. Managers' = Managers BY <1>4 DEF Managers
  <2>2. QED BY <1>3, <2>1 DEF Sensible, Controls
<1>8. Sensible(c, n)' /\ n.pc \notin LockedPcs
  <2>1. CASE k.manager = NoManager
    <3>1. /\ n.pc = "closing" /\ n.plan = k.plan /\ n.manager = k.manager
          /\ n.old = k.old /\ n.request = k.request /\ n \in Controls'
      BY <1>5, <1>7, <2>1 DEF Controls, FreePcs
    <3>2. "closing" \notin Operations \cup LockedPcs BY DEF Operations, LockedPcs
    <3>3. QED BY <1>1, <1>3, <3>1, <3>2 DEF Sensible
  <2>2. CASE k.manager # NoManager
    <3>1. n = [pc |-> "stop", plan |-> "close", manager |-> k.manager, old |-> NoManager,
               request |-> NoRequest]
      BY <1>5, <2>2 DEF Idle
    <3>2. "stop" \in FreePcs BY DEF FreePcs, Operations
    <3>3. /\ k.manager.definition \in Definitions
          /\ k.manager.handle # Nobody => child'[k.manager.handle].owner = c
      BY <1>1, <1>3, <2>2 DEF Sensible
    <3>4. QED BY <1>7, <3>1, <3>2, <3>3, IdleIsSensible
  <2>3. QED BY <2>1, <2>2
<1>9. Sensible(c, control[c])' BY <1>6, <1>8
<1>10. QED BY <1>1, <1>2, <1>6, <1>8, <1>9, Aside DEF OwnersStay, KeepsOwners

\* A controller that comes back has no supervisor.
LEMMA ServeStep ==
  ASSUME Inv, NEW c \in Controllers, Serve(c) PROVE Inv'
<1>1. /\ control[c].pc \notin LockedPcs
      /\ UNCHANGED <<record, lock, child, published, spared, foreign>>
  BY DEF Serve, LockedPcs
<1>2. Ages /\ OwnersStay BY <1>1, NoneAges
<1>3. PICK n : n = [Idle(NoManager) EXCEPT !.pc = "idle"] OBVIOUS
<1>4. "idle" \in FreePcs \ Operations BY DEF FreePcs, Operations
<1>5. Sensible(c, n)' /\ n.pc \notin LockedPcs BY <1>3, <1>4, BareIsSensible
<1>6. control' = [control EXCEPT ![c] = control'[c]] /\ control'[c] = n
  BY <1>3 DEF Serve, Inv, ControlFit, Idle
<1>7. Sensible(c, control[c])' BY <1>5, <1>6
<1>8. QED BY <1>1, <1>2, <1>5, <1>6, <1>7, Aside DEF OwnersStay, KeepsOwners

-----------------------------------------------------------------------------
(* The invariant                                                             *)

\* No daemon runs, nobody holds the lock and no controller has a supervisor.
LEMMA InitInv == Init => Inv
<1> SUFFICES ASSUME Init PROVE Inv OBVIOUS
<1>1. Launches = {} /\ child \in Seq(Children) BY DEF Init, Launches
<1>2. RecordFit BY DEF Init, RecordFit, Records, Phases
<1>3. ChildFit BY <1>1 DEF ChildFit, OwnGeneration
<1>4. HistoryFit BY DEF Init, HistoryFit, NamedOrGone
<1>5. LockFit
  BY ControllersAssumption DEF Init, LockFit, Idle, LockedPcs
<1>6. ASSUME NEW c \in Controllers PROVE Sensible(c, control[c]) /\ Prepared(control[c])
  <2>1. control[c] = [pc |-> "idle", plan |-> "reply", manager |-> NoManager, old |-> NoManager,
                      request |-> NoRequest]
    BY DEF Init, Idle
  <2>2. NoManager \in Managers /\ NoManager.handle = Nobody BY DEF NoManager, Managers
  <2>3. NoRequest \in Requests BY DEF NoRequest, Requests
  <2>4. control[c] \in Controls BY <2>1, <2>2, <2>3 DEF Controls, FreePcs, Plans
  <2>5. QED BY <2>1, <2>2, <2>4 DEF Sensible, Prepared, Operations, LockedPcs
<1>7. control = [c \in Controllers |-> control[c]] BY DEF Init
<1>8. QED BY <1>2, <1>3, <1>4, <1>5, <1>6, <1>7 DEF Inv, ControlFit

\* Every step keeps the invariant.
LEMMA StepInv == Inv /\ [Next]_vars => Inv'
<1> SUFFICES ASSUME Inv, [Next]_vars PROVE Inv' OBVIOUS
<1>1. ASSUME NEW c \in Controllers, Operate(c) PROVE Inv'
  <2>1. Start(c) \/ Spawn(c) \/ Probe(c) \/ Undo(c) \/ Cleanup(c) => Inv'
    BY StartStep, SpawnStep, ProbeStep, UndoStep
  <2>2. Stop(c) \/ Kill(c) \/ Relaunch(c) \/ Status(c) \/ Busy(c) => Inv'
    BY StopStep, KillStep, RelaunchStep, StatusStep, BusyStep
  <2>3. QED BY <1>1, <2>1, <2>2 DEF Operate
<1>2. ASSUME NEW c \in Controllers, Close(c) \/ Leave(c) \/ Crash(c) \/ Serve(c) PROVE Inv'
  BY <1>2, CloseStep, LeaveStep, ServeStep
<1>3. ASSUME NEW c \in Controllers,
             \E op \in Operations, d \in Definitions, t \in BOOLEAN : Accept(c, op, d, t)
      PROVE  Inv'
  BY <1>3, AcceptStep
<1>4. CASE \E i \in Launches : GroupEnds(i) \/ \E left \in BOOLEAN : Exit(i, left)
  BY <1>4, ChildStep
<1>5. CASE UNCHANGED vars
  <2>1. UNCHANGED <<record, lock, control, child, published, spared, foreign>> BY <1>5 DEF vars
  <2>2. QED
    BY <2>1 DEF Inv, RecordFit, Records, ChildFit, Launches, OwnGeneration, HistoryFit, NamedOrGone,
           LockFit, ControlFit, Sensible, Prepared, MaySignal, Controls, Managers
<1>6. QED BY <1>1, <1>2, <1>3, <1>4, <1>5 DEF Next

\* The invariant holds in every reachable state.
LEMMA AlwaysInv == Spec => []Inv
BY InitInv, StepInv, PTL DEF Spec

-----------------------------------------------------------------------------
(* What it implies                                                           *)

\* The record, the handles and the holder of the lock are what the code takes
\* them for, and a record that says RUNNING names a process
\* (daemon_lifecycle.py, daemon_supervisor.py:81-88).
THEOREM TypeCorrect == Spec => []TypeOK
<1>1. ASSUME Inv PROVE TypeOK
  <2>1. \A c \in Controllers : control[c].manager.handle \in {Nobody} \cup Launches
    BY <1>1 DEF Inv, ControlFit, Sensible, Controls, Managers
  <2>2. QED BY <1>1, <2>1 DEF TypeOK, Inv, RecordFit, Records, ChildFit, HistoryFit, LockFit, LockedPcs
<1>2. QED BY AlwaysInv, <1>1, PTL

\* A child that the record has named and that still runs is the one it names: no
\* crash, no other controller and no failed operation makes it forgotten
\* (daemon_supervisor.py:81-88, 218-284).
THEOREM RunningIsNamed == Spec => []NamedOrGone
<1>1. Inv => NamedOrGone BY DEF Inv, HistoryFit
<1>2. QED BY AlwaysInv, <1>1, PTL

\* Every signal to a process group is of the controller that started it, or of
\* one that a request allowed to take the daemon over (README.md:122-126).
THEOREM OnlyAuthorisedSignals == Spec => []SignalsAuthorised
<1>1. Inv => SignalsAuthorised BY DEF Inv, HistoryFit, SignalsAuthorised
<1>2. QED BY AlwaysInv, <1>1, PTL

\* No two children are launched under one generation, whoever launched them and
\* however the launch ended (daemon_supervisor.py:218-284).
THEOREM GenerationsAreDistinct == Spec => []OwnGeneration
<1>1. Inv => OwnGeneration BY DEF Inv, ChildFit
<1>2. QED BY AlwaysInv, <1>1, PTL

\* Only a stop, a kill and a status call a recorded daemon stopped.
LEMMA WhoStops ==
  ASSUME Inv, Next, record.identity # Nobody, record'.phase = "stopped"
  PROVE  \E c \in Controllers : Stop(c) \/ Kill(c) \/ Status(c)
<1>1. record.phase # "stopped" /\ record \in Records BY DEF Inv, RecordFit
<1>2. ~ UNCHANGED record BY <1>1
<1>3. PICK c \in Controllers : Operate(c)
  <2>1. ASSUME NEW c \in Controllers PROVE ~Close(c) /\ ~Leave(c) /\ ~Crash(c) /\ ~Serve(c)
    BY <1>2 DEF Close, Leave, Crash, Serve
  <2>2. ASSUME NEW c \in Controllers, NEW op, NEW d, NEW t PROVE ~Accept(c, op, d, t)
    BY <1>2 DEF Accept
  <2>3. ASSUME NEW i \in Launches, NEW left PROVE ~GroupEnds(i) /\ ~Exit(i, left)
    BY <1>2 DEF GroupEnds, Exit, ChildrenOnly
  <2>4. QED BY <2>1, <2>2, <2>3 DEF Next
<1>4. ~Start(c) BY <1>1 DEF Start, GoesOn, Returns, Raises, Publish, Starting, Records
<1>5. ~Spawn(c) /\ ~Probe(c) /\ ~Cleanup(c) /\ ~Undo(c) /\ ~Relaunch(c)
  BY DEF Inv, ControlFit, Prepared, Spawn, Probe, Cleanup, Undo, Relaunch
<1>6. ~Busy(c) BY <1>2 DEF Busy
<1>7. QED BY <1>3, <1>4, <1>5, <1>6 DEF Operate

\* The owner that calls its child's daemon stopped has seen the end of the group.
LEMMA OwnersStop ==
  ASSUME Inv, NEW c \in Controllers, Stop(c) \/ Kill(c) \/ Status(c),
         record.identity # Nobody, control[c].manager.handle = record.identity,
         record'.phase = "stopped"
  PROVE  child'[record.identity].leader # "running" /\ ~child'[record.identity].group
<1> DEFINE i == record.identity
<1> PICK k : k = control[c] OBVIOUS
<1>1. record.phase # "stopped" /\ record \in Records /\ i \in Launches
  BY DEF Inv, RecordFit, Records
<1>2. child[i].owner = c /\ c # NoOne
  BY ControllersAssumption DEF Inv, ControlFit, Sensible
<1>3. child[i].leader = "missing" => ~child[i].group BY <1>1, <1>2 DEF Inv, ChildFit
<1>4. \A rec : rec.phase = record.phase /\ Publish(rec) => FALSE BY <1>1 DEF Publish
<1>5. \A p \in {"running", "stopping", "failed"} : ~Publish([record EXCEPT !.phase = p])
  BY <1>1 DEF Publish, Records
<1>6. ASSUME child' = Ended(i, c) PROVE child'[i].leader # "running" /\ ~child'[i].group
  BY <1>1, <1>6, EndedAges
<1>7. ASSUME child' = [child EXCEPT ![i].leader = "missing"], ~child[i].group
      PROVE  child'[i].leader # "running" /\ ~child'[i].group
  BY <1>1, <1>7, ReapedAges
<1>8. CASE Stop(c)
  <2>1. child[i].leader = "zombie" /\ StopZombie(c, k, i)
    BY <1>4, <1>5, <1>8 DEF Stop, StopRunning, Raises, GoesOn
  <2>2. child' = Ended(i, c) \/ (child' = [child EXCEPT ![i].leader = "missing"] /\ ~child[i].group)
    BY <1>4, <2>1 DEF StopZombie, Raises
  <2>3. QED BY <1>6, <1>7, <2>2
<1>9. CASE Kill(c) BY <1>5, <1>6, <1>9 DEF Kill, Raises
<1>10. CASE Status(c)
  <2>1. /\ child' = [child EXCEPT ![i].leader = "missing"]
        /\ child[i].leader \in {"zombie", "missing"}
        /\ ~(child[i].leader = "zombie" /\ child[i].group)
    BY <1>4, <1>5, <1>10 DEF Status, Sees, Raises, Returns
  <2>2. QED BY <1>3, <1>7, <2>1
<1>11. QED BY <1>8, <1>9, <1>10

\* Whoever stops, kills or asks for the status changes nobody else's state.
LEMMA OthersStay ==
  ASSUME NEW c, NEW d, d # c, Stop(c) \/ Kill(c) \/ Status(c), Inv, d \in Controllers
  PROVE  control'[d] = control[d]
<1>1. ASSUME NEW k, NEW rec, Returns(c, k, rec) \/ Raises(c, k, rec) \/ GoesOn(c, k, rec)
      PROVE  control'[d] = control[d]
  BY <1>1 DEF Returns, Raises, GoesOn, Inv, ControlFit
<1>2. ASSUME NEW k, Stopped(c, k) PROVE control'[d] = control[d] BY <1>1, <1>2 DEF Stopped
<1>3. CASE Stop(c) BY <1>1, <1>2, <1>3 DEF Stop, StopZombie, StopRunning
<1>4. CASE Kill(c) BY <1>1, <1>2, <1>4 DEF Kill
<1>5. CASE Status(c) BY <1>1, <1>5 DEF Status
<1>6. QED BY <1>3, <1>4, <1>5

\* When the owner of the recorded child calls the daemon stopped, nothing is left
\* of its process group, also when the leader had died before
\* (daemon_supervisor.py:229-256).
THEOREM OwnersStopHolds == Spec => OwnersStopIsWhole
<1> DEFINE Whole ==
      \A c \in Controllers :
        /\ control'[c] # control[c] /\ record.identity # Nobody
        /\ control[c].manager.handle = record.identity
        /\ record'.phase = "stopped"
        => child'[record.identity].leader # "running" /\ ~child'[record.identity].group
<1>1. ASSUME Inv, [Next]_vars PROVE [Whole]_vars
  <2>1. SUFFICES ASSUME Next, NEW c \in Controllers, control'[c] # control[c],
                        record.identity # Nobody,
                        control[c].manager.handle = record.identity, record'.phase = "stopped"
                 PROVE  child'[record.identity].leader # "running" /\ ~child'[record.identity].group
    BY <1>1
  <2>2. PICK d \in Controllers : Stop(d) \/ Kill(d) \/ Status(d) BY <1>1, <2>1, WhoStops
  <2>3. d = c BY <1>1, <2>1, <2>2, OthersStay
  <2>4. QED BY <1>1, <2>1, <2>2, <2>3, OwnersStop
<1>2. QED BY AlwaysInv, <1>1, PTL DEF Spec, OwnersStopIsWhole

-----------------------------------------------------------------------------
(* What a controller holds                                                   *)

\* A handle is of a child that was launched for the definition beside it; only a
\* stop forgets or replaces a supervisor, and a controller that is down has none.
Matches(m) == m.handle # Nobody => child[m.handle].definition = m.definition
Holds(k) ==
  /\ Matches(k.manager) /\ Matches(k.old)
  /\ k.plan \in {"forget", "replace"} => k.pc \in {"stop", "kill"}
  /\ k.pc = "down" => k.manager.handle = Nobody

\* A child that runs under its controller is in its hand, and recorded but while
\* it is probed or undone.
Probing == {"probe", "undo", "cleanup"}
InHand(c, i) ==
  /\ control[c].manager.handle = i
  /\ record.identity = i \/ control[c].pc \in Probing
Unspared(c, i) == child[i].owner = c /\ child[i].leader = "running" /\ i \notin spared

HandFit ==
  /\ \A c \in Controllers : Holds(control[c])
  /\ \A c \in Controllers, i \in Launches : Unspared(c, i) => InHand(c, i)

\* What a step may do to children that exist.
Tame ==
  /\ Launches' = Launches /\ spared \subseteq spared'
  /\ \A i \in Launches :
       /\ child'[i].definition = child[i].definition
       /\ child'[i].leader = "running" => child[i].leader = "running"
       /\ child'[i].owner \in {child[i].owner, NoOne}

\* Every launch has a child.
LEMMA EveryChild == ASSUME Inv, NEW j \in Launches PROVE child[j] \in Children
BY DEF Inv, ChildFit, Launches

\* Whatever ends, empties or orphans a child changes no definition and revives nobody.
LEMMA AgesTame ==
  ASSUME Inv, NEW i \in Launches, NEW c, spared \subseteq spared',
         child' \in {child, Ended(i, c), [child EXCEPT ![i].leader = "missing"],
                     [child EXCEPT ![i].group = FALSE], Orphaned(c)}
         \/ \E left \in BOOLEAN :
              child' = [child EXCEPT ![i].group = left,
                          ![i].leader = IF child[i].owner = NoOne THEN "missing" ELSE "zombie"]
  PROVE  Tame
<1>1. child \in Seq(Children) BY DEF Inv, ChildFit
<1>2. \A j \in Launches : child[j] \in Children BY EveryChild
<1>3. CASE child' = child BY <1>3 DEF Tame, Launches
<1>4. CASE child' = Ended(i, c) BY <1>1, <1>2, <1>4 DEF Tame, Launches, Ended, Children
<1>5. CASE child' = [child EXCEPT ![i].leader = "missing"]
  BY <1>1, <1>2, <1>5 DEF Tame, Launches, Children
<1>6. CASE child' = [child EXCEPT ![i].group = FALSE]
  BY <1>1, <1>2, <1>6 DEF Tame, Launches, Children
<1>7. CASE child' = Orphaned(c) BY <1>1, <1>2, <1>7 DEF Tame, Launches, Orphaned, Children
<1>8. CASE \E left \in BOOLEAN :
             child' = [child EXCEPT ![i].group = left,
                         ![i].leader = IF child[i].owner = NoOne THEN "missing" ELSE "zombie"]
  <2>1. PICK left \in BOOLEAN, to \in {"missing", "zombie"} :
          child' = [child EXCEPT ![i].group = left, ![i].leader = to]
    BY <1>8
  <2>2. PICK x : x = [child[i] EXCEPT !.group = left, !.leader = to] OBVIOUS
  <2>3. /\ x.definition = child[i].definition /\ x.owner = child[i].owner
        /\ x.leader # "running"
    BY <1>2, <2>1, <2>2 DEF Children
  <2>4. child' = [child EXCEPT ![i] = x] BY <2>1, <2>2 DEF Launches
  <2>5. QED BY <1>1, <2>3, <2>4 DEF Tame, Launches
<1>9. QED BY <1>3, <1>4, <1>5, <1>6, <1>7, <1>8

\* So does a step that leaves the children alone.
LEMMA SameTame == ASSUME UNCHANGED child, spared \subseteq spared' PROVE Tame
BY DEF Tame, Launches

\* No child is nobody.
LEMMA SomebodyElse == ASSUME Inv, NEW i \in Launches PROVE i # Nobody
BY DEF Inv, ChildFit, Launches, Nobody

\* A recorded child that runs and is not spared stays recorded.
RunsOn(rec) ==
  \A j \in Launches :
    record.identity = j /\ child'[j].leader = "running" /\ j \notin spared' => rec.identity = j

\* A controller's children that run are in the hand of h and recorded.
Keeps(c, h, rec) ==
  \A j \in Launches : Unspared(c, j)' => h.manager.handle = j /\ rec.identity = j

\* A controller that was not about to publish keeps what it had, unless there is
\* nothing left to keep.
LEMMA KeepsHandle ==
  ASSUME Inv, HandFit, NEW c \in Controllers, Tame, control[c].pc \notin Probing,
         NEW rec, RunsOn(rec),
         NEW h, h.manager.handle = control[c].manager.handle \/ rec.identity = Nobody
  PROVE  Keeps(c, h, rec)
<1> SUFFICES ASSUME NEW j \in Launches, Unspared(c, j)'
             PROVE  h.manager.handle = j /\ rec.identity = j
  BY DEF Keeps
<1>1. Unspared(c, j) BY ControllersAssumption DEF Unspared, Tame
<1>2. control[c].manager.handle = j /\ record.identity = j BY <1>1 DEF HandFit, InHand
<1>3. rec.identity = j BY <1>2 DEF RunsOn, Unspared
<1>4. QED BY <1>2, <1>3, SomebodyElse

\* What one controller does leaves the others what they hold.
LEMMA HandTurn ==
  ASSUME Inv, HandFit, NEW c \in Controllers, control' = [control EXCEPT ![c] = control'[c]],
         Tame, RunsOn(record'), Holds(control[c])',
         \A i \in Launches : Unspared(c, i)' => InHand(c, i)'
  PROVE  HandFit'
<1>1. \A d \in Controllers \ {c} : control'[d] = control[d] BY DEF Inv, ControlFit
<1>2. ASSUME NEW d \in Controllers PROVE Holds(control[d])'
  <2>1. CASE d = c BY <2>1
  <2>2. CASE d # c
    <3>1. control[d].manager.handle \in {Nobody} \cup Launches
          /\ control[d].old.handle \in {Nobody} \cup Launches
      BY DEF Inv, ControlFit, Sensible, Controls, Managers
    <3>2. PICK k : k = control[d] /\ k = control'[d] BY <1>1, <2>2
    <3>3. Holds(k) BY <3>2 DEF HandFit
    <3>4. Matches(k.manager)' /\ Matches(k.old)' BY <3>1, <3>2, <3>3 DEF Holds, Matches, Tame
    <3>5. Holds(k)' BY <3>3, <3>4 DEF Holds
    <3>6. QED BY <3>2, <3>5
  <2>3. QED BY <2>1, <2>2
<1>3. ASSUME NEW d \in Controllers, NEW i \in Launches, Unspared(d, i)' PROVE InHand(d, i)'
  <2>1. CASE d = c BY <1>3, <2>1
  <2>2. CASE d # c
    <3>1. Unspared(d, i) BY <1>3, ControllersAssumption DEF Unspared, Tame
    <3>2. InHand(d, i) BY <3>1 DEF HandFit
    <3>3. record.identity = i => record'.identity = i BY <1>3 DEF RunsOn, Unspared
    <3>4. QED BY <1>1, <2>2, <3>2, <3>3 DEF InHand
  <2>3. QED BY <2>1, <2>2
<1>4. Launches' = Launches BY DEF Tame
<1>5. QED BY <1>2, <1>3, <1>4 DEF HandFit

\* The supervisors a controller may be left with, and when it loses a handle.
LEMMA AfterHolds ==
  ASSUME NEW k \in Controls, NEW rec, NEW n, Holds(k)',
         \/ n = Failed(k)
         \/ n = Succeeded(k, rec) /\ (k.plan \in {"forget", "replace"} => rec.identity = Nobody)
  PROVE  Holds(n)' /\ (n.manager.handle = k.manager.handle \/ rec.identity = Nobody)
<1>1. k.plan \in Plans /\ Matches(k.manager)' /\ Matches(k.old)' BY DEF Controls, Holds
<1>2. /\ NoManager.handle = Nobody /\ Matches(NoManager)'
      /\ \A d : Managing(d).handle = Nobody /\ Matches(Managing(d))'
  BY DEF NoManager, Managing, Matches
<1>3. \A m : /\ Idle(m).manager = m /\ Idle(m).old = NoManager
             /\ Idle(m).plan = "reply" /\ Idle(m).pc = "idle"
  BY DEF Idle
<1>4. CASE n = Replies(k)
  BY <1>1, <1>2, <1>3, <1>4 DEF Replies, Holds
<1>5. CASE n = [k EXCEPT !.pc = "status", !.plan = "recover"]
  BY <1>1, <1>2, <1>5 DEF Holds, Controls
<1>6. CASE n = [k EXCEPT !.pc = "closing"] /\ k.plan = "close"
  BY <1>1, <1>2, <1>6 DEF Holds, Controls
<1>7. CASE n = Failed(k) BY <1>4, <1>5, <1>6, <1>7 DEF Failed
<1>8. CASE n = Succeeded(k, rec) /\ (k.plan \in {"forget", "replace"} => rec.identity = Nobody)
  <2>1. CASE k.plan = "forget"
    <3>1. n = Idle(NoManager) BY <1>8, <2>1 DEF Succeeded, Replies, Controls
    <3>2. QED BY <1>2, <1>3, <1>8, <2>1, <3>1 DEF Holds
  <2>2. CASE k.plan = "observe"
    <3>1. n = AfterObserving(k, rec) BY <1>8, <2>2 DEF Succeeded
    <3>2. CASE n = [Idle(k.manager) EXCEPT !.pc = "stop", !.plan = "forget"]
      BY <1>1, <1>2, <3>2 DEF Holds, Idle
    <3>3. CASE n = [Idle(Managing(k.request.definition)) EXCEPT !.pc = k.request.op]
               /\ ~ Occupied(k, rec)
      <4>1. rec.identity = Nobody BY <3>3 DEF Occupied
      <4>2. k.request.op # "down" BY DEF Controls, Requests, Operations
      <4>3. QED BY <1>2, <3>3, <4>1, <4>2 DEF Holds, Idle
    <3>4. CASE n = [k EXCEPT !.pc = "stop", !.plan = "replace"]
      BY <1>1, <3>4 DEF Holds, Controls
    <3>5. QED BY <1>4, <3>1, <3>2, <3>3, <3>4 DEF AfterObserving
  <2>3. CASE k.plan = "replace"
    <3>1. n = [k EXCEPT !.old = k.manager, !.manager = Managing(k.request.definition),
                        !.pc = "start", !.plan = "launch", !.request = NoRequest]
      BY <1>8, <2>3 DEF Succeeded
    <3>2. n.manager = Managing(k.request.definition) /\ n.old = k.manager /\ n.pc = "start"
          /\ n.plan = "launch"
      BY <3>1 DEF Controls
    <3>3. QED BY <1>1, <1>2, <1>8, <2>3, <3>2 DEF Holds
  <2>4. CASE k.plan = "recover"
    <3>1. n = AfterRecovering(k, rec) BY <1>8, <2>4 DEF Succeeded
    <3>2. CASE n = [k EXCEPT !.manager = k.old, !.old = NoManager, !.pc = "start",
                             !.plan = "rollback"] /\ ~ Occupied(k, rec)
      <4>1. n.manager = k.old /\ n.old = NoManager /\ n.pc = "start" /\ n.plan = "rollback"
        BY <3>2 DEF Controls
      <4>2. rec.identity = Nobody BY <3>2 DEF Occupied
      <4>3. QED BY <1>1, <1>2, <4>1, <4>2 DEF Holds
    <3>3. QED BY <1>4, <3>1, <3>2 DEF AfterRecovering
  <2>5. QED BY <1>1, <1>4, <1>6, <1>8, <2>1, <2>2, <2>3, <2>4 DEF Succeeded, Plans
<1>9. QED BY <1>7, <1>8

\* An operation ends and the controller has its child in hand.
LEMMA HandEnds ==
  ASSUME Inv, HandFit, NEW c \in Controllers, Tame, NEW h \in Controls, NEW rec, Holds(h)',
         RunsOn(rec), Keeps(c, h, rec),
         \/ Raises(c, h, rec)
         \/ Returns(c, h, rec) /\ (h.plan \in {"forget", "replace"} => rec.identity = Nobody)
  PROVE  HandFit'
<1>1. PICK n : /\ control' = [control EXCEPT ![c] = n]
               /\ \/ n = Failed(h)
                  \/ /\ n = Succeeded(h, rec)
                     /\ h.plan \in {"forget", "replace"} => rec.identity = Nobody
  BY DEF Returns, Raises
<1>2. record' = rec BY DEF Returns, Raises, Publish
<1>3. control'[c] = n BY <1>1 DEF Inv, ControlFit
<1>4. Holds(n)' /\ (n.manager.handle = h.manager.handle \/ rec.identity = Nobody)
  BY <1>1, AfterHolds
<1>5. Holds(control[c])' BY <1>3, <1>4
<1>6. \A i \in Launches : Unspared(c, i)' => InHand(c, i)'
  BY <1>2, <1>3, <1>4, SomebodyElse DEF Keeps, InHand
<1>7. QED BY <1>1, <1>2, <1>3, <1>5, <1>6, HandTurn

\* An operation goes on, with its child in hand.
LEMMA HandProceeds ==
  ASSUME Inv, HandFit, NEW c \in Controllers, Tame, NEW h, NEW rec, Holds(h)', RunsOn(rec),
         GoesOn(c, h, rec),
         \A j \in Launches : Unspared(c, j)' =>
           h.manager.handle = j /\ (rec.identity = j \/ h.pc \in Probing)
  PROVE  HandFit'
<1>1. record' = rec /\ control' = [control EXCEPT ![c] = h] BY DEF GoesOn, Publish
<1>2. control'[c] = h BY <1>1 DEF Inv, ControlFit
<1>3. Holds(control[c])' BY <1>2
<1>4. \A i \in Launches : Unspared(c, i)' => InHand(c, i)' BY <1>1, <1>2 DEF InHand
<1>5. QED BY <1>1, <1>2, <1>3, <1>4, HandTurn

\* What a controller was doing, and what it does next.
LEMMA OwnHolds ==
  ASSUME Inv, HandFit, NEW c \in Controllers, Tame, NEW k, k = control[c]
  PROVE  /\ k \in Controls /\ Released(k) \in Controls
         /\ Holds(k) /\ Holds(k)' /\ Holds(Released(k))'
         /\ Released(k).plan = k.plan /\ Released(k).pc = k.pc
         /\ Released(k).manager.handle = Nobody
         /\ \A h \in {k, Released(k)}, p \in LockedPcs :
              /\ [h EXCEPT !.pc = p].pc = p
              /\ [h EXCEPT !.pc = p].manager.handle = h.manager.handle
              /\ k.plan \notin {"forget", "replace"} \/ p = "kill" => Holds([h EXCEPT !.pc = p])'
<1>1. k \in Controls /\ Holds(k) BY DEF Inv, ControlFit, Sensible, HandFit
<1>2. k.manager.handle \in {Nobody} \cup Launches /\ k.old.handle \in {Nobody} \cup Launches
  BY <1>1 DEF Controls, Managers
<1>3. Holds(k)' BY <1>1, <1>2 DEF Holds, Matches, Tame
<1>4. PICK r : r = Released(k) OBVIOUS
<1>5. k.manager \in Managers BY <1>1 DEF Controls
<1>6. PICK m : m = [k.manager EXCEPT !.handle = Nobody] OBVIOUS
<1>7. m.handle = Nobody /\ m \in Managers BY <1>5, <1>6 DEF Managers
<1>8. r = [k EXCEPT !.manager = m] BY <1>1, <1>4, <1>5, <1>6 DEF Released, Controls, Managers
<1>9. r \in Controls /\ r.manager = m /\ r.old = k.old /\ r.plan = k.plan /\ r.pc = k.pc
  BY <1>1, <1>7, <1>8 DEF Controls
<1>10. Holds(r)' BY <1>3, <1>7, <1>9 DEF Holds, Matches
<1>11. ASSUME NEW h \in {k, r}, NEW p \in LockedPcs
       PROVE  /\ [h EXCEPT !.pc = p].pc = p
              /\ [h EXCEPT !.pc = p].manager.handle = h.manager.handle
              /\ k.plan \notin {"forget", "replace"} \/ p = "kill" => Holds([h EXCEPT !.pc = p])'
  <2>1. h \in Controls /\ Holds(h)' /\ h.plan = k.plan BY <1>1, <1>3, <1>9, <1>10
  <2>2. PICK n : n = [h EXCEPT !.pc = p] OBVIOUS
  <2>3. n.pc = p /\ n.manager = h.manager /\ n.old = h.old /\ n.plan = h.plan
    BY <2>1, <2>2 DEF Controls
  <2>4. k.plan \notin {"forget", "replace"} \/ p = "kill" => Holds(n)'
    BY <2>1, <2>3 DEF Holds, LockedPcs
  <2>5. QED BY <2>2, <2>3, <2>4
<1>12. QED BY <1>1, <1>3, <1>4, <1>7, <1>9, <1>10, <1>11

\* A record that names the same child, or is written when the child it named no
\* longer runs, loses none.
LEMMA Recorded ==
  ASSUME Inv, Tame, NEW rec,
         \/ rec.identity = record.identity
         \/ record.identity = Nobody
         \/ child[record.identity].leader # "running"
         \/ child'[record.identity].leader # "running"
         \/ record.identity \in spared'
  PROVE  RunsOn(rec)
BY SomebodyElse DEF RunsOn, Tame

\* An operation that was not probing ends, or goes on.
LEMMA HandOn ==
  ASSUME Inv, HandFit, NEW c \in Controllers, Tame, control[c].pc \notin Probing,
         NEW h \in Controls, NEW rec, Holds(h)', RunsOn(rec),
         h.manager.handle = control[c].manager.handle \/ rec.identity = Nobody,
         \/ Raises(c, h, rec)
         \/ Returns(c, h, rec) /\ (h.plan \in {"forget", "replace"} => rec.identity = Nobody)
         \/ GoesOn(c, h, rec)
  PROVE  HandFit'
<1>1. Keeps(c, h, rec) BY KeepsHandle
<1>2. CASE GoesOn(c, h, rec)
  <2>1. \A j \in Launches : Unspared(c, j)' =>
          h.manager.handle = j /\ (rec.identity = j \/ h.pc \in Probing)
    BY <1>1 DEF Keeps
  <2>2. QED BY <1>2, <2>1, HandProceeds
<1>3. QED BY <1>1, <1>2, HandEnds

\* start finds the recorded child running, gives up, or prepares a launch.
LEMMA StartHand == ASSUME Inv, HandFit, NEW c \in Controllers, Start(c) PROVE HandFit'
<1> PICK k : k = control[c] OBVIOUS
<1> PICK i : i = record.identity OBVIOUS
<1>1. /\ k.pc = "start" /\ UNCHANGED <<child, spared>>
      /\ k.pc \notin Probing /\ k.pc \notin {"stop", "kill"}
  BY DEF Start, Enters, Probing
<1>2. Tame BY <1>1, SameTame
<1>3. k \in Controls /\ Holds(k)' /\ k.plan \notin {"forget", "replace"}
  BY <1>1, <1>2, OwnHolds DEF Holds
<1>4. PICK h : h = [k EXCEPT !.pc = "spawn"] OBVIOUS
<1>5. h \in Controls /\ Holds(h)' /\ h.manager.handle = k.manager.handle
  <2>1. "spawn" \in LockedPcs BY DEF LockedPcs
  <2>2. h \in Controls BY <1>3, <1>4, <2>1 DEF Controls
  <2>3. QED BY <1>2, <1>3, <1>4, <2>1, <2>2, OwnHolds
<1>6. PICK s : s = Starting(record.generation + 1) OBVIOUS
<1>7. CASE GoesOn(c, h, s) /\ (i = Nobody \/ child[i].leader # "running")
  <2>1. s.identity = Nobody BY <1>6 DEF Starting
  <2>2. RunsOn(s) BY <1>2, <1>7, Recorded
  <2>3. QED BY <1>1, <1>2, <1>5, <1>7, <2>1, <2>2, HandOn
<1>8. CASE Raises(c, k, record)
  <2>1. RunsOn(record) BY <1>2, Recorded
  <2>2. QED BY <1>1, <1>2, <1>3, <1>8, <2>1, HandOn
<1>9. CASE Returns(c, k, [record EXCEPT !.phase = "running"])
  <2>1. PICK rec : rec = [record EXCEPT !.phase = "running"] OBVIOUS
  <2>2. rec.identity = record.identity BY <2>1 DEF Inv, RecordFit, Records
  <2>3. RunsOn(rec) BY <1>2, <2>2, Recorded
  <2>4. QED BY <1>1, <1>2, <1>3, <1>9, <2>1, <2>3, HandOn
<1>10. ASSUME NEW gone \in {"zombie", "missing"}, Sees(i, gone) PROVE child[i].leader # "running"
  BY <1>10 DEF Sees
<1>11. QED BY <1>4, <1>6, <1>7, <1>8, <1>9, <1>10 DEF Start

\* The generation and the record of a launch.
LEMMA RelaunchHand == ASSUME Inv, HandFit, NEW c \in Controllers, Relaunch(c) PROVE HandFit'
<1> PICK k : k = control[c] OBVIOUS
<1>1. /\ k.pc = "relaunch" /\ UNCHANGED <<child, spared>>
      /\ k.pc \notin Probing /\ k.pc \notin {"stop", "kill"}
  BY DEF Relaunch, Probing
<1>2. Tame /\ record.identity = Nobody BY <1>1, SameTame DEF Inv, ControlFit, Prepared
<1>3. k \in Controls /\ k.plan \notin {"forget", "replace"} /\ "spawn" \in LockedPcs
  BY <1>1, <1>2, OwnHolds DEF Holds, LockedPcs
<1>4. PICK h : h = [k EXCEPT !.pc = "spawn"] OBVIOUS
<1>5. h \in Controls BY <1>3, <1>4 DEF Controls
<1>6. Holds(h)' /\ h.manager.handle = k.manager.handle
  BY <1>2, <1>3, <1>4, <1>5, OwnHolds
<1>7. PICK s : s = Starting(record.generation + 1) OBVIOUS
<1>8. RunsOn(s) BY <1>2, Recorded
<1>9. GoesOn(c, h, s) BY <1>4, <1>7 DEF Relaunch
<1>10. QED BY <1>1, <1>2, <1>5, <1>6, <1>8, <1>9, HandOn

\* What a launch that failed leaves.
LEMMA CleansHand ==
  ASSUME Inv, HandFit, NEW c \in Controllers, control[c].pc \in Probing,
         NEW h \in Controls, NEW rec, Raises(c, h, rec), Tame, Holds(h)',
         LET i == control[c].manager.handle IN
         child'[i].leader # "running" \/ i \in spared'
  PROVE  HandFit'
<1>1. record.identity = Nobody BY DEF Inv, ControlFit, Prepared, Probing
<1>2. RunsOn(rec) BY <1>1, Recorded
<1>3. ASSUME NEW j \in Launches, Unspared(c, j)' PROVE FALSE
  <2>1. Unspared(c, j) BY <1>3, ControllersAssumption DEF Unspared, Tame
  <2>2. control[c].manager.handle = j BY <2>1 DEF HandFit, InHand
  <2>3. QED BY <1>3, <2>2 DEF Unspared
<1>4. Keeps(c, h, rec) BY <1>3 DEF Keeps
<1>5. QED BY <1>2, <1>4, HandEnds

\* A launch's child that did not pass its probe, and what is left of it.
LEMMA CleanupHand ==
  ASSUME Inv, HandFit, NEW c \in Controllers, Cleanup(c) \/ Undo(c) PROVE HandFit'
<1> PICK k : k = control[c] OBVIOUS
<1> PICK i : i = k.manager.handle OBVIOUS
<1>1. k.pc \in Probing BY DEF Cleanup, Undo, Probing
<1>2. i \in Launches /\ i # Nobody
  BY <1>1 DEF Inv, ControlFit, Prepared, Probing, Sensible, Controls, Managers
<1>3. \/ child' = Ended(i, c) /\ spared' = spared /\ \E rec : Raises(c, Released(k), rec)
      \/ spared' = spared \cup {i} /\ child' = child /\ \E rec : Raises(c, k, rec)
  BY DEF Cleanup, Undo
<1>4. Tame BY <1>2, <1>3, AgesTame
<1>5. /\ k \in Controls /\ Released(k) \in Controls /\ Holds(k)' /\ Holds(Released(k))'
  BY <1>4, OwnHolds
<1>6. CASE child' = Ended(i, c) /\ \E rec : Raises(c, Released(k), rec)
  <2>1. child'[i].leader # "running" BY <1>2, <1>6, EndedAges
  <2>2. QED BY <1>1, <1>4, <1>5, <1>6, <2>1, CleansHand
<1>7. CASE spared' = spared \cup {i} /\ \E rec : Raises(c, k, rec)
  BY <1>1, <1>4, <1>5, <1>7, CleansHand
<1>8. QED BY <1>3, <1>6, <1>7

\* Publication, or a failed launch that is cleaned up.
LEMMA ProbeHand == ASSUME Inv, HandFit, NEW c \in Controllers, Probe(c) PROVE HandFit'
<1> PICK k : k = control[c] OBVIOUS
<1> PICK i : i = k.manager.handle OBVIOUS
<1>1. k.pc = "probe" /\ k.pc \in Probing /\ UNCHANGED <<child, spared>>
      /\ k.pc \notin {"stop", "kill"}
  BY DEF Probe, Probing
<1>2. Tame /\ record.identity = Nobody
  BY <1>1, SameTame DEF Inv, ControlFit, Prepared
<1>3. k \in Controls /\ Holds(k)' /\ k.plan \notin {"forget", "replace"}
  BY <1>1, <1>2, OwnHolds DEF Holds
<1>4. \A j \in Launches : Unspared(c, j)' => j = i
  BY <1>2, ControllersAssumption DEF Unspared, Tame, HandFit, InHand
<1>5. CASE Returns(c, k, [record EXCEPT !.phase = "running", !.identity = i])
  <2>1. PICK rec : rec = [record EXCEPT !.phase = "running", !.identity = i] OBVIOUS
  <2>2. rec.identity = i BY <2>1 DEF Inv, RecordFit, Records
  <2>3. RunsOn(rec) BY <1>2, Recorded
  <2>4. Keeps(c, k, rec) BY <1>4, <2>2 DEF Keeps
  <2>5. QED BY <1>2, <1>3, <1>5, <2>1, <2>3, <2>4, HandEnds
<1>6. CASE \E p \in {"undo", "cleanup"} : GoesOn(c, [k EXCEPT !.pc = p], record)
  <2>1. PICK p \in {"undo", "cleanup"} : GoesOn(c, [k EXCEPT !.pc = p], record) BY <1>6
  <2>2. p \in LockedPcs /\ p \in Probing BY DEF LockedPcs, Probing
  <2>3. PICK h : h = [k EXCEPT !.pc = p] OBVIOUS
  <2>4. Holds(h)' /\ h.pc = p /\ h.manager.handle = i BY <1>2, <1>3, <2>2, <2>3, OwnHolds
  <2>5. RunsOn(record) BY <1>2, Recorded
  <2>6. QED BY <1>2, <1>4, <2>1, <2>2, <2>3, <2>4, <2>5, HandProceeds
<1>7. QED BY <1>5, <1>6 DEF Probe

\* A child that is not published yet is in the hand of who launched it.
LEMMA SpawnHand == ASSUME Inv, HandFit, NEW c \in Controllers, Spawn(c) PROVE HandFit'
<1> PICK k : k = control[c] OBVIOUS
<1>1. k.pc = "spawn" /\ UNCHANGED spared /\ k.pc \notin Probing /\ k.pc \notin {"stop", "kill"}
  BY DEF Spawn, Probing
<1>2. record.identity = Nobody /\ k \in Controls /\ Holds(k)
  BY <1>1 DEF Inv, ControlFit, Prepared, Sensible, HandFit
<1>3. \A j \in Launches : ~ Unspared(c, j)
  BY <1>1, <1>2, SomebodyElse DEF HandFit, InHand
<1>4. CASE Raises(c, k, Marked("failed")) /\ UNCHANGED child
  <2>1. Tame BY <1>1, <1>4, SameTame
  <2>2. Holds(k)' BY <2>1, OwnHolds
  <2>3. PICK rec : rec = Marked("failed") OBVIOUS
  <2>4. RunsOn(rec) BY <1>2, <2>1, Recorded
  <2>5. QED BY <1>1, <1>2, <1>4, <2>1, <2>2, <2>3, <2>4, HandOn
<1>5. CASE \E x : /\ child' = Append(child, x) /\ x.definition = k.manager.definition /\ x.owner = c
                  /\ GoesOn(c, [k EXCEPT !.pc = "probe", !.manager.handle = Len(child) + 1], record)
  <2>1. PICK x : /\ child' = Append(child, x) /\ x.definition = k.manager.definition /\ x.owner = c
                 /\ GoesOn(c, [k EXCEPT !.pc = "probe", !.manager.handle = Len(child) + 1], record)
    BY <1>5
  <2>2. PICK n \in Nat : n = Len(child) + 1 BY DEF Inv, ChildFit
  <2>3. PICK m : m = [k.manager EXCEPT !.handle = n] OBVIOUS
  <2>4. m.handle = n /\ m.definition = k.manager.definition BY <1>2, <2>3 DEF Controls, Managers
  <2>5. PICK h : h = [k EXCEPT !.pc = "probe", !.manager = m] OBVIOUS
  <2>6. h.pc = "probe" /\ h.manager = m /\ h.old = k.old /\ h.plan = k.plan
    BY <1>2, <2>5 DEF Controls
  <2>7. control' = [control EXCEPT ![c] = h] /\ record' = record
    BY <1>2, <2>1, <2>2, <2>3, <2>5 DEF GoesOn, Publish, Controls, Managers
  <2>8. control'[c] = h /\ \A d \in Controllers \ {c} : control'[d] = control[d]
    BY <2>7 DEF Inv, ControlFit
  <2>9. /\ Launches' = Launches \cup {n} /\ child'[n] = x
        /\ \A j \in Launches : child'[j] = child[j]
    BY <2>1, <2>2 DEF Inv, ChildFit, Launches
  <2>10. ASSUME NEW d \in Controllers PROVE Holds(control[d])'
    <3>1. PICK q : q = control[d] OBVIOUS
    <3>2. q.manager.handle \in {Nobody} \cup Launches /\ q.old.handle \in {Nobody} \cup Launches
          /\ Holds(q)
      BY <3>1 DEF Inv, ControlFit, Sensible, Controls, Managers, HandFit
    <3>3. Matches(q.manager)' /\ Matches(q.old)' BY <2>9, <3>2 DEF Holds, Matches
    <3>4. CASE d # c BY <2>8, <3>1, <3>2, <3>3, <3>4 DEF Holds
    <3>5. CASE d = c
      <4>1. Matches(m)' BY <2>1, <2>4, <2>9 DEF Matches
      <4>2. Holds(h)' BY <1>1, <2>6, <3>1, <3>2, <3>3, <3>5, <4>1 DEF Holds
      <4>3. QED BY <2>8, <3>5, <4>2
    <3>6. QED BY <3>4, <3>5
  <2>11. ASSUME NEW d \in Controllers, NEW j \in Launches', Unspared(d, j)' PROVE InHand(d, j)'
    <3>1. CASE j = n
      <4>1. d = c BY <2>1, <2>9, <2>11, <3>1 DEF Unspared
      <4>2. QED BY <2>4, <2>6, <2>8, <3>1, <4>1 DEF InHand, Probing
    <3>2. CASE j # n
      <4>1. j \in Launches /\ Unspared(d, j) BY <1>1, <2>9, <2>11, <3>2 DEF Unspared
      <4>2. d # c /\ InHand(d, j) BY <1>3, <4>1 DEF HandFit
      <4>3. QED BY <2>7, <2>8, <4>2 DEF InHand
    <3>3. QED BY <3>1, <3>2
  <2>12. QED BY <2>10, <2>11 DEF HandFit
<1>6. QED BY <1>4, <1>5 DEF Spawn

\* A stop that is done, or the restart that follows it.
LEMMA StopsHand ==
  ASSUME Inv, HandFit, NEW c \in Controllers, Tame,
         control[c].pc \in {"stop", "restart", "kill", "rekill"},
         NEW h \in {control[c], Released(control[c])}, Stopped(c, h),
         \/ record.identity = Nobody
         \/ child[record.identity].leader # "running"
         \/ child'[record.identity].leader # "running"
  PROVE  HandFit'
<1> PICK k : k = control[c] OBVIOUS
<1>1. k.pc \notin Probing BY DEF Probing
<1>2. PICK rec : rec = Marked("stopped") OBVIOUS
<1>3. rec.identity = Nobody BY <1>2, Writes DEF Phases
<1>4. RunsOn(rec) BY Recorded
<1>5. h \in Controls /\ Holds(h)' /\ h.pc = k.pc /\ h.plan = k.plan BY OwnHolds
<1>6. CASE k.pc \in {"restart", "rekill"}
  <2>1. k.plan \notin {"forget", "replace"} BY <1>6, OwnHolds DEF Holds
  <2>2. PICK n : n = [h EXCEPT !.pc = "relaunch"] OBVIOUS
  <2>3. n \in Controls BY <1>5, <2>2 DEF Controls, LockedPcs
  <2>4. "relaunch" \in LockedPcs BY DEF LockedPcs
  <2>5. Holds(n)' BY <2>1, <2>2, <2>4, OwnHolds
  <2>6. GoesOn(c, n, rec) BY <1>2, <1>5, <1>6, <2>2 DEF Stopped
  <2>7. QED BY <1>1, <1>3, <1>4, <2>3, <2>5, <2>6, HandOn
<1>7. CASE k.pc \notin {"restart", "rekill"}
  <2>1. Returns(c, h, rec) BY <1>2, <1>5, <1>7 DEF Stopped
  <2>2. QED BY <1>1, <1>3, <1>4, <1>5, <2>1, HandOn
<1>8. QED BY <1>6, <1>7

\* An operation raises, with the same process on record.
LEMMA RaisesHand ==
  ASSUME Inv, HandFit, NEW c \in Controllers, Tame, control[c].pc \notin Probing,
         NEW rec, rec.identity = record.identity, Raises(c, control[c], rec)
  PROVE  HandFit'
<1> PICK k : k = control[c] OBVIOUS
<1>1. k \in Controls /\ Holds(k)' BY OwnHolds
<1>2. RunsOn(rec) BY Recorded
<1>3. QED BY <1>1, <1>2, HandOn

\* A stop that finds the leader dead lets go of it only when its group is empty, or spares it.
LEMMA StopZombieHand ==
  ASSUME Inv, HandFit, NEW c \in Controllers, NEW k, k = control[c], k.pc \in {"stop", "restart"},
         NEW i, i = record.identity, i # Nobody, child[i].leader = "zombie", StopZombie(c, k, i)
  PROVE  HandFit'
<1>1. i \in Launches BY DEF Inv, RecordFit, Records
<1>2. k.pc \notin Probing BY DEF Probing
<1>3. CASE child' = Ended(i, c) /\ UNCHANGED spared /\ Stopped(c, Released(k))
  <2>1. Tame BY <1>1, <1>3, AgesTame
  <2>2. QED BY <1>3, <2>1, StopsHand
<1>4. CASE spared' = spared \cup {i} /\ UNCHANGED child /\ Raises(c, k, record)
  <2>1. Tame BY <1>4, SameTame
  <2>2. QED BY <1>2, <1>4, <2>1, RaisesHand
<1>5. CASE /\ child' \in {child, [child EXCEPT ![i].leader = "missing"]} /\ UNCHANGED spared
           /\ \E h \in {k, Released(k)} : Stopped(c, h)
  <2>1. Tame BY <1>1, <1>5, AgesTame
  <2>2. QED BY <1>5, <2>1, StopsHand
<1>6. QED BY <1>3, <1>4, <1>5 DEF StopZombie

\* stop and the first half of restart, up to the signal.
LEMMA StopHand == ASSUME Inv, HandFit, NEW c \in Controllers, Stop(c) PROVE HandFit'
<1> PICK k : k = control[c] OBVIOUS
<1> PICK i : i = record.identity OBVIOUS
<1>1. k.pc \in {"stop", "restart"} /\ k.pc \notin Probing BY DEF Stop, Enters, Probing
<1>2. CASE UNCHANGED <<child, spared>>
  <2>1. Tame BY <1>2, SameTame
  <2>2. k \in Controls /\ Holds(k) /\ k.manager.handle = control[c].manager.handle
    BY <2>1, OwnHolds
  <2>3. CASE Stopped(c, k) /\ (i = Nobody \/ child[i].leader # "running")
    BY <1>1, <2>1, <2>3, StopsHand
  <2>4. CASE Raises(c, k, record) BY <1>1, <2>1, <2>4, RaisesHand
  <2>5. CASE i # Nobody /\ StopRunning(c, k, i) /\ ~ Raises(c, k, record)
    <3>1. PICK rec : rec = [record EXCEPT !.phase = "stopping"] OBVIOUS
    <3>2. rec.identity = record.identity BY <3>1, Writes DEF Phases
    <3>3. PICK p \in LockedPcs : /\ p = "kill" \/ k.pc = "restart"
                                 /\ GoesOn(c, [k EXCEPT !.pc = p], rec)
      BY <2>5, <3>1 DEF StopRunning, LockedPcs
    <3>4. PICK h : h = [k EXCEPT !.pc = p] OBVIOUS
    <3>5. h \in Controls BY <2>2, <3>3, <3>4 DEF Controls
    <3>6. p = "kill" \/ k.plan \notin {"forget", "replace"} BY <2>2, <3>3 DEF Holds
    <3>7. Holds(h)' /\ h.manager.handle = k.manager.handle
      BY <2>1, <3>3, <3>4, <3>6, OwnHolds
    <3>8. RunsOn(rec) BY <2>1, <3>2, Recorded
    <3>9. QED BY <1>1, <2>1, <3>3, <3>4, <3>5, <3>7, <3>8, HandOn
  <2>6. CASE StopZombie(c, k, i) /\ i # Nobody /\ child[i].leader = "zombie"
    BY <1>1, <2>6, StopZombieHand
  <2>7. QED BY <2>3, <2>4, <2>5, <2>6 DEF Stop
<1>3. CASE StopZombie(c, k, i) /\ i # Nobody /\ child[i].leader = "zombie"
  BY <1>1, <1>3, StopZombieHand
<1>4. QED BY <1>2, <1>3 DEF Stop

\* A kill lets go of the child only when it has ended; otherwise the child is spared.
LEMMA KillHand == ASSUME Inv, HandFit, NEW c \in Controllers, Kill(c) PROVE HandFit'
<1> PICK k : k = control[c] OBVIOUS
<1> PICK i : i = record.identity OBVIOUS
<1>1. k.pc \in {"kill", "rekill"} /\ k.pc \notin Probing BY DEF Kill, Probing
<1>2. i \in Launches /\ i # Nobody
  BY <1>1 DEF Inv, ControlFit, Prepared, RecordFit, Records
<1>3. CASE child' = Ended(i, c) /\ Stopped(c, k) /\ UNCHANGED spared
  <2>1. Tame BY <1>2, <1>3, AgesTame
  <2>2. child'[i].leader # "running" BY <1>2, <1>3, EndedAges
  <2>3. QED BY <1>1, <1>3, <2>1, <2>2, StopsHand
<1>4. CASE /\ spared' = spared \cup {i} /\ UNCHANGED child
           /\ Raises(c, k, [record EXCEPT !.phase = "failed"])
  <2>1. Tame BY <1>4, SameTame
  <2>2. [record EXCEPT !.phase = "failed"].identity = record.identity BY Writes DEF Phases
  <2>3. QED BY <1>1, <1>4, <2>1, <2>2, RaisesHand
<1>5. QED BY <1>3, <1>4 DEF Kill

\* status adopts nothing, and forgets only what does not run.
LEMMA StatusHand == ASSUME Inv, HandFit, NEW c \in Controllers, Status(c) PROVE HandFit'
<1> PICK k : k = control[c] OBVIOUS
<1> PICK i : i = record.identity OBVIOUS
<1>1. /\ k.pc = "status" /\ UNCHANGED spared /\ k.pc \notin Probing
      /\ k.pc \notin {"stop", "kill"}
  BY DEF Status, Enters, Probing
<1>2. CASE Raises(c, k, record) /\ UNCHANGED child
  <2>1. Tame BY <1>1, <1>2, SameTame
  <2>2. QED BY <1>1, <1>2, <2>1, RaisesHand
<1>3. CASE /\ UNCHANGED child
           /\ \E rec : Returns(c, k, rec) /\ rec.identity = record.identity
  <2>1. Tame BY <1>1, <1>3, SameTame
  <2>2. k \in Controls /\ Holds(k)' /\ k.plan \notin {"forget", "replace"}
    BY <1>1, <2>1, OwnHolds DEF Holds
  <2>3. PICK rec : Returns(c, k, rec) /\ rec.identity = record.identity BY <1>3
  <2>4. RunsOn(rec) BY <2>1, <2>3, Recorded
  <2>5. QED BY <1>1, <2>1, <2>2, <2>3, <2>4, HandOn
<1>4. CASE /\ i # Nobody /\ child[i].leader # "running"
           /\ child' \in {child, [child EXCEPT ![i].leader = "missing"]}
           /\ \E h \in {k, Released(k)} : Returns(c, h, Marked("stopped"))
  <2>1. i \in Launches BY <1>4 DEF Inv, RecordFit, Records
  <2>2. Tame BY <1>1, <1>4, <2>1, AgesTame
  <2>3. PICK h \in {k, Released(k)} : Returns(c, h, Marked("stopped")) BY <1>4
  <2>4. h \in Controls /\ Holds(h)' BY <2>2, OwnHolds
  <2>5. PICK rec : rec = Marked("stopped") OBVIOUS
  <2>6. rec.identity = Nobody BY <2>5, Writes DEF Phases
  <2>7. RunsOn(rec) BY <1>4, <2>2, Recorded
  <2>8. QED BY <1>1, <2>2, <2>3, <2>4, <2>5, <2>6, <2>7, HandOn
<1>5. \A p \in Phases : [record EXCEPT !.phase = p].identity = record.identity
  BY Writes
<1>6. ASSUME NEW gone \in {"zombie", "missing"}, Sees(i, gone) PROVE child[i].leader # "running"
  BY <1>6 DEF Sees
<1>7. QED BY <1>2, <1>3, <1>4, <1>5, <1>6 DEF Status, Phases

\* A controller turns to something else, and the record stays.
LEMMA AsideHand ==
  ASSUME Inv, HandFit, NEW c \in Controllers, Tame, UNCHANGED record,
         NEW n, control' = [control EXCEPT ![c] = n], Holds(n)',
         \/ /\ control[c].pc \notin Probing
            /\ n.manager.handle = control[c].manager.handle \/ record.identity = Nobody
         \/ \A j \in Launches : ~ Unspared(c, j)'
  PROVE  HandFit'
<1>1. control'[c] = n BY DEF Inv, ControlFit
<1>2. Holds(control[c])' BY <1>1
<1>3. RunsOn(record) BY Recorded
<1>4. \A j \in Launches : Unspared(c, j)' => n.manager.handle = j /\ record.identity = j
  BY <1>3, KeepsHandle DEF Keeps
<1>5. \A j \in Launches : Unspared(c, j)' => InHand(c, j)' BY <1>1, <1>4 DEF InHand
<1>6. QED BY <1>1, <1>2, <1>3, <1>5, HandTurn

\* An operation that does not get the lock changes neither hand nor record.
LEMMA BusyHand == ASSUME Inv, HandFit, NEW c \in Controllers, Busy(c) PROVE HandFit'
<1> PICK k : k = control[c] OBVIOUS
<1> PICK n : n = Failed(k) OBVIOUS
<1>1. /\ k.pc \notin Probing /\ UNCHANGED <<record, child, spared>>
      /\ control' = [control EXCEPT ![c] = n]
  BY DEF Busy, Operations, Probing
<1>2. Tame BY <1>1, SameTame
<1>3. k \in Controls /\ Holds(k)' BY <1>2, OwnHolds
<1>4. Holds(n)' /\ (n.manager.handle = k.manager.handle \/ record.identity = Nobody)
  BY <1>3, AfterHolds
<1>5. QED BY <1>1, <1>2, <1>4, AsideHand

\* A request: with another definition, the manager in use is set aside for a roll-back.
LEMMA AcceptHand ==
  ASSUME Inv, HandFit, NEW c \in Controllers, NEW op \in Operations, NEW d \in Definitions,
         NEW t \in BOOLEAN, Accept(c, op, d, t)
  PROVE  HandFit'
<1> PICK k : k = control[c] OBVIOUS
<1>1. k.pc = "idle" /\ k.pc \notin Probing /\ UNCHANGED <<record, child, spared>>
  BY DEF Accept, Probing
<1>2. Tame BY <1>1, SameTame
<1>3. k \in Controls /\ Holds(k)' /\ k.manager \in Managers
  BY <1>2, OwnHolds DEF Controls
<1>4. PICK m : m = IF k.manager = NoManager THEN Managing(d) ELSE k.manager OBVIOUS
<1>5. m \in Managers /\ m.handle = k.manager.handle /\ Matches(m)'
  BY <1>3, <1>4 DEF Managing, NoManager, Managers, Holds, Matches
<1>6. PICK a : a = [m EXCEPT !.takeover = @ \/ t] OBVIOUS
<1>7. a.handle = m.handle /\ a.definition = m.definition BY <1>5, <1>6 DEF Managers
<1>8. Matches(a)' BY <1>5, <1>7 DEF Matches
<1>9. PICK n : /\ control' = [control EXCEPT ![c] = n]
               /\ \/ n = [Idle(a) EXCEPT !.pc = op,
                                         !.plan = IF op = "stop" THEN "forget" ELSE "reply"]
                  \/ \E r : n = [Idle(a) EXCEPT !.pc = "status", !.request = r, !.plan = "observe"]
  BY <1>4, <1>6 DEF Accept
<1>10. n.manager = a /\ n.old = NoManager /\ n.pc # "down"
       /\ (n.plan \in {"forget", "replace"} => n.pc = "stop")
  BY <1>9 DEF Idle, Operations
<1>11. Matches(NoManager)' BY DEF Matches, NoManager
<1>12. Holds(n)' /\ n.manager.handle = k.manager.handle
  BY <1>5, <1>7, <1>8, <1>10, <1>11 DEF Holds
<1>13. QED BY <1>1, <1>2, <1>9, <1>12, AsideHand

\* A controller that closes stops what it holds, or has nothing to stop.
LEMMA CloseHand == ASSUME Inv, HandFit, NEW c \in Controllers, Close(c) PROVE HandFit'
<1> PICK k : k = control[c] OBVIOUS
<1>1. k.pc = "idle" /\ k.pc \notin Probing /\ UNCHANGED <<record, child, spared>>
  BY DEF Close, Probing
<1>2. Tame BY <1>1, SameTame
<1>3. k \in Controls /\ Holds(k)' BY <1>2, OwnHolds
<1>4. PICK n : /\ control' = [control EXCEPT ![c] = n]
               /\ \/ n = [k EXCEPT !.pc = "closing"]
                  \/ n = [Idle(k.manager) EXCEPT !.pc = "stop", !.plan = "close"]
  BY DEF Close
<1>5. Matches(NoManager)' BY DEF Matches, NoManager
<1>6. Holds(n)' /\ n.manager.handle = k.manager.handle
  <2>1. CASE n = [k EXCEPT !.pc = "closing"] BY <1>1, <1>3, <2>1 DEF Holds, Controls
  <2>2. CASE n = [Idle(k.manager) EXCEPT !.pc = "stop", !.plan = "close"]
    BY <1>3, <1>5, <2>2 DEF Holds, Idle
  <2>3. QED BY <1>4, <2>1, <2>2
<1>7. QED BY <1>1, <1>2, <1>4, <1>6, AsideHand

\* A controller that is gone, or comes back, owns no child.
LEMMA LeaveHand ==
  ASSUME Inv, HandFit, NEW c \in Controllers, Leave(c) \/ Crash(c) PROVE HandFit'
<1>1. control' = [control EXCEPT ![c] = Down] /\ child' = Orphaned(c) /\ UNCHANGED <<record, spared>>
  BY DEF Leave, Crash, Leaves
<1>2. CASE Launches = {}
  <2>1. Len(child) = 0 /\ Launches' = {} BY <1>1, <1>2 DEF Orphaned, Launches, Inv, ChildFit
  <2>2. Tame BY <1>1, <1>2, <2>1 DEF Tame
  <2>3. Holds(Down)' BY DEF Holds, Down, Idle, Matches, NoManager
  <2>4. QED BY <1>1, <1>2, <2>2, <2>3, AsideHand
<1>3. CASE Launches # {}
  <2>1. PICK i \in Launches : TRUE BY <1>3
  <2>2. Tame BY <1>1, <2>1, AgesTame
  <2>3. Holds(Down)' BY DEF Holds, Down, Idle, Matches, NoManager
  <2>4. ASSUME NEW j \in Launches PROVE ~ Unspared(c, j)'
    <3>1. child'[j].owner # c
      BY <1>1, ControllersAssumption, EveryChild DEF Orphaned, Children
    <3>2. QED BY <3>1 DEF Unspared
  <2>5. QED BY <1>1, <2>2, <2>3, <2>4, AsideHand
<1>4. QED BY <1>2, <1>3

\* A controller that begins to serve has empty hands.
LEMMA ServeHand == ASSUME Inv, HandFit, NEW c \in Controllers, Serve(c) PROVE HandFit'
<1> PICK n : n = Idle(NoManager) OBVIOUS
<1>1. /\ control[c].pc = "down" /\ control[c].pc \notin Probing
      /\ UNCHANGED <<record, child, spared>> /\ control' = [control EXCEPT ![c] = n]
  BY DEF Serve, Probing
<1>2. Tame BY <1>1, SameTame
<1>3. control[c].manager.handle = Nobody BY <1>1 DEF HandFit, Holds
<1>4. Holds(n)' /\ n.manager.handle = Nobody BY DEF Holds, Idle, Matches, NoManager
<1>5. QED BY <1>1, <1>2, <1>3, <1>4, AsideHand

\* Nothing that happens to the children, or to no one, changes who holds what.
LEMMA WorldHand ==
  ASSUME Inv, HandFit, Tame, UNCHANGED <<control, record>> PROVE HandFit'
<1>1. CASE Controllers = {} BY <1>1 DEF HandFit
<1>2. ASSUME NEW c \in Controllers PROVE HandFit'
  <2>1. PICK k : k = control[c] OBVIOUS
  <2>2. control' = [control EXCEPT ![c] = k] BY <2>1 DEF Inv, ControlFit
  <2>3. Holds(k)' BY <2>1, OwnHolds
  <2>4. RunsOn(record) BY Recorded
  <2>5. Holds(control[c])' BY <2>1, <2>3
  <2>6. \A j \in Launches : Unspared(c, j)' => InHand(c, j)'
    <3>1. \A j \in Launches : Unspared(c, j)' => Unspared(c, j)
      BY ControllersAssumption DEF Unspared, Tame
    <3>2. QED BY <3>1 DEF HandFit, InHand
  <2>7. control' = [control EXCEPT ![c] = control'[c]] BY DEF Inv, ControlFit
  <2>8. RunsOn(record') BY <2>4
  <2>9. QED BY <2>5, <2>6, <2>7, <2>8, HandTurn
<1>3. QED BY <1>1, <1>2

\* Nothing runs at first.
LEMMA InitHand == Init => HandFit
<1> SUFFICES ASSUME Init PROVE HandFit
  OBVIOUS
<1>1. Launches = {} BY DEF Init, Launches
<1>2. \A c \in Controllers : Holds(control[c])
  BY DEF Init, Holds, Idle, Matches, NoManager
<1>3. QED BY <1>1, <1>2 DEF HandFit

\* HandFit is inductive relative to Inv.
LEMMA StepHand == Inv /\ HandFit /\ [Next]_vars => HandFit'
<1> SUFFICES ASSUME Inv, HandFit, [Next]_vars PROVE HandFit'
  OBVIOUS
<1>1. ASSUME NEW c \in Controllers, Operate(c) PROVE HandFit'
  BY <1>1, StartHand, SpawnHand, ProbeHand, CleanupHand, StopHand, KillHand, RelaunchHand,
     StatusHand, BusyHand
  DEF Operate
<1>2. ASSUME NEW c \in Controllers, Close(c) \/ Leave(c) \/ Crash(c) \/ Serve(c) PROVE HandFit'
  BY <1>2, CloseHand, LeaveHand, ServeHand
<1>3. ASSUME NEW c \in Controllers, NEW op \in Operations, NEW d \in Definitions,
             NEW t \in BOOLEAN, Accept(c, op, d, t)
      PROVE  HandFit'
  BY <1>3, AcceptHand
<1>4. ASSUME NEW i \in Launches, GroupEnds(i) \/ \E left \in BOOLEAN : Exit(i, left) PROVE HandFit'
  <2>1. UNCHANGED <<control, record, spared>> BY <1>4 DEF GroupEnds, Exit, ChildrenOnly
  <2>2. Tame BY <1>4, <2>1, AgesTame DEF GroupEnds, Exit
  <2>3. QED BY <2>1, <2>2, WorldHand
<1>5. CASE UNCHANGED vars
  <2>1. UNCHANGED <<control, record, spared, child>> BY <1>5 DEF vars
  <2>2. Tame BY <2>1, SameTame
  <2>3. QED BY <2>1, <2>2, WorldHand
<1>6. QED BY <1>1, <1>2, <1>3, <1>4, <1>5 DEF Next

\* What a controller launched and nobody spared is in its hand and in the record, always.
LEMMA AlwaysHand == Spec => []HandFit
<1>1. Init => HandFit BY InitHand
<1>2. Inv /\ HandFit /\ [Next]_vars => HandFit' BY StepHand
<1>3. QED BY <1>1, <1>2, AlwaysInv, PTL DEF Spec

\* A controller keeps the handle of its running child, through every change of
\* definition and roll-back, unless the child outlived its kill
\* (daemon_controller.py, _restart_definition).
THEOREM HandsAreKept == Spec => []KeepsItsChild
<1>1. HandFit => KeepsItsChild BY DEF HandFit, Unspared, InHand, KeepsItsChild
<1>2. QED BY <1>1, AlwaysHand, PTL

\* Between requests, the child a controller has started runs the definition that
\* the controller goes by (daemon_controller.py, _dispatch_definition_drift).
THEOREM DefinitionsAreRun == Spec => []RunsItsDefinition
<1>1. HandFit => RunsItsDefinition BY DEF HandFit, Holds, Matches, RunsItsDefinition
<1>2. QED BY <1>1, AlwaysHand, PTL
=============================================================================
