-------------------------- MODULE SupervisorProofs --------------------------
(***************************************************************************)
(* Proofs about Supervisor for every retry limit and every bound: its type *)
(* invariant, that at most one runtime of the chain is alive, that none is *)
(* between the durable STOPPED and the next launch, that a blocked or      *)
(* completed run stays so, that the retry budget bounds the launches, that *)
(* completion leaves nothing behind, what every step may do with capsules, *)
(* sessions and prompts, and that the chain implements the hand-over of    *)
(* one seat (Handoff).                                                     *)
(***************************************************************************)
EXTENDS Supervisor, TLAPS

-----------------------------------------------------------------------------
(* The inductive invariant. *)

\* A live runtime belongs to the generation of the snapshot.
OfThisGeneration == \A r \in live : r.gen = snapshot.generation

\* The phases in which nothing may run.
Vacated ==
  snapshot.phase \in {"initial", "stopped", "fencing", "fenced", "claiming",
                      "completed"} => live = {}

\* The phases in which only the runtime of the snapshot may run; in the others
\* a launch may be under way or forgotten.
Recorded ==
  snapshot.phase \in Supervised \cup {"stopping"} =>
    live \subseteq {snapshot.process}

\* Who may run while an effect is not yet persisted.
EffectNotSaved ==
  /\ pc = "launched" => live \subseteq {held.process}
  /\ pc = "stopped" => live = {}
  /\ pc = "retried" /\ snapshot.phase = "awaiting_ack" => live = {}
  /\ pc \in {"exited", "save"} /\ snapshot.phase \in {"running", "warning"} =>
       snapshot.process \notin live

\* The phases in which the supervisor process can be at a place.
PhaseAt(place) ==
  CASE place = "claimed0"                     -> {"initial"}
    [] place = "launched"                     -> {"launching"}
    [] place \in {"accept", "accepted"}       -> {"awaiting_ack"}
    [] place \in {"retry", "retried"}         -> {"awaiting_ack", "launching"}
    [] place \in {"checkpoint", "receipt"}    -> {"checkpointing"}
    [] place = "save"                         -> {"checkpointing", "running",
                                                  "warning"}
    [] place = "exited"                       -> {"running", "warning"}
    [] place = "stopped"                      -> {"stopping"}
    [] place = "fenced"                       -> {"fencing"}
    [] place = "claimed"                      -> {"claiming"}
    [] place \in {"probe", "fence", "close", "keep"} -> Phases \ {"completed"}
    [] OTHER                                  -> Phases

PlaceFitsPhase == snapshot.phase \in PhaseAt(pc)

SeatInv == /\ NoOverlap /\ OfThisGeneration /\ Vacated /\ Recorded
           /\ EffectNotSaved /\ PlaceFitsPhase

Inv == TypeOK /\ SeatInv

-----------------------------------------------------------------------------
(* Types *)

\* The values that stand for "none" have their types.
LEMMA Defaults ==
  NoRuntime \in Runtime /\ NoCapsule \in Capsule /\ Nothing \in Held
BY DEF NoRuntime, NoCapsule, Nothing, Runtime, Capsule, Held

\* Failing closed on a lost claim keeps the types.
LEMMA FailClosedType == TypeOK /\ FailClosed => TypeOK'
<1> SUFFICES ASSUME TypeOK, FailClosed PROVE TypeOK'
  OBVIOUS
<1> USE DEF TypeOK, FailClosed, hookVars, storeVars
<1>1. snapshot' \in Snapshot
  BY Defaults DEF Blocked, Snapshot, Phases
<1>2. pc' \in Places
  BY DEF Places, Stopping
<1> QED
  BY <1>1, <1>2

\* So does a heartbeat, whether the claim is still current or not.
LEMMA HeartbeatType ==
  \A place \in Places : TypeOK /\ Heartbeat(place) => TypeOK'
<1> SUFFICES ASSUME NEW place \in Places, TypeOK, Heartbeat(place)
             PROVE  TypeOK'
  OBVIOUS
<1>1. CASE FailClosed
  BY <1>1, FailClosedType
<1>2. CASE ~FailClosed
  <2>1. task' \in Task
    BY <1>2 DEF TypeOK, Heartbeat, Beat, Task, Fresh
  <2> QED
    BY <1>2, <2>1 DEF TypeOK, Heartbeat, runtimeVars, hookVars, storeVars
<1> QED
  BY <1>1, <1>2

\* And one that is not due.
LEMMA HeartbeatIfDueType ==
  \A place \in Places : TypeOK /\ HeartbeatIfDue(place) => TypeOK'
<1> SUFFICES ASSUME NEW place \in Places, TypeOK, HeartbeatIfDue(place)
             PROVE  TypeOK'
  OBVIOUS
<1>1. CASE Goto(place)
  BY <1>1 DEF TypeOK, Goto, world, runtimeVars, hookVars, storeVars
<1> QED
  BY <1>1, HeartbeatType DEF HeartbeatIfDue

\* The initial state is well typed.
LEMMA TypeInit == Init => TypeOK
BY Defaults DEF Init, TypeOK, Snapshot, Phases, Places, Held, Task, Fresh

\* Every step keeps the types.
LEMMA TypeStep == TypeOK /\ [Next]_vars => TypeOK'
<1> SUFFICES ASSUME TypeOK, Next PROVE TypeOK'
  BY DEF TypeOK, vars, world, runtimeVars, hookVars, storeVars
<1> USE Defaults DEF TypeOK, world, runtimeVars, hookVars, storeVars
<1>1. CASE Boot
  BY <1>1 DEF Boot, Refresh, Snapshot, Places, Working, Stopping
<1>2. CASE StartTerminal
  BY <1>2 DEF StartTerminal, Goto, Snapshot, Places, Working, Stopping
<1>3. CASE ClaimRoot
  BY <1>3 DEF ClaimRoot, Grant, Conflict, Goto, Snapshot, Held, Places,
     Working, Stopping, Task, Fresh, Due, Expired
<1>4. CASE SaveRootClaim
  BY <1>4 DEF SaveRootClaim, Snapshot, Phases, Held, Places, Working,
     Stopping
<1>5. CASE Resume
  BY <1>5 DEF Resume, EnsureLive, Goto, Fault, Blocked, Persist, Snapshot,
     Phases, Places, Working, Stopping
<1>6. CASE Launch
  <2>1. NextRuntime(serial + 1) \in Runtime /\ Mine \subseteq live
    BY DEF NextRuntime, Mine, Runtime, Snapshot
  <2>2. held' \in Held /\ pc' \in Places
    BY <1>6, <2>1 DEF Launch, Held, Places, Working
  <2> QED
    BY <1>6, <2>1, <2>2 DEF Launch
<1>7. CASE LaunchFails
  <2>1. NextRuntime(serial + 1) \in Runtime
    BY DEF NextRuntime, Runtime, Snapshot
  <2>2. pc' \in Places
    BY <1>7 DEF LaunchFails, Places, Working, Stopping
  <2> QED
    BY <1>7, <2>1, <2>2 DEF LaunchFails, Fault
<1>8. CASE SaveLaunch
  <2>1. snapshot' \in Snapshot
    <3>1. CASE snapshot.generation = 0
      BY <1>8, <3>1 DEF SaveLaunch, Snapshot, Phases, Held
    <3>2. CASE snapshot.generation # 0
      <4>1. "awaiting_ack" \in Phases /\ held.process \in Runtime
        BY DEF Phases, Held
      <4> QED
        BY <1>8, <3>2, <4>1 DEF SaveLaunch, Snapshot
    <3> QED
      BY <3>1, <3>2
  <2>2. pc' \in Places /\ sessions' \subseteq live'
    BY <1>8 DEF SaveLaunch, Places, Working
  <2> QED
    BY <1>8, <2>1, <2>2 DEF SaveLaunch
<1>9. CASE HeartbeatAfterLaunch
  <2>1. "idle" \in Places
    BY DEF Places, Working
  <2> QED
    BY <1>9, <2>1, HeartbeatIfDueType DEF HeartbeatAfterLaunch
<1>10. CASE TickBegin
  BY <1>10 DEF TickBegin, Refresh, Snapshot, Places, Working, Stopping
<1>11. CASE TickEnsureLive
  BY <1>11 DEF TickEnsureLive, EnsureLive, Goto, Fault, Blocked, Persist,
     Snapshot, Phases, Places, Working, Stopping
<1>12. CASE TickHeartbeat
  <2>1. "work" \in Places
    BY DEF Places, Working
  <2> QED
    BY <1>12, <2>1, HeartbeatIfDueType DEF TickHeartbeat
<1>13. CASE FenceExited
  BY <1>13 DEF FenceExited, Fence, FenceStale, Goto, Fault, Blocked, Stale,
     Current, Snapshot, Phases, Places, Working, Stopping, Task, Fresh, Due,
     Expired
<1>14. CASE SaveCompleted
  BY <1>14 DEF SaveCompleted, Persist, Snapshot, Phases, Places, Working,
     Stopping
<1>15. CASE Observe
  <2>1. snapshot' \in Snapshot
    BY <1>15 DEF Observe, Observed, Persist, Observing, Snapshot, Phases
  <2>2. pc' \in Places
    BY <1>15 DEF Observe, Persist, Places, Working
  <2> QED
    BY <1>15, <2>1, <2>2 DEF Observe, Persist
<1>16. CASE ResumeRotation
  BY <1>16 DEF ResumeRotation, Goto, Snapshot, Places, Working, Stopping
<1>17. CASE AwaitAck
  <2>1. \A place \in Places : Goto(place) => TypeOK'
    BY DEF Goto
  <2>2. {"retry", "idle", "shutdown", "accept"} \subseteq Places
    BY DEF Places, Working, Stopping
  <2> QED
    BY <1>17, <2>1, <2>2, HeartbeatType DEF AwaitAck
<1>18. CASE AcknowledgeStores
  BY <1>18 DEF AcknowledgeStores, Fault, Snapshot, Places, Working, Stopping
<1>19. CASE SaveAcknowledged
  BY <1>19 DEF SaveAcknowledged, Snapshot, Phases, Places, Working, Stopping
<1>20. CASE ClearAck
  BY <1>20 DEF ClearAck, Snapshot, Places, Working, Stopping
<1>21. CASE StopFailedSuccessor
  <2>1. snapshot' \in Snapshot
    BY <1>21 DEF StopFailedSuccessor, Blocked, Snapshot, Phases
  <2>2. held' \in Held /\ pc' \in Places
    BY <1>21 DEF StopFailedSuccessor, Held, Places, Working, Stopping
  <2>3. CASE Ends(snapshot.process, {})
    BY <1>21, <2>1, <2>2, <2>3 DEF StopFailedSuccessor, Ends, Fault
  <2>4. CASE ~Ends(snapshot.process, {})
    BY <1>21, <2>1, <2>2, <2>4 DEF StopFailedSuccessor, Fault
  <2> QED
    BY <2>3, <2>4
<1>22. CASE SaveRetry
  <2>1. snapshot' \in Snapshot
    <3>1. CASE snapshot.attempt >= RetryLimit
      BY <1>22, <3>1 DEF SaveRetry, Persist, Snapshot, Phases
    <3>2. CASE ~(snapshot.attempt >= RetryLimit)
      <4>1. snapshot.attempt + 1 \in Nat
        BY DEF Snapshot
      <4>2. "launching" \in Phases
        BY DEF Phases
      <4> QED
        BY <1>22, <3>2, <4>1, <4>2 DEF SaveRetry, Persist, Snapshot
    <3> QED
      BY <3>1, <3>2
  <2>2. pc' \in Places
    BY <1>22 DEF SaveRetry, Persist, Places, Working, Stopping
  <2> QED
    BY <1>22, <2>1, <2>2 DEF SaveRetry, Persist
<1>23. CASE HeartbeatBeforeCheckpoint
  <2>1. {"checkpoint", "idle"} \subseteq Places
    BY DEF Places, Working
  <2> QED
    BY <1>23, <2>1, HeartbeatType DEF HeartbeatBeforeCheckpoint, Goto
<1>24. CASE Checkpoint
  <2> DEFINE capsule == [target |-> snapshot.generation + 1,
                         version |-> stored.version + 1]
  <2>1. capsule \in Capsule
    BY DEF Capsule, Snapshot
  <2>2. held' \in Held /\ pc' \in Places
    BY <1>24, <2>1 DEF Checkpoint, Held, Places, Working
  <2> QED
    BY <1>24, <2>1, <2>2 DEF Checkpoint, Fault
<1>25. CASE HeartbeatAfterCheckpoint
  <2>1. "save" \in Places
    BY DEF Places, Working
  <2> QED
    BY <1>25, <2>1, HeartbeatType DEF HeartbeatAfterCheckpoint
<1>26. CASE SaveCheckpoint
  <2>1. snapshot' \in Snapshot
    BY <1>26 DEF SaveCheckpoint, Goto, Snapshot, Phases, Held
  <2>2. held' \in Held /\ pc' \in Places
    BY <1>26 DEF SaveCheckpoint, Goto, Held, Places, Working
  <2> QED
    BY <1>26, <2>1, <2>2 DEF SaveCheckpoint, Goto
<1>27. CASE BeginStop
  BY <1>27 DEF BeginStop, Snapshot, Phases
<1>28. CASE StopPredecessor
  BY <1>28 DEF StopPredecessor, Ends, Fault, Snapshot, Places, Working,
     Stopping
<1>29. CASE SaveStopped
  BY <1>29 DEF SaveStopped, Persist, Snapshot, Phases, Places, Working,
     Stopping
<1>30. CASE BeginFence
  BY <1>30 DEF BeginFence, Persist, Snapshot, Phases, Places, Working,
     Stopping
<1>31. CASE FencePredecessor
  <2>1. "fenced" \in Places
    BY DEF Places, Working
  <2> QED
    BY <1>31, <2>1, FailClosedType DEF FencePredecessor, Fence, Task
<1>32. CASE SaveFenced
  BY <1>32 DEF SaveFenced, Persist, Snapshot, Phases, Places, Working,
     Stopping
<1>33. CASE BeginClaim
  BY <1>33 DEF BeginClaim, Persist, Snapshot, Phases, Places, Working,
     Stopping
<1>34. CASE ClaimSuccessor
  BY <1>34 DEF ClaimSuccessor, Grant, Conflict, Goto, Snapshot, Held,
     Places, Working, Stopping, Task, Fresh, Due, Expired
<1>35. CASE SaveSuccessorClaim
  <2>1. /\ snapshot.generation + 1 \in Nat /\ held.claim \in Nat
        /\ "launching" \in Phases
    BY DEF Snapshot, Held, Phases
  <2>2. snapshot' \in Snapshot
    BY <1>35, <2>1 DEF SaveSuccessorClaim, Snapshot
  <2> QED
    BY <1>35, <2>2 DEF SaveSuccessorClaim, Places, Working
<1>36. CASE FinalizeCompleted
  BY <1>36 DEF FinalizeCompleted, Refresh, Snapshot, Phases, Held, Places,
     Working, Stopping
<1>37. CASE ShutdownBegin
  BY <1>37 DEF ShutdownBegin, Refresh, RuntimeWasAdopted, LastProcess,
     Blocked, LastClaim, Snapshot, Phases, Held, Places, Working, Stopping
<1>38. CASE ShutdownRuntime
  <2>1. snapshot' \in Snapshot
    BY <1>38 DEF ShutdownRuntime, Snapshot
  <2>2. held' \in Held /\ pc' \in Places
    BY <1>38 DEF ShutdownRuntime, Held, Places, Stopping
  <2>3. CASE Ends(snapshot.process, {})
    BY <1>38, <2>1, <2>2, <2>3 DEF ShutdownRuntime, Ends, Fault
  <2>4. CASE ~Ends(snapshot.process, {})
    BY <1>38, <2>1, <2>2, <2>4 DEF ShutdownRuntime, Fault
  <2> QED
    BY <2>3, <2>4
<1>39. CASE ShutdownFence
  BY <1>39 DEF ShutdownFence, LastClaim, Goto, Fence, FenceStale, Fault,
     Stale, Current, Snapshot, Held, Places, Working, Stopping, Task, Fresh,
     Due, Expired
<1>40. CASE SaveShutdown
  BY <1>40 DEF SaveShutdown, Blocked, LastClaim, Snapshot, Phases, Held,
     Places, Working, Stopping
<1>41. CASE LoopEnds
  BY <1>41 DEF LoopEnds, Goto, Places, Working, Stopping
<1>42. CASE Unwind
  BY <1>42 DEF Unwind, Fault, Held, Places, Working, Stopping
<1>43. CASE Crash
  BY <1>43 DEF Crash, Fault, Held, Places, Working, Stopping
<1>44. CASE HookLingers
  BY <1>44 DEF HookLingers, Fault, Snapshot
<1>45. CASE AckDeadline
  BY <1>45 DEF AckDeadline, Snapshot, Phases
<1>46. CASE Elapse
  BY <1>46 DEF Elapse, Snapshot, Task, Fresh, Due, Expired
<1>47. CASE RivalClaim
  <2>1. task.epoch + 1 \in Nat
    BY DEF Task
  <2>2. task' \in Task
    BY <1>47, <2>1 DEF RivalClaim, Task
  <2> QED
    BY <1>47, <2>2 DEF RivalClaim
<1>48. CASE RivalRelease
  BY <1>48 DEF RivalRelease, Task, Fresh, Due, Expired
<1>49. ASSUME NEW r \in live, Register(r) PROVE TypeOK'
  BY <1>49 DEF Register
<1>50. ASSUME NEW r \in live, GuardianKill(r) PROVE TypeOK'
  BY <1>50 DEF GuardianKill, StopRequested, Ends, Snapshot
<1>51. ASSUME NEW r \in live, RuntimeExit(r) PROVE TypeOK'
  BY <1>51 DEF RuntimeExit, Ends, StopRequested, Snapshot
<1>52. ASSUME NEW r \in live, HookStart(r) PROVE TypeOK'
  BY <1>52 DEF HookStart, Durable, HookReturns, Names, HookAborts, Snapshot
<1>53. ASSUME NEW r \in live, HookAwait(r) PROVE TypeOK'
  BY <1>53 DEF HookAwait, Durable, HookReturns, HookAborts, Names, Snapshot
<1> QED
  BY <1>1, <1>2, <1>3, <1>4, <1>5, <1>6, <1>7, <1>8, <1>9, <1>10, <1>11,
     <1>12, <1>13, <1>14, <1>15, <1>16, <1>17, <1>18, <1>19, <1>20, <1>21,
     <1>22, <1>23, <1>24, <1>25, <1>26, <1>27, <1>28, <1>29, <1>30, <1>31,
     <1>32, <1>33, <1>34, <1>35, <1>36, <1>37, <1>38, <1>39, <1>40, <1>41,
     <1>42, <1>43, <1>44, <1>45, <1>46, <1>47, <1>48, <1>49, <1>50, <1>51,
     <1>52, <1>53 DEF Next, Supervise, Rotate, Environment, Guard

\* Type correctness: in every reachable state the snapshot, the coordinator's
\* record and the sets of runtimes have their types, and only live runtimes are
\* registered, have a hook waiting, are aborting or are a session.
THEOREM TypeCorrect == Spec => []TypeOK
<1>1. Init => TypeOK
  BY TypeInit
<1>2. TypeOK /\ [Next]_vars => TypeOK'
  BY TypeStep
<1> QED
  BY <1>1, <1>2, PTL DEF Spec

-----------------------------------------------------------------------------
(* The seat *)

\* Nobody sits in the seat at first.
LEMMA SeatInit == Init => SeatInv
BY DEF Init, SeatInv, NoOverlap, OfThisGeneration, Vacated, Recorded,
       EffectNotSaved, PlaceFitsPhase, PhaseAt, Phases

\* Every step keeps the seat to one runtime, the one its phase allows.
LEMMA SeatStep == Inv /\ [Next]_vars => SeatInv'
<1> SUFFICES ASSUME Inv, TypeOK', Next PROVE SeatInv'
  <2>1. Inv /\ UNCHANGED vars => SeatInv'
    BY DEF Inv, SeatInv, NoOverlap, OfThisGeneration, Vacated, Recorded,
           EffectNotSaved, PlaceFitsPhase, PhaseAt, vars, world, runtimeVars
  <2> QED
    BY <2>1, TypeStep DEF Inv
<1> USE DEF Inv, SeatInv, TypeOK, Snapshot, Supervised, Observing, NoOverlap,
            OfThisGeneration, Vacated, Recorded, EffectNotSaved,
            PlaceFitsPhase, world, runtimeVars, hookVars, storeVars
<1>1. CASE Boot
  BY <1>1 DEF Boot, Refresh, PhaseAt, Phases
<1>2. CASE StartTerminal
  BY <1>2 DEF StartTerminal, Goto, PhaseAt, Phases
<1>3. CASE ClaimRoot
  BY <1>3 DEF ClaimRoot, Grant, Conflict, Goto, PhaseAt, Phases
<1>4. CASE SaveRootClaim
  BY <1>4 DEF SaveRootClaim, PhaseAt, Phases
<1>5. CASE Resume
  BY <1>5 DEF Resume, EnsureLive, Goto, Fault, Blocked, Persist, PhaseAt,
     Phases
<1>6. CASE Launch
  BY <1>6 DEF Launch, AtLaunch, Mine, NextRuntime, PhaseAt, Phases
<1>7. CASE LaunchFails
  BY <1>7 DEF LaunchFails, AtLaunch, Mine, Fault, NextRuntime, PhaseAt,
     Phases
<1>8. CASE SaveLaunch
  <2>1. live' = live /\ snapshot'.generation = snapshot.generation
    BY <1>8 DEF SaveLaunch
  <2>2. /\ snapshot'.phase \in {"running", "awaiting_ack"}
        /\ snapshot'.process = held.process /\ pc = "launched"
    BY <1>8 DEF SaveLaunch
  <2>3. NoOverlap' /\ OfThisGeneration' /\ Vacated' /\ Recorded'
    BY <2>1, <2>2
  <2>4. EffectNotSaved' /\ PlaceFitsPhase'
    BY <1>8 DEF SaveLaunch, PhaseAt, Phases
  <2> QED
    BY <2>3, <2>4
<1>9. CASE HeartbeatAfterLaunch
  <2>1. live' = live /\ snapshot'.generation = snapshot.generation
    BY <1>9 DEF HeartbeatAfterLaunch, HeartbeatIfDue, Heartbeat, Goto, Beat,
       Stale, FailClosed, Current, Blocked
  <2>2. snapshot' = snapshot \/ snapshot'.phase = "blocked"
    BY <1>9 DEF HeartbeatAfterLaunch, HeartbeatIfDue, Heartbeat, Goto, Beat,
       Stale, FailClosed, Current, Blocked
  <2>3. NoOverlap' /\ OfThisGeneration' /\ Vacated' /\ Recorded'
    BY <2>1, <2>2
  <2>4. EffectNotSaved' /\ PlaceFitsPhase'
    BY <1>9 DEF HeartbeatAfterLaunch, HeartbeatIfDue, Heartbeat, Goto, Beat,
       Stale, FailClosed, Current, Blocked, PhaseAt, Phases
  <2> QED
    BY <2>3, <2>4
<1>10. CASE TickBegin
  BY <1>10 DEF TickBegin, Refresh, PhaseAt, Phases
<1>11. CASE TickEnsureLive
  BY <1>11 DEF TickEnsureLive, EnsureLive, Goto, Fault, Blocked, Persist,
     PhaseAt, Phases
<1>12. CASE TickHeartbeat
  <2>1. live' = live /\ snapshot'.generation = snapshot.generation
    BY <1>12 DEF TickHeartbeat, HeartbeatIfDue, Heartbeat, Goto, Beat,
       Stale, FailClosed, Current, Blocked
  <2>2. snapshot' = snapshot \/ snapshot'.phase = "blocked"
    BY <1>12 DEF TickHeartbeat, HeartbeatIfDue, Heartbeat, Goto, Beat,
       Stale, FailClosed, Current, Blocked
  <2>3. NoOverlap' /\ OfThisGeneration' /\ Vacated' /\ Recorded'
    BY <2>1, <2>2
  <2>4. EffectNotSaved' /\ PlaceFitsPhase'
    BY <1>12 DEF TickHeartbeat, HeartbeatIfDue, Heartbeat, Goto, Beat,
       Stale, FailClosed, Current, Blocked, PhaseAt, Phases
  <2> QED
    BY <2>3, <2>4
<1>13. CASE FenceExited
  BY <1>13 DEF FenceExited, Fence, FenceStale, Goto, Fault, Blocked, Stale,
     Current, PhaseAt, Phases
<1>14. CASE SaveCompleted
  BY <1>14 DEF SaveCompleted, Persist, PhaseAt, Phases
<1>15. CASE Observe
  BY <1>15 DEF Observe, Observed, Persist, PhaseAt, Phases
<1>16. CASE ResumeRotation
  BY <1>16 DEF ResumeRotation, Goto, PhaseAt, Phases
<1>17. CASE AwaitAck
  BY <1>17 DEF AwaitAck, Goto, Heartbeat, Beat, Stale, FailClosed, Current,
     Blocked, PhaseAt, Phases
<1>18. CASE AcknowledgeStores
  BY <1>18 DEF AcknowledgeStores, Fault, PhaseAt, Phases
<1>19. CASE SaveAcknowledged
  BY <1>19 DEF SaveAcknowledged, PhaseAt, Phases
<1>20. CASE ClearAck
  BY <1>20 DEF ClearAck, PhaseAt, Phases
<1>21. CASE StopFailedSuccessor
  BY <1>21 DEF StopFailedSuccessor, Ends, Fault, Blocked, PhaseAt, Phases
<1>22. CASE SaveRetry
  <2>1. live' = live /\ snapshot'.generation = snapshot.generation
    BY <1>22 DEF SaveRetry, Persist
  <2>2. snapshot'.phase \in {"blocked", "launching"}
    BY <1>22 DEF SaveRetry, Persist
  <2>3. NoOverlap' /\ OfThisGeneration' /\ Vacated' /\ Recorded'
    BY <2>1, <2>2
  <2>4. EffectNotSaved' /\ PlaceFitsPhase'
    BY <1>22 DEF SaveRetry, Persist, PhaseAt, Phases
  <2> QED
    BY <2>3, <2>4
<1>23. CASE HeartbeatBeforeCheckpoint
  BY <1>23 DEF HeartbeatBeforeCheckpoint, Goto, Heartbeat, Beat, Stale,
     FailClosed, Current, Blocked, PhaseAt, Phases
<1>24. CASE Checkpoint
  BY <1>24 DEF Checkpoint, Fault, PhaseAt, Phases
<1>25. CASE HeartbeatAfterCheckpoint
  BY <1>25 DEF HeartbeatAfterCheckpoint, Heartbeat, Beat, Stale, FailClosed,
     Current, Blocked, PhaseAt, Phases
<1>26. CASE SaveCheckpoint
  <2>1. live' = live /\ snapshot'.generation = snapshot.generation
    BY <1>26 DEF SaveCheckpoint, Goto
  <2>2. \/ snapshot' = snapshot
        \/ /\ snapshot.phase = "checkpointing" /\ snapshot'.phase = "checkpointed"
           /\ snapshot'.process = snapshot.process
    BY <1>26 DEF SaveCheckpoint, Goto
  <2>3. NoOverlap' /\ OfThisGeneration' /\ Vacated' /\ Recorded'
    BY <2>1, <2>2
  <2>4. EffectNotSaved' /\ PlaceFitsPhase'
    BY <1>26 DEF SaveCheckpoint, Goto, PhaseAt, Phases
  <2> QED
    BY <2>3, <2>4
<1>27. CASE BeginStop
  BY <1>27 DEF BeginStop, PhaseAt, Phases
<1>28. CASE StopPredecessor
  BY <1>28 DEF StopPredecessor, Ends, Fault, PhaseAt, Phases
<1>29. CASE SaveStopped
  BY <1>29 DEF SaveStopped, Persist, PhaseAt, Phases
<1>30. CASE BeginFence
  BY <1>30 DEF BeginFence, Persist, PhaseAt, Phases
<1>31. CASE FencePredecessor
  BY <1>31 DEF FencePredecessor, Fence, FenceStale, FailClosed, Stale,
     Blocked, Current, PhaseAt, Phases
<1>32. CASE SaveFenced
  BY <1>32 DEF SaveFenced, Persist, PhaseAt, Phases
<1>33. CASE BeginClaim
  BY <1>33 DEF BeginClaim, Persist, PhaseAt, Phases
<1>34. CASE ClaimSuccessor
  BY <1>34 DEF ClaimSuccessor, Grant, Conflict, Goto, PhaseAt, Phases
<1>35. CASE SaveSuccessorClaim
  BY <1>35 DEF SaveSuccessorClaim, PhaseAt, Phases
<1>36. CASE FinalizeCompleted
  BY <1>36 DEF FinalizeCompleted, Refresh, PhaseAt, Phases
<1>37. CASE ShutdownBegin
  BY <1>37 DEF ShutdownBegin, Refresh, RuntimeWasAdopted, LastProcess,
     Blocked, LastClaim, PhaseAt, Phases
<1>38. CASE ShutdownRuntime
  BY <1>38 DEF ShutdownRuntime, Ends, Fault, PhaseAt, Phases
<1>39. CASE ShutdownFence
  BY <1>39 DEF ShutdownFence, LastClaim, Goto, Fence, FenceStale, Fault,
     Stale, Current, PhaseAt, Phases
<1>40. CASE SaveShutdown
  BY <1>40 DEF SaveShutdown, Blocked, LastClaim, PhaseAt, Phases
<1>41. CASE LoopEnds
  BY <1>41 DEF LoopEnds, Goto, PhaseAt, Phases
<1>42. CASE Unwind
  BY <1>42 DEF Unwind, Fault, PhaseAt, Phases
<1>43. CASE Crash
  BY <1>43 DEF Crash, Fault, PhaseAt, Phases
<1>44. CASE HookLingers
  BY <1>44 DEF HookLingers, Fault, PhaseAt, Phases
<1>45. CASE AckDeadline
  BY <1>45 DEF AckDeadline, PhaseAt, Phases
<1>46. CASE Elapse
  BY <1>46 DEF Elapse, PhaseAt, Phases
<1>47. CASE RivalClaim
  BY <1>47 DEF RivalClaim, PhaseAt, Phases
<1>48. CASE RivalRelease
  BY <1>48 DEF RivalRelease, PhaseAt, Phases
<1>49. ASSUME NEW r \in live, Register(r) PROVE SeatInv'
  BY <1>49 DEF Register, PhaseAt, Phases
<1>50. ASSUME NEW r \in live, GuardianKill(r) PROVE SeatInv'
  BY <1>50 DEF GuardianKill, StopRequested, Ends, PhaseAt, Phases
<1>51. ASSUME NEW r \in live, RuntimeExit(r) PROVE SeatInv'
  BY <1>51 DEF RuntimeExit, Ends, StopRequested, PhaseAt, Phases
<1>52. ASSUME NEW r \in live, HookStart(r) PROVE SeatInv'
  BY <1>52 DEF HookStart, Durable, HookReturns, Names, HookAborts, PhaseAt,
     Phases
<1>53. ASSUME NEW r \in live, HookAwait(r) PROVE SeatInv'
  BY <1>53 DEF HookAwait, Durable, HookReturns, HookAborts, Names, PhaseAt,
     Phases
<1> QED
  BY <1>1, <1>2, <1>3, <1>4, <1>5, <1>6, <1>7, <1>8, <1>9, <1>10, <1>11,
     <1>12, <1>13, <1>14, <1>15, <1>16, <1>17, <1>18, <1>19, <1>20, <1>21,
     <1>22, <1>23, <1>24, <1>25, <1>26, <1>27, <1>28, <1>29, <1>30, <1>31,
     <1>32, <1>33, <1>34, <1>35, <1>36, <1>37, <1>38, <1>39, <1>40, <1>41,
     <1>42, <1>43, <1>44, <1>45, <1>46, <1>47, <1>48, <1>49, <1>50, <1>51,
     <1>52, <1>53 DEF Next, Supervise, Rotate, Environment, Guard

\* The invariant the safety theorems follow from.
THEOREM Invariance == Spec => []Inv
<1>1. Init => Inv
  BY TypeInit, SeatInit DEF Inv
<1>2. Inv /\ [Next]_vars => Inv'
  BY TypeStep, SeatStep DEF Inv
<1> QED
  BY <1>1, <1>2, PTL DEF Spec

\* At most one runtime of the chain is alive, for every retry limit and any
\* number of generations, crashes and failed effects.
THEOREM SingleRuntime == Spec => []NoOverlap
<1>1. Inv => NoOverlap
  BY DEF Inv, SeatInv
<1> QED
  BY <1>1, Invariance, PTL

\* From the durable STOPPED to the launch of the successor nothing runs.
THEOREM PredecessorIsGone == Spec => []PredecessorGone
<1>1. Inv => PredecessorGone
  BY DEF Inv, SeatInv, Vacated, PredecessorGone
<1> QED
  BY <1>1, Invariance, PTL
-----------------------------------------------------------------------------
(* Action properties *)

\* No step starts a halted chain again.
LEMMA HaltStep ==
  Inv /\ [Next]_vars =>
    (snapshot.phase \in {"blocked", "completed"} =>
       /\ snapshot'.phase = snapshot.phase
       /\ serial' = serial
       /\ task'.owner = "chain" => task.owner = "chain")
<1> DEFINE Halted == /\ snapshot'.phase = snapshot.phase
                     /\ serial' = serial
                     /\ task'.owner = "chain" => task.owner = "chain"
<1> SUFFICES ASSUME Inv, Next, snapshot.phase \in {"blocked", "completed"}
             PROVE  Halted
  BY DEF vars, world, runtimeVars
<1> USE DEF Inv, SeatInv, TypeOK, Snapshot, Task, Supervised, Observing,
            PlaceFitsPhase, PhaseAt, world, runtimeVars, hookVars, storeVars
<1>1. CASE Boot
  BY <1>1 DEF Boot, Refresh
<1>2. CASE StartTerminal
  BY <1>2 DEF StartTerminal, Goto
<1>3. CASE ClaimRoot
  BY <1>3 DEF ClaimRoot, Grant, Conflict, Goto
<1>4. CASE SaveRootClaim
  BY <1>4 DEF SaveRootClaim
<1>5. CASE Resume
  BY <1>5 DEF Resume, EnsureLive, Goto, Fault, Blocked, Persist
<1>6. CASE Launch
  BY <1>6 DEF Launch, AtLaunch, Mine, NextRuntime
<1>7. CASE LaunchFails
  BY <1>7 DEF LaunchFails, AtLaunch, Mine, Fault, NextRuntime
<1>8. CASE SaveLaunch
  BY <1>8 DEF SaveLaunch
<1>9. CASE HeartbeatAfterLaunch
  BY <1>9 DEF HeartbeatAfterLaunch, HeartbeatIfDue, Heartbeat, Goto, Beat,
     Stale, FailClosed, Current, Blocked, Beating
<1>10. CASE TickBegin
  BY <1>10 DEF TickBegin, Refresh
<1>11. CASE TickEnsureLive
  BY <1>11 DEF TickEnsureLive, EnsureLive, Goto, Fault, Blocked, Persist
<1>12. CASE TickHeartbeat
  BY <1>12 DEF TickHeartbeat, HeartbeatIfDue, Heartbeat, Goto, Beat, Stale,
     FailClosed, Current, Blocked, Beating
<1>13. CASE FenceExited
  BY <1>13 DEF FenceExited, Fence, FenceStale, Goto, Fault, Blocked, Stale,
     Current
<1>14. CASE SaveCompleted
  BY <1>14 DEF SaveCompleted, Persist
<1>15. CASE Observe
  BY <1>15 DEF Observe, Observed, Persist
<1>16. CASE ResumeRotation
  BY <1>16 DEF ResumeRotation, Goto
<1>17. CASE AwaitAck
  BY <1>17 DEF AwaitAck, Goto, Heartbeat, Beat, Stale, FailClosed, Current,
     Blocked
<1>18. CASE AcknowledgeStores
  BY <1>18 DEF AcknowledgeStores, Fault
<1>19. CASE SaveAcknowledged
  BY <1>19 DEF SaveAcknowledged
<1>20. CASE ClearAck
  BY <1>20 DEF ClearAck
<1>21. CASE StopFailedSuccessor
  BY <1>21 DEF StopFailedSuccessor, Ends, Fault, Blocked
<1>22. CASE SaveRetry
  BY <1>22 DEF SaveRetry, Persist
<1>23. CASE HeartbeatBeforeCheckpoint
  BY <1>23 DEF HeartbeatBeforeCheckpoint, Goto, Heartbeat, Beat, Stale,
     FailClosed, Current, Blocked
<1>24. CASE Checkpoint
  BY <1>24 DEF Checkpoint, Fault
<1>25. CASE HeartbeatAfterCheckpoint
  BY <1>25 DEF HeartbeatAfterCheckpoint, Heartbeat, Beat, Stale, FailClosed,
     Current, Blocked
<1>26. CASE SaveCheckpoint
  BY <1>26 DEF SaveCheckpoint, Goto
<1>27. CASE BeginStop
  BY <1>27 DEF BeginStop
<1>28. CASE StopPredecessor
  BY <1>28 DEF StopPredecessor, Ends, Fault
<1>29. CASE SaveStopped
  BY <1>29 DEF SaveStopped, Persist
<1>30. CASE BeginFence
  BY <1>30 DEF BeginFence, Persist
<1>31. CASE FencePredecessor
  BY <1>31 DEF FencePredecessor, Fence, FenceStale, FailClosed, Stale,
     Blocked, Current
<1>32. CASE SaveFenced
  BY <1>32 DEF SaveFenced, Persist
<1>33. CASE BeginClaim
  BY <1>33 DEF BeginClaim, Persist
<1>34. CASE ClaimSuccessor
  BY <1>34 DEF ClaimSuccessor, Grant, Conflict, Goto
<1>35. CASE SaveSuccessorClaim
  BY <1>35 DEF SaveSuccessorClaim
<1>36. CASE FinalizeCompleted
  BY <1>36 DEF FinalizeCompleted, Refresh
<1>37. CASE ShutdownBegin
  BY <1>37 DEF ShutdownBegin, Refresh, RuntimeWasAdopted, LastProcess,
     Blocked, LastClaim
<1>38. CASE ShutdownRuntime
  BY <1>38 DEF ShutdownRuntime, Ends, Fault
<1>39. CASE ShutdownFence
  BY <1>39 DEF ShutdownFence, LastClaim, Goto, Fence, FenceStale, Fault,
     Stale, Current
<1>40. CASE SaveShutdown
  BY <1>40 DEF SaveShutdown, Blocked, LastClaim
<1>41. CASE LoopEnds
  BY <1>41 DEF LoopEnds, Goto
<1>42. CASE Unwind
  BY <1>42 DEF Unwind, Fault
<1>43. CASE Crash
  BY <1>43 DEF Crash, Fault
<1>44. CASE HookLingers
  BY <1>44 DEF HookLingers, Fault
<1>45. CASE AckDeadline
  BY <1>45 DEF AckDeadline
<1>46. CASE Elapse
  BY <1>46 DEF Elapse
<1>47. CASE RivalClaim
  BY <1>47 DEF RivalClaim
<1>48. CASE RivalRelease
  BY <1>48 DEF RivalRelease
<1>49. ASSUME NEW r \in live, Register(r) PROVE Halted
  BY <1>49 DEF Register
<1>50. ASSUME NEW r \in live, GuardianKill(r) PROVE Halted
  BY <1>50 DEF GuardianKill, StopRequested, Ends
<1>51. ASSUME NEW r \in live, RuntimeExit(r) PROVE Halted
  BY <1>51 DEF RuntimeExit, Ends, StopRequested
<1>52. ASSUME NEW r \in live, HookStart(r) PROVE Halted
  BY <1>52 DEF HookStart, Durable, HookReturns, Names, HookAborts
<1>53. ASSUME NEW r \in live, HookAwait(r) PROVE Halted
  BY <1>53 DEF HookAwait, Durable, HookReturns, HookAborts, Names
<1> QED
  BY <1>1, <1>2, <1>3, <1>4, <1>5, <1>6, <1>7, <1>8, <1>9, <1>10, <1>11,
     <1>12, <1>13, <1>14, <1>15, <1>16, <1>17, <1>18, <1>19, <1>20, <1>21,
     <1>22, <1>23, <1>24, <1>25, <1>26, <1>27, <1>28, <1>29, <1>30, <1>31,
     <1>32, <1>33, <1>34, <1>35, <1>36, <1>37, <1>38, <1>39, <1>40, <1>41,
     <1>42, <1>43, <1>44, <1>45, <1>46, <1>47, <1>48, <1>49, <1>50, <1>51,
     <1>52, <1>53 DEF Next, Supervise, Rotate, Environment, Guard

\* A blocked or completed run launches nothing and takes no claim, whatever
\* restarts, recoveries and stale processes come after.
THEOREM HaltIsForGood == Spec => HaltIsFinal
<1>1. Inv /\ [Next]_vars =>
        [snapshot.phase \in {"blocked", "completed"} =>
           /\ snapshot'.phase = snapshot.phase
           /\ serial' = serial
           /\ task'.owner = "chain" => task.owner = "chain"]_vars
  BY HaltStep
<1> QED
  BY <1>1, Invariance, PTL DEF Spec, HaltIsFinal

\* Only a fence gives up the claim, and outside a shutdown it comes after the
\* runtime is gone.
LEMMA ReleaseStep ==
  Inv /\ [Next]_vars =>
    ((/\ task.owner = "chain" /\ task'.owner = "free"
      /\ pc \notin Stopping) => live = {})
<1> DEFINE Gone == (/\ task.owner = "chain" /\ task'.owner = "free"
                    /\ pc \notin Stopping) => live = {}
<1> SUFFICES ASSUME Inv, Next PROVE Gone
  BY DEF vars, world
<1> USE DEF Inv, SeatInv, TypeOK, Snapshot, Task, Vacated, Recorded,
            EffectNotSaved, Supervised, Observing, Stopping, PlaceFitsPhase,
            PhaseAt, world, runtimeVars, hookVars, storeVars
<1>1. CASE Boot
  BY <1>1 DEF Boot, Refresh
<1>2. CASE StartTerminal
  BY <1>2 DEF StartTerminal, Goto
<1>3. CASE ClaimRoot
  BY <1>3 DEF ClaimRoot, Grant, Conflict, Goto
<1>4. CASE SaveRootClaim
  BY <1>4 DEF SaveRootClaim
<1>5. CASE Resume
  BY <1>5 DEF Resume, EnsureLive, Goto, Fault, Blocked, Persist
<1>6. CASE Launch
  BY <1>6 DEF Launch, AtLaunch, Mine, NextRuntime
<1>7. CASE LaunchFails
  BY <1>7 DEF LaunchFails, AtLaunch, Mine, Fault, NextRuntime
<1>8. CASE SaveLaunch
  BY <1>8 DEF SaveLaunch
<1>9. CASE HeartbeatAfterLaunch
  BY <1>9 DEF HeartbeatAfterLaunch, HeartbeatIfDue, Heartbeat, Goto, Beat,
     Stale, FailClosed, Current, Blocked
<1>10. CASE TickBegin
  BY <1>10 DEF TickBegin, Refresh
<1>11. CASE TickEnsureLive
  BY <1>11 DEF TickEnsureLive, EnsureLive, Goto, Fault, Blocked, Persist
<1>12. CASE TickHeartbeat
  BY <1>12 DEF TickHeartbeat, HeartbeatIfDue, Heartbeat, Goto, Beat, Stale,
     FailClosed, Current, Blocked
<1>13. CASE FenceExited
  BY <1>13 DEF FenceExited, Fence, FenceStale, Goto, Fault, Blocked, Stale,
     Current
<1>14. CASE SaveCompleted
  BY <1>14 DEF SaveCompleted, Persist
<1>15. CASE Observe
  BY <1>15 DEF Observe, Observed, Persist
<1>16. CASE ResumeRotation
  BY <1>16 DEF ResumeRotation, Goto
<1>17. CASE AwaitAck
  BY <1>17 DEF AwaitAck, Goto, Heartbeat, Beat, Stale, FailClosed, Current,
     Blocked
<1>18. CASE AcknowledgeStores
  BY <1>18 DEF AcknowledgeStores, Fault
<1>19. CASE SaveAcknowledged
  BY <1>19 DEF SaveAcknowledged
<1>20. CASE ClearAck
  BY <1>20 DEF ClearAck
<1>21. CASE StopFailedSuccessor
  BY <1>21 DEF StopFailedSuccessor, Ends, Fault, Blocked
<1>22. CASE SaveRetry
  BY <1>22 DEF SaveRetry, Persist
<1>23. CASE HeartbeatBeforeCheckpoint
  BY <1>23 DEF HeartbeatBeforeCheckpoint, Goto, Heartbeat, Beat, Stale,
     FailClosed, Current, Blocked
<1>24. CASE Checkpoint
  BY <1>24 DEF Checkpoint, Fault
<1>25. CASE HeartbeatAfterCheckpoint
  BY <1>25 DEF HeartbeatAfterCheckpoint, Heartbeat, Beat, Stale, FailClosed,
     Current, Blocked
<1>26. CASE SaveCheckpoint
  BY <1>26 DEF SaveCheckpoint, Goto
<1>27. CASE BeginStop
  BY <1>27 DEF BeginStop
<1>28. CASE StopPredecessor
  BY <1>28 DEF StopPredecessor, Ends, Fault
<1>29. CASE SaveStopped
  BY <1>29 DEF SaveStopped, Persist
<1>30. CASE BeginFence
  BY <1>30 DEF BeginFence, Persist
<1>31. CASE FencePredecessor
  BY <1>31 DEF FencePredecessor, Fence, FenceStale, FailClosed, Stale,
     Blocked, Current
<1>32. CASE SaveFenced
  BY <1>32 DEF SaveFenced, Persist
<1>33. CASE BeginClaim
  BY <1>33 DEF BeginClaim, Persist
<1>34. CASE ClaimSuccessor
  BY <1>34 DEF ClaimSuccessor, Grant, Conflict, Goto
<1>35. CASE SaveSuccessorClaim
  BY <1>35 DEF SaveSuccessorClaim
<1>36. CASE FinalizeCompleted
  BY <1>36 DEF FinalizeCompleted, Refresh
<1>37. CASE ShutdownBegin
  BY <1>37 DEF ShutdownBegin, Refresh, RuntimeWasAdopted, LastProcess,
     Blocked, LastClaim
<1>38. CASE ShutdownRuntime
  BY <1>38 DEF ShutdownRuntime, Ends, Fault
<1>39. CASE ShutdownFence
  BY <1>39 DEF ShutdownFence, LastClaim, Goto, Fence, FenceStale, Fault,
     Stale, Current
<1>40. CASE SaveShutdown
  BY <1>40 DEF SaveShutdown, Blocked, LastClaim
<1>41. CASE LoopEnds
  BY <1>41 DEF LoopEnds, Goto
<1>42. CASE Unwind
  BY <1>42 DEF Unwind, Fault
<1>43. CASE Crash
  BY <1>43 DEF Crash, Fault
<1>44. CASE HookLingers
  BY <1>44 DEF HookLingers, Fault
<1>45. CASE AckDeadline
  BY <1>45 DEF AckDeadline
<1>46. CASE Elapse
  BY <1>46 DEF Elapse
<1>47. CASE RivalClaim
  BY <1>47 DEF RivalClaim
<1>48. CASE RivalRelease
  BY <1>48 DEF RivalRelease
<1>49. ASSUME NEW r \in live, Register(r) PROVE Gone
  BY <1>49 DEF Register
<1>50. ASSUME NEW r \in live, GuardianKill(r) PROVE Gone
  BY <1>50 DEF GuardianKill, StopRequested, Ends
<1>51. ASSUME NEW r \in live, RuntimeExit(r) PROVE Gone
  BY <1>51 DEF RuntimeExit, Ends, StopRequested
<1>52. ASSUME NEW r \in live, HookStart(r) PROVE Gone
  BY <1>52 DEF HookStart, Durable, HookReturns, Names, HookAborts
<1>53. ASSUME NEW r \in live, HookAwait(r) PROVE Gone
  BY <1>53 DEF HookAwait, Durable, HookReturns, HookAborts, Names
<1> QED
  BY <1>1, <1>2, <1>3, <1>4, <1>5, <1>6, <1>7, <1>8, <1>9, <1>10, <1>11,
     <1>12, <1>13, <1>14, <1>15, <1>16, <1>17, <1>18, <1>19, <1>20, <1>21,
     <1>22, <1>23, <1>24, <1>25, <1>26, <1>27, <1>28, <1>29, <1>30, <1>31,
     <1>32, <1>33, <1>34, <1>35, <1>36, <1>37, <1>38, <1>39, <1>40, <1>41,
     <1>42, <1>43, <1>44, <1>45, <1>46, <1>47, <1>48, <1>49, <1>50, <1>51,
     <1>52, <1>53 DEF Next, Supervise, Rotate, Environment, Guard

\* Outside a shutdown the chain gives up its claim only with no runtime left.
THEOREM ReleasedWhenGone == Spec => ReleasedOnlyWhenGone
<1>1. Inv /\ [Next]_vars =>
        [(/\ task.owner = "chain" /\ task'.owner = "free"
          /\ pc \notin Stopping) => live = {}]_vars
  BY ReleaseStep
<1> QED
  BY <1>1, Invariance, PTL DEF Spec, ReleasedOnlyWhenGone

-----------------------------------------------------------------------------
(* What is known of a chain beside who sits in its seat *)

\* Launches of the generations before g, one for the root and one for every
\* attempt of a successor.
Earlier(g) == IF g = 0 THEN 0 ELSE 1 + (g - 1) * (RetryLimit + 1)

\* The attempt that the snapshot counts has been launched, or its failure is
\* on the way to the next one.
Launched ==
  \/ snapshot.phase \notin {"initial", "launching"}
  \/ pc \in {"launched", "retry", "retried"} \cup Stopping

\* Launches so far: all of the earlier generations', those of this generation's
\* attempts, and one for every fault.
BudgetFit ==
  /\ snapshot.attempt <= RetryLimit
  /\ snapshot.generation = 0 => snapshot.attempt = 0
  /\ snapshot.phase = "initial" => snapshot.generation = 0
  /\ snapshot.phase = "awaiting_ack" \/ pc \in {"retry", "retried"} =>
       snapshot.generation > 0
  /\ serial <= Earlier(snapshot.generation) + snapshot.attempt
                 + (IF Launched THEN 1 ELSE 0) + faults

\* While the chain holds the task, it holds the claim of the snapshot, or one
\* that is about to be persisted; it gives the task up before it says so.
ClaimFit ==
  /\ snapshot.phase \notin {"initial", "claiming", "blocked", "completed"} =>
       (task.owner = "chain" => task.epoch = snapshot.claim)
  /\ pc \in {"claimed0", "claimed"} => (task.owner = "chain" => task.epoch = held.claim)
  /\ pc = "fenced" => task.owner # "chain"
  /\ (pc = "save" /\ snapshot.phase # "checkpointing") \/ snapshot.phase = "completed" =>
       (task.owner = "chain" => task.age = Expired)

\* Which capsule the stores hold, and have acknowledged, at every stage of a
\* rotation.
CapsuleFit ==
  /\ pc \in Places \ ({"receipt", "save"} \cup Stopping) => held.receipt = NoCapsule
  /\ pc \in {"receipt", "save"} /\ held.receipt # NoCapsule =>
       /\ snapshot.phase = "checkpointing"
       /\ held.receipt = stored /\ stored.target = snapshot.generation + 1
  /\ snapshot.phase \in {"checkpointed", "stopping", "stopped", "fencing",
                        "fenced", "claiming"} =>
       snapshot.fingerprint = stored /\ stored.target = snapshot.generation + 1
  /\ snapshot.generation > 0 =>
       /\ snapshot.phase \in {"launching", "awaiting_ack"} =>
            snapshot.fingerprint = stored /\ stored.target = snapshot.generation
       /\ snapshot.phase \in Observing \cup {"checkpointing"} \/ pc = "accepted" =>
            accepted = snapshot.fingerprint /\ accepted.target = snapshot.generation

\* A user's session is the conversation of a chain that neither ends it nor is
\* about to adopt another.
SessionFit ==
  /\ \A r \in live : r # NoRuntime
  /\ pc \in {"accept", "accepted"} => snapshot.process # NoRuntime
  /\ pc \in Working \cup {"down"} => ~ held.aborting
  /\ sessions # {} =>
       /\ snapshot.phase \in Observing \cup {"checkpointing", "checkpointed", "blocked"}
       /\ snapshot.generation > 0 => snapshot.conversation # NoRuntime
       /\ ~ held.aborting
       /\ pc = "probe" => held.adopted

\* What a process holds that holds nothing.
LEMMA HoldsNothing ==
  /\ Nothing.process = NoRuntime /\ Nothing.claim = 0 /\ Nothing.receipt = NoCapsule
  /\ Nothing.aborting = FALSE /\ Nothing.adopted = FALSE
BY DEF Nothing

\* What failing closed changes.
LEMMA FailsClosed ==
  ASSUME TypeOK, FailClosed
  PROVE  /\ pc' = "shutdown" /\ snapshot'.phase = "blocked"
         /\ snapshot'.generation = snapshot.generation /\ snapshot'.attempt = snapshot.attempt
         /\ snapshot'.claim = snapshot.claim /\ snapshot'.conversation = snapshot.conversation
         /\ snapshot'.fingerprint = snapshot.fingerprint
         /\ UNCHANGED <<held, task, live, serial, dispatched, stored, accepted, sessions, faults>>
BY DEF FailClosed, Blocked, TypeOK, Snapshot, hookVars, storeVars

\* What the three places that decide where the chain goes next persist.
LEMMA SavesLaunch ==
  ASSUME TypeOK, SaveLaunch
  PROVE  /\ pc = "launched" /\ held' = Nothing
         /\ UNCHANGED <<task, live, serial, faults, dispatched, stored, accepted>>
         /\ snapshot'.generation = snapshot.generation /\ snapshot'.attempt = snapshot.attempt
         /\ snapshot'.claim = snapshot.claim /\ snapshot'.fingerprint = snapshot.fingerprint
         /\ \/ /\ snapshot.generation = 0
               /\ snapshot'.phase = "running" /\ pc' = "idle" /\ sessions \subseteq sessions'
            \/ /\ snapshot.generation > 0
               /\ snapshot'.phase = "awaiting_ack" /\ pc' = "postlaunch" /\ sessions' = sessions
<1>1. CASE snapshot.generation = 0
  BY <1>1 DEF SaveLaunch, TypeOK, Snapshot, runtimeVars, hookVars, storeVars
<1>2. CASE snapshot.generation # 0
  <2>1. snapshot.generation > 0 BY <1>2 DEF TypeOK, Snapshot
  <2>2. /\ pc = "launched" /\ held' = Nothing
        /\ UNCHANGED <<task, live, serial, faults, dispatched, stored, accepted, sessions>>
        /\ pc' = "postlaunch"
    BY <1>2 DEF SaveLaunch, runtimeVars, hookVars, storeVars
  <2>3. snapshot' = [snapshot EXCEPT !.phase = "awaiting_ack", !.overdue = FALSE,
                                     !.process = held.process]
    BY <1>2 DEF SaveLaunch
  <2>4. /\ snapshot'.phase = "awaiting_ack" /\ snapshot'.generation = snapshot.generation
        /\ snapshot'.attempt = snapshot.attempt /\ snapshot'.claim = snapshot.claim
        /\ snapshot'.fingerprint = snapshot.fingerprint
    BY <2>3, Zenon DEF TypeOK, Snapshot
  <2>5. QED BY <2>1, <2>2, <2>4
<1>3. QED BY <1>1, <1>2

\* What a retry, or the end of the retries, persists.
LEMMA SavesRetry ==
  ASSUME TypeOK, SaveRetry
  PROVE  /\ pc = "retried"
         /\ UNCHANGED <<held, task, live, serial, faults, dispatched, stored, accepted, sessions>>
         /\ snapshot'.generation = snapshot.generation
         /\ snapshot'.claim = snapshot.claim /\ snapshot'.fingerprint = snapshot.fingerprint
         /\ \/ /\ snapshot.attempt >= RetryLimit /\ snapshot'.attempt = snapshot.attempt
               /\ snapshot'.phase = "blocked" /\ pc' = "shutdown"
            \/ /\ snapshot.attempt < RetryLimit /\ snapshot'.attempt = snapshot.attempt + 1
               /\ snapshot'.phase = "launching" /\ pc' = "advance"
<1> USE ConstantsAssumption DEF SaveRetry, Persist, TypeOK, Snapshot, world, runtimeVars,
      hookVars, storeVars
<1>1. CASE snapshot.attempt >= RetryLimit BY <1>1
<1>2. CASE ~ snapshot.attempt >= RetryLimit
  <2>1. snapshot.attempt < RetryLimit BY <1>2
  <2>2. PICK n : n = snapshot.attempt + 1 OBVIOUS
  <2>3. QED BY <1>2, <2>1, <2>2
<1>3. QED BY <1>1, <1>2

\* What becomes of a receipt, or of a checkpoint that gave none.
LEMMA SavesCheckpoint ==
  ASSUME TypeOK, SaveCheckpoint
  PROVE  /\ pc = "save" /\ snapshot.phase = "checkpointing"
         /\ UNCHANGED <<task, live, serial, faults, dispatched, stored, accepted, sessions>>
         /\ snapshot'.generation = snapshot.generation /\ snapshot'.attempt = snapshot.attempt
         /\ snapshot'.claim = snapshot.claim /\ snapshot'.conversation = snapshot.conversation
         /\ \/ held.receipt = NoCapsule /\ UNCHANGED <<snapshot, held>> /\ pc' = "idle"
            \/ /\ held.receipt # NoCapsule /\ held' = Nothing /\ pc' = "advance"
               /\ snapshot'.phase = "checkpointed" /\ snapshot'.fingerprint = held.receipt
<1> USE DEF SaveCheckpoint, Goto, TypeOK, Snapshot, world, runtimeVars, hookVars, storeVars
<1>1. CASE held.receipt = NoCapsule BY <1>1
<1>2. CASE held.receipt # NoCapsule BY <1>2
<1>3. QED BY <1>1, <1>2

\* What a step may launch: a launch uses up the attempt that the snapshot counts,
\* and an attempt that is not used up is left only for a fault.
Spending ==
  /\ snapshot'.generation = snapshot.generation /\ snapshot'.attempt = snapshot.attempt
  /\ snapshot'.phase = "initial" => snapshot.phase = "initial"
  /\ snapshot'.phase = "awaiting_ack" \/ pc' \in {"retry", "retried"} => snapshot.generation > 0
  /\ \/ serial' = serial /\ faults' = faults /\ (Launched => Launched')
     \/ serial' = serial /\ faults' = faults + 1
     \/ serial' = serial + 1 /\ faults' \in {faults, faults + 1} /\ ~ Launched /\ Launched'

\* The budget of the earlier generations is a number.
LEMMA EarlierIsNatural == ASSUME NEW g \in Nat PROVE Earlier(g) \in Nat
<1>1. CASE g = 0 BY <1>1 DEF Earlier
<1>2. CASE g # 0
  <2>1. g - 1 \in Nat /\ RetryLimit + 1 \in Nat BY <1>2, ConstantsAssumption
  <2>2. (g - 1) * (RetryLimit + 1) \in Nat BY <2>1
  <2>3. QED BY <1>2, <2>2 DEF Earlier
<1>3. QED BY <1>1, <1>2

\* One factor more.
LEMMA Distributes ==
  ASSUME NEW n \in Nat, NEW m \in Nat PROVE (n + 1) * m = n * m + m /\ n * m \in Nat
<1>1. (n + 1) * m = n * m + m OBVIOUS
<1>2. n * m \in Nat OBVIOUS
<1>3. QED BY <1>1, <1>2

\* A successor adds a launch for every attempt to the budget.
LEMMA OneGenerationMore ==
  ASSUME NEW g \in Nat
  PROVE  Earlier(g + 1) = IF g = 0 THEN 1 ELSE Earlier(g) + RetryLimit + 1
<1>1. CASE g = 0 BY <1>1, ConstantsAssumption DEF Earlier
<1>2. CASE g # 0
  <2>1. PICK n \in Nat : g = n + 1
    <3>1. g - 1 \in Nat /\ g = (g - 1) + 1 BY <1>2
    <3>2. QED BY <3>1
  <2>2. PICK m \in Nat : m = RetryLimit + 1 BY ConstantsAssumption
  <2>3. (n + 1) * m = n * m + m /\ n * m \in Nat BY Distributes
  <2>4. Earlier(g) = 1 + n * m /\ Earlier(g + 1) = 1 + (n + 1) * m
    BY <1>2, <2>1, <2>2 DEF Earlier
  <2>5. QED BY <1>2, <2>2, <2>3, <2>4, ConstantsAssumption
<1>3. QED BY <1>1, <1>2

\* A step that spends no more than it may keeps to the budget.
LEMMA SpendingFits == ASSUME Inv, BudgetFit, Spending PROVE BudgetFit'
<1>1. /\ snapshot.generation \in Nat /\ snapshot.attempt \in Nat /\ serial \in Nat /\ faults \in Nat
  BY DEF Inv, TypeOK, Snapshot
<1>2. PICK e \in Nat : e = Earlier(snapshot.generation) BY <1>1, EarlierIsNatural
<1>3. e = Earlier(snapshot'.generation) BY <1>2 DEF Spending
<1>4. serial <= e + snapshot.attempt + (IF Launched THEN 1 ELSE 0) + faults
  BY <1>2 DEF BudgetFit
<1>5. serial' <= e + snapshot.attempt + (IF Launched' THEN 1 ELSE 0) + faults'
  BY <1>1, <1>2, <1>4 DEF Spending
<1>6. serial' <= Earlier(snapshot'.generation) + snapshot'.attempt
                   + (IF Launched' THEN 1 ELSE 0) + faults'
  BY <1>3, <1>5 DEF Spending
<1>7. QED BY <1>1, <1>6 DEF BudgetFit, Spending

\* Every step keeps to the budget: a launch is counted once, by the attempt or the
\* generation it is for or by the fault that repeats it.
LEMMA BudgetStep == Inv /\ BudgetFit /\ [Next]_vars => BudgetFit'
<1> SUFFICES ASSUME Inv, BudgetFit, Next PROVE Spending \/ BudgetFit'
  <2>1. BudgetFit /\ UNCHANGED vars => Spending
    BY DEF Spending, Launched, vars, world, runtimeVars, BudgetFit
  <2>2. QED BY <2>1, SpendingFits
<1> USE FailsClosed DEF Inv, SeatInv, TypeOK, Snapshot, PlaceFitsPhase, PhaseAt, Launched,
      BudgetFit, Spending, Supervised, Observing, Stopping, Working,
            world, runtimeVars, hookVars, storeVars
<1>1. CASE Boot BY <1>1 DEF Boot, Refresh
<1>2. CASE StartTerminal BY <1>2 DEF StartTerminal, Goto
<1>3. CASE ClaimRoot BY <1>3 DEF ClaimRoot, Grant, Conflict, Goto
<1>4. CASE SaveRootClaim BY <1>4 DEF SaveRootClaim
<1>5. CASE Resume BY <1>5 DEF Resume, EnsureLive, Goto, Fault, Blocked, Persist
<1>6. CASE Launch BY <1>6 DEF Launch, AtLaunch, Mine, NextRuntime
<1>7. CASE LaunchFails BY <1>7 DEF LaunchFails, AtLaunch, Mine, Fault, NextRuntime
<1>8. CASE SaveLaunch
  BY <1>8, SavesLaunch
<1>9. CASE HeartbeatAfterLaunch
  BY <1>9 DEF HeartbeatAfterLaunch, HeartbeatIfDue, Heartbeat, Goto, Beat, Stale, Current,
     Beating
<1>10. CASE TickBegin BY <1>10 DEF TickBegin, Refresh
<1>11. CASE TickEnsureLive
  BY <1>11 DEF TickEnsureLive, EnsureLive, Goto, Fault, Blocked, Persist
<1>12. CASE TickHeartbeat
  BY <1>12 DEF TickHeartbeat, HeartbeatIfDue, Heartbeat, Goto, Beat, Stale, Current, Beating
<1>13. CASE FenceExited
  BY <1>13 DEF FenceExited, Fence, FenceStale, Goto, Fault, Blocked, Stale, Current
<1>14. CASE SaveCompleted BY <1>14 DEF SaveCompleted, Persist
<1>15. CASE Observe BY <1>15 DEF Observe, Observed, Persist
<1>16. CASE ResumeRotation BY <1>16 DEF ResumeRotation, Goto
<1>17. CASE AwaitAck BY <1>17 DEF AwaitAck, Goto, Heartbeat, Beat, Stale, Current
<1>18. CASE AcknowledgeStores BY <1>18 DEF AcknowledgeStores, Fault
<1>19. CASE SaveAcknowledged BY <1>19 DEF SaveAcknowledged
<1>20. CASE ClearAck BY <1>20 DEF ClearAck
<1>21. CASE StopFailedSuccessor BY <1>21 DEF StopFailedSuccessor, Ends, Fault, Blocked
<1>22. CASE SaveRetry
  <2>1. /\ pc = "retried" /\ snapshot.generation > 0 /\ Launched
        /\ serial' = serial /\ faults' = faults
    BY <1>22, SavesRetry
  <2>2. CASE snapshot'.phase = "blocked" BY <1>22, <2>1, <2>2, SavesRetry
  <2>3. CASE snapshot'.phase # "blocked"
    <3>1. /\ snapshot'.generation = snapshot.generation /\ snapshot'.attempt = snapshot.attempt + 1
          /\ snapshot'.phase = "launching" /\ pc' = "advance" /\ ~ Launched'
          /\ snapshot.attempt < RetryLimit
      BY <1>22, <2>3, SavesRetry
    <3>2. snapshot.attempt + 1 <= RetryLimit BY <3>1, ConstantsAssumption
    <3>3. PICK e \in Nat : e = Earlier(snapshot.generation) BY EarlierIsNatural
    <3>4. serial <= e + snapshot.attempt + 1 + faults BY <2>1, <3>3
    <3>5. serial' <= e + snapshot'.attempt + 0 + faults' BY <2>1, <3>1, <3>4
    <3>6. BudgetFit' BY <2>1, <3>1, <3>2, <3>3, <3>5
    <3>7. QED BY <3>6
  <2>4. QED BY <2>2, <2>3
<1>23. CASE HeartbeatBeforeCheckpoint
  BY <1>23 DEF HeartbeatBeforeCheckpoint, Goto, Heartbeat, Beat, Stale, Current
<1>24. CASE Checkpoint BY <1>24 DEF Checkpoint, Fault
<1>25. CASE HeartbeatAfterCheckpoint
  BY <1>25 DEF HeartbeatAfterCheckpoint, Heartbeat, Beat, Stale, Current
<1>26. CASE SaveCheckpoint BY <1>26 DEF SaveCheckpoint, Goto
<1>27. CASE BeginStop BY <1>27 DEF BeginStop
<1>28. CASE StopPredecessor BY <1>28 DEF StopPredecessor, Ends, Fault
<1>29. CASE SaveStopped BY <1>29 DEF SaveStopped, Persist
<1>30. CASE BeginFence BY <1>30 DEF BeginFence, Persist
<1>31. CASE FencePredecessor BY <1>31 DEF FencePredecessor, Fence, FenceStale, Stale, Current
<1>32. CASE SaveFenced BY <1>32 DEF SaveFenced, Persist
<1>33. CASE BeginClaim BY <1>33 DEF BeginClaim, Persist
<1>34. CASE ClaimSuccessor BY <1>34 DEF ClaimSuccessor, Grant, Conflict, Goto
<1>35. CASE SaveSuccessorClaim
  <2>1. /\ pc = "claimed" /\ snapshot.phase = "claiming" /\ Launched
        /\ serial' = serial /\ faults' = faults
        /\ snapshot'.phase = "launching" /\ pc' = "advance" /\ ~ Launched'
        /\ snapshot'.generation = snapshot.generation + 1 /\ snapshot'.attempt = 0
    BY <1>35 DEF SaveSuccessorClaim
  <2>2. PICK e \in Nat : e = Earlier(snapshot.generation) BY EarlierIsNatural
  <2>3. serial <= e + snapshot.attempt + 1 + faults BY <2>1, <2>2
  <2>4. PICK n \in Nat : n = Earlier(snapshot.generation + 1) BY EarlierIsNatural
  <2>5. e + snapshot.attempt + 1 <= n
    <3>1. e = 0 \/ snapshot.generation # 0 BY <2>2 DEF Earlier
    <3>2. n = IF snapshot.generation = 0 THEN 1 ELSE e + RetryLimit + 1
      BY <2>2, <2>4, OneGenerationMore
    <3>3. QED BY <3>1, <3>2, ConstantsAssumption
  <2>6. serial' <= n + 0 + 0 + faults' BY <2>1, <2>3, <2>5
  <2>7. BudgetFit' BY <2>1, <2>4, <2>6, ConstantsAssumption
  <2>8. QED BY <2>7
<1>36. CASE FinalizeCompleted BY <1>36 DEF FinalizeCompleted, Refresh
<1>37. CASE ShutdownBegin
  BY <1>37 DEF ShutdownBegin, Refresh, RuntimeWasAdopted, LastProcess, Blocked, LastClaim
<1>38. CASE ShutdownRuntime BY <1>38 DEF ShutdownRuntime, Ends, Fault
<1>39. CASE ShutdownFence
  BY <1>39 DEF ShutdownFence, LastClaim, Goto, Fence, FenceStale, Fault, Stale, Current
<1>40. CASE SaveShutdown BY <1>40 DEF SaveShutdown, Blocked, LastClaim
<1>41. CASE LoopEnds BY <1>41 DEF LoopEnds, Goto
<1>42. CASE Unwind BY <1>42 DEF Unwind, Fault
<1>43. CASE Crash BY <1>43 DEF Crash, Fault
<1>44. CASE HookLingers BY <1>44 DEF HookLingers, Fault
<1>45. CASE AckDeadline BY <1>45 DEF AckDeadline
<1>46. CASE Elapse BY <1>46 DEF Elapse
<1>47. CASE RivalClaim BY <1>47 DEF RivalClaim
<1>48. CASE RivalRelease BY <1>48 DEF RivalRelease
<1>49. ASSUME NEW r \in live, Register(r) PROVE Spending \/ BudgetFit' BY <1>49 DEF Register
<1>50. ASSUME NEW r \in live, GuardianKill(r) PROVE Spending \/ BudgetFit'
  BY <1>50 DEF GuardianKill, StopRequested, Ends
<1>51. ASSUME NEW r \in live, RuntimeExit(r) PROVE Spending \/ BudgetFit'
  BY <1>51 DEF RuntimeExit, Ends, StopRequested
<1>52. ASSUME NEW r \in live, HookStart(r) PROVE Spending \/ BudgetFit'
  BY <1>52 DEF HookStart, Durable, HookReturns, Names, HookAborts
<1>53. ASSUME NEW r \in live, HookAwait(r) PROVE Spending \/ BudgetFit'
  BY <1>53 DEF HookAwait, Durable, HookReturns, HookAborts, Names
<1> QED
  BY <1>1, <1>2, <1>3, <1>4, <1>5, <1>6, <1>7, <1>8, <1>9, <1>10, <1>11, <1>12, <1>13, <1>14,
     <1>15, <1>16, <1>17, <1>18, <1>19, <1>20, <1>21, <1>22, <1>23, <1>24, <1>25, <1>26, <1>27,
     <1>28, <1>29, <1>30, <1>31, <1>32, <1>33, <1>34, <1>35, <1>36, <1>37, <1>38, <1>39, <1>40,
     <1>41, <1>42, <1>43, <1>44, <1>45, <1>46, <1>47, <1>48, <1>49, <1>50, <1>51, <1>52, <1>53
  DEF Next, Supervise, Rotate, Environment, Guard

\* Every step keeps the claim known, before it is persisted and after.
LEMMA ClaimStep == Inv /\ ClaimFit /\ [Next]_vars => ClaimFit'
<1> SUFFICES ASSUME Inv, ClaimFit, Next PROVE ClaimFit'
  BY DEF ClaimFit, vars, world, runtimeVars, storeVars
<1> USE FailsClosed, HoldsNothing DEF ClaimFit, Inv, SeatInv, TypeOK, Snapshot, Held, Task,
      Recorded, OfThisGeneration, PlaceFitsPhase, PhaseAt, Supervised, Observing, Stopping,
      Working,
            world, runtimeVars, hookVars, storeVars
<1>1. CASE Boot BY <1>1 DEF Boot, Refresh
<1>2. CASE StartTerminal BY <1>2 DEF StartTerminal, Goto
<1>3. CASE ClaimRoot BY <1>3 DEF ClaimRoot, Grant, Conflict, Goto
<1>4. CASE SaveRootClaim BY <1>4 DEF SaveRootClaim
<1>5. CASE Resume BY <1>5 DEF Resume, EnsureLive, Goto, Fault, Blocked, Persist
<1>6. CASE Launch BY <1>6 DEF Launch, AtLaunch, Mine, NextRuntime
<1>7. CASE LaunchFails BY <1>7 DEF LaunchFails, AtLaunch, Mine, Fault, NextRuntime
<1>8. CASE SaveLaunch BY <1>8 DEF SaveLaunch
<1>9. CASE HeartbeatAfterLaunch
  BY <1>9 DEF HeartbeatAfterLaunch, HeartbeatIfDue, Heartbeat, Goto, Beat, Stale, Current,
     Beating
<1>10. CASE TickBegin BY <1>10 DEF TickBegin, Refresh
<1>11. CASE TickEnsureLive
  BY <1>11 DEF TickEnsureLive, EnsureLive, Goto, Fault, Blocked, Persist
<1>12. CASE TickHeartbeat
  BY <1>12 DEF TickHeartbeat, HeartbeatIfDue, Heartbeat, Goto, Beat, Stale, Current, Beating
<1>13. CASE FenceExited
  BY <1>13 DEF FenceExited, Fence, FenceStale, Goto, Fault, Blocked, Stale, Current
<1>14. CASE SaveCompleted BY <1>14 DEF SaveCompleted, Persist
<1>15. CASE Observe BY <1>15 DEF Observe, Observed, Persist
<1>16. CASE ResumeRotation BY <1>16 DEF ResumeRotation, Goto
<1>17. CASE AwaitAck BY <1>17 DEF AwaitAck, Goto, Heartbeat, Beat, Stale, Current
<1>18. CASE AcknowledgeStores BY <1>18 DEF AcknowledgeStores, Fault
<1>19. CASE SaveAcknowledged BY <1>19 DEF SaveAcknowledged
<1>20. CASE ClearAck BY <1>20 DEF ClearAck
<1>21. CASE StopFailedSuccessor BY <1>21 DEF StopFailedSuccessor, Ends, Fault, Blocked
<1>22. CASE SaveRetry BY <1>22 DEF SaveRetry, Persist
<1>23. CASE HeartbeatBeforeCheckpoint
  BY <1>23 DEF HeartbeatBeforeCheckpoint, Goto, Heartbeat, Beat, Stale, Current
<1>24. CASE Checkpoint BY <1>24 DEF Checkpoint, Fault
<1>25. CASE HeartbeatAfterCheckpoint
  BY <1>25 DEF HeartbeatAfterCheckpoint, Heartbeat, Beat, Stale, Current
<1>26. CASE SaveCheckpoint BY <1>26 DEF SaveCheckpoint, Goto
<1>27. CASE BeginStop BY <1>27 DEF BeginStop
<1>28. CASE StopPredecessor BY <1>28 DEF StopPredecessor, Ends, Fault
<1>29. CASE SaveStopped BY <1>29 DEF SaveStopped, Persist
<1>30. CASE BeginFence BY <1>30 DEF BeginFence, Persist
<1>31. CASE FencePredecessor BY <1>31 DEF FencePredecessor, Fence, FenceStale, Stale, Current
<1>32. CASE SaveFenced BY <1>32 DEF SaveFenced, Persist
<1>33. CASE BeginClaim BY <1>33 DEF BeginClaim, Persist
<1>34. CASE ClaimSuccessor BY <1>34 DEF ClaimSuccessor, Grant, Conflict, Goto
<1>35. CASE SaveSuccessorClaim BY <1>35 DEF SaveSuccessorClaim
<1>36. CASE FinalizeCompleted BY <1>36 DEF FinalizeCompleted, Refresh
<1>37. CASE ShutdownBegin
  BY <1>37 DEF ShutdownBegin, Refresh, RuntimeWasAdopted, LastProcess, Blocked, LastClaim
<1>38. CASE ShutdownRuntime BY <1>38 DEF ShutdownRuntime, Ends, Fault
<1>39. CASE ShutdownFence
  BY <1>39 DEF ShutdownFence, LastClaim, Goto, Fence, FenceStale, Fault, Stale, Current
<1>40. CASE SaveShutdown BY <1>40 DEF SaveShutdown, Blocked, LastClaim
<1>41. CASE LoopEnds BY <1>41 DEF LoopEnds, Goto
<1>42. CASE Unwind BY <1>42 DEF Unwind, Fault
<1>43. CASE Crash BY <1>43 DEF Crash, Fault
<1>44. CASE HookLingers BY <1>44 DEF HookLingers, Fault
<1>45. CASE AckDeadline BY <1>45 DEF AckDeadline
<1>46. CASE Elapse BY <1>46 DEF Elapse
<1>47. CASE RivalClaim BY <1>47 DEF RivalClaim
<1>48. CASE RivalRelease BY <1>48 DEF RivalRelease
<1>49. ASSUME NEW r \in live, Register(r) PROVE ClaimFit' BY <1>49 DEF Register
<1>50. ASSUME NEW r \in live, GuardianKill(r) PROVE ClaimFit'
  BY <1>50 DEF GuardianKill, StopRequested, Ends
<1>51. ASSUME NEW r \in live, RuntimeExit(r) PROVE ClaimFit'
  BY <1>51 DEF RuntimeExit, Ends, StopRequested
<1>52. ASSUME NEW r \in live, HookStart(r) PROVE ClaimFit'
  BY <1>52 DEF HookStart, Durable, HookReturns, Names, HookAborts
<1>53. ASSUME NEW r \in live, HookAwait(r) PROVE ClaimFit'
  BY <1>53 DEF HookAwait, Durable, HookReturns, HookAborts, Names
<1> QED
  BY <1>1, <1>2, <1>3, <1>4, <1>5, <1>6, <1>7, <1>8, <1>9, <1>10, <1>11, <1>12, <1>13, <1>14,
     <1>15, <1>16, <1>17, <1>18, <1>19, <1>20, <1>21, <1>22, <1>23, <1>24, <1>25, <1>26, <1>27,
     <1>28, <1>29, <1>30, <1>31, <1>32, <1>33, <1>34, <1>35, <1>36, <1>37, <1>38, <1>39, <1>40,
     <1>41, <1>42, <1>43, <1>44, <1>45, <1>46, <1>47, <1>48, <1>49, <1>50, <1>51, <1>52, <1>53
  DEF Next, Supervise, Rotate, Environment, Guard

\* Every step keeps the capsule of the rotation durable where it is needed.
LEMMA CapsuleStep == Inv /\ CapsuleFit /\ [Next]_vars => CapsuleFit'
<1> SUFFICES ASSUME Inv, CapsuleFit, Next PROVE CapsuleFit'
  BY DEF CapsuleFit, vars, world, runtimeVars, storeVars
<1> USE FailsClosed, HoldsNothing, Defaults DEF CapsuleFit, Places, Inv, SeatInv, TypeOK,
      Snapshot, Held, Task, Recorded, OfThisGeneration, PlaceFitsPhase, PhaseAt,
      Supervised, Observing, Stopping, Working,
            world, runtimeVars, hookVars, storeVars
<1>1. CASE Boot BY <1>1 DEF Boot, Refresh
<1>2. CASE StartTerminal BY <1>2 DEF StartTerminal, Goto
<1>3. CASE ClaimRoot BY <1>3 DEF ClaimRoot, Grant, Conflict, Goto
<1>4. CASE SaveRootClaim BY <1>4 DEF SaveRootClaim
<1>5. CASE Resume BY <1>5 DEF Resume, EnsureLive, Goto, Fault, Blocked, Persist
<1>6. CASE Launch BY <1>6 DEF Launch, AtLaunch, Mine, NextRuntime
<1>7. CASE LaunchFails BY <1>7 DEF LaunchFails, AtLaunch, Mine, Fault, NextRuntime
<1>8. CASE SaveLaunch
  BY <1>8, SavesLaunch
<1>9. CASE HeartbeatAfterLaunch
  BY <1>9 DEF HeartbeatAfterLaunch, HeartbeatIfDue, Heartbeat, Goto, Beat, Stale, Current,
     Beating
<1>10. CASE TickBegin BY <1>10 DEF TickBegin, Refresh
<1>11. CASE TickEnsureLive
  BY <1>11 DEF TickEnsureLive, EnsureLive, Goto, Fault, Blocked, Persist
<1>12. CASE TickHeartbeat
  BY <1>12 DEF TickHeartbeat, HeartbeatIfDue, Heartbeat, Goto, Beat, Stale, Current, Beating
<1>13. CASE FenceExited
  BY <1>13 DEF FenceExited, Fence, FenceStale, Goto, Fault, Blocked, Stale, Current
<1>14. CASE SaveCompleted BY <1>14 DEF SaveCompleted, Persist
<1>15. CASE Observe BY <1>15 DEF Observe, Observed, Persist
<1>16. CASE ResumeRotation BY <1>16 DEF ResumeRotation, Goto
<1>17. CASE AwaitAck BY <1>17 DEF AwaitAck, Goto, Heartbeat, Beat, Stale, Current
<1>18. CASE AcknowledgeStores BY <1>18 DEF AcknowledgeStores, Fault
<1>19. CASE SaveAcknowledged BY <1>19 DEF SaveAcknowledged
<1>20. CASE ClearAck BY <1>20 DEF ClearAck
<1>21. CASE StopFailedSuccessor BY <1>21 DEF StopFailedSuccessor, Ends, Fault, Blocked
<1>22. CASE SaveRetry
  BY <1>22, SavesRetry
<1>23. CASE HeartbeatBeforeCheckpoint
  BY <1>23 DEF HeartbeatBeforeCheckpoint, Goto, Heartbeat, Beat, Stale, Current
<1>24. CASE Checkpoint BY <1>24 DEF Checkpoint, Fault
<1>25. CASE HeartbeatAfterCheckpoint
  BY <1>25 DEF HeartbeatAfterCheckpoint, Heartbeat, Beat, Stale, Current
<1>26. CASE SaveCheckpoint
  BY <1>26, SavesCheckpoint
<1>27. CASE BeginStop BY <1>27 DEF BeginStop
<1>28. CASE StopPredecessor BY <1>28 DEF StopPredecessor, Ends, Fault
<1>29. CASE SaveStopped BY <1>29 DEF SaveStopped, Persist
<1>30. CASE BeginFence BY <1>30 DEF BeginFence, Persist
<1>31. CASE FencePredecessor BY <1>31 DEF FencePredecessor, Fence, FenceStale, Stale, Current
<1>32. CASE SaveFenced BY <1>32 DEF SaveFenced, Persist
<1>33. CASE BeginClaim BY <1>33 DEF BeginClaim, Persist
<1>34. CASE ClaimSuccessor BY <1>34 DEF ClaimSuccessor, Grant, Conflict, Goto
<1>35. CASE SaveSuccessorClaim BY <1>35 DEF SaveSuccessorClaim
<1>36. CASE FinalizeCompleted BY <1>36 DEF FinalizeCompleted, Refresh
<1>37. CASE ShutdownBegin
  BY <1>37 DEF ShutdownBegin, Refresh, RuntimeWasAdopted, LastProcess, Blocked, LastClaim
<1>38. CASE ShutdownRuntime BY <1>38 DEF ShutdownRuntime, Ends, Fault
<1>39. CASE ShutdownFence
  BY <1>39 DEF ShutdownFence, LastClaim, Goto, Fence, FenceStale, Fault, Stale, Current
<1>40. CASE SaveShutdown BY <1>40 DEF SaveShutdown, Blocked, LastClaim
<1>41. CASE LoopEnds BY <1>41 DEF LoopEnds, Goto
<1>42. CASE Unwind BY <1>42 DEF Unwind, Fault
<1>43. CASE Crash BY <1>43 DEF Crash, Fault
<1>44. CASE HookLingers BY <1>44 DEF HookLingers, Fault
<1>45. CASE AckDeadline BY <1>45 DEF AckDeadline
<1>46. CASE Elapse BY <1>46 DEF Elapse
<1>47. CASE RivalClaim BY <1>47 DEF RivalClaim
<1>48. CASE RivalRelease BY <1>48 DEF RivalRelease
<1>49. ASSUME NEW r \in live, Register(r) PROVE CapsuleFit' BY <1>49 DEF Register
<1>50. ASSUME NEW r \in live, GuardianKill(r) PROVE CapsuleFit'
  BY <1>50 DEF GuardianKill, StopRequested, Ends
<1>51. ASSUME NEW r \in live, RuntimeExit(r) PROVE CapsuleFit'
  BY <1>51 DEF RuntimeExit, Ends, StopRequested
<1>52. ASSUME NEW r \in live, HookStart(r) PROVE CapsuleFit'
  BY <1>52 DEF HookStart, Durable, HookReturns, Names, HookAborts
<1>53. ASSUME NEW r \in live, HookAwait(r) PROVE CapsuleFit'
  BY <1>53 DEF HookAwait, Durable, HookReturns, HookAborts, Names
<1> QED
  BY <1>1, <1>2, <1>3, <1>4, <1>5, <1>6, <1>7, <1>8, <1>9, <1>10, <1>11, <1>12, <1>13, <1>14,
     <1>15, <1>16, <1>17, <1>18, <1>19, <1>20, <1>21, <1>22, <1>23, <1>24, <1>25, <1>26, <1>27,
     <1>28, <1>29, <1>30, <1>31, <1>32, <1>33, <1>34, <1>35, <1>36, <1>37, <1>38, <1>39, <1>40,
     <1>41, <1>42, <1>43, <1>44, <1>45, <1>46, <1>47, <1>48, <1>49, <1>50, <1>51, <1>52, <1>53
  DEF Next, Supervise, Rotate, Environment, Guard

\* Every step keeps the sessions with a chain that names their conversation.
LEMMA SessionStep == Inv /\ SessionFit /\ BudgetFit /\ [Next]_vars => SessionFit'
<1> SUFFICES ASSUME Inv, SessionFit, BudgetFit, Next PROVE SessionFit'
  BY DEF SessionFit, vars, world, runtimeVars, storeVars
<1> USE FailsClosed, HoldsNothing DEF SessionFit, Inv, SeatInv, TypeOK, Snapshot, Held,
      Task, Recorded, OfThisGeneration, PlaceFitsPhase, PhaseAt, Supervised, Observing,
      Stopping, Working,
            world, runtimeVars, hookVars, storeVars
<1>1. CASE Boot BY <1>1 DEF Boot, Refresh
<1>2. CASE StartTerminal BY <1>2 DEF StartTerminal, Goto
<1>3. CASE ClaimRoot BY <1>3 DEF ClaimRoot, Grant, Conflict, Goto
<1>4. CASE SaveRootClaim BY <1>4 DEF SaveRootClaim
<1>5. CASE Resume BY <1>5 DEF Resume, EnsureLive, Goto, Fault, Blocked, Persist
<1>6. CASE Launch
  <2>1. sessions = {} /\ UNCHANGED <<sessions, snapshot>> /\ pc' = "launched"
    BY <1>6 DEF Launch, AtLaunch
  <2>2. held'.aborting = held.aborting /\ pc \in Working BY <1>6 DEF Launch, AtLaunch
  <2>3. NextRuntime(serial + 1) # NoRuntime BY DEF NextRuntime, NoRuntime
  <2>4. \A r \in live' : r # NoRuntime BY <1>6, <2>3 DEF Launch, Mine
  <2>5. QED BY <2>1, <2>2, <2>4
<1>7. CASE LaunchFails
  <2>1. /\ sessions = {} /\ UNCHANGED <<sessions, snapshot, held>>
        /\ pc \in Working /\ pc' \in {"shutdown", "retry"}
    BY <1>7 DEF LaunchFails, AtLaunch
  <2>2. NextRuntime(serial + 1) # NoRuntime BY DEF NextRuntime, NoRuntime
  <2>3. \A r \in live' : r # NoRuntime BY <1>7, <2>2 DEF LaunchFails
  <2>4. QED BY <2>1, <2>3
<1>8. CASE SaveLaunch
  BY <1>8, SavesLaunch
<1>9. CASE HeartbeatAfterLaunch
  BY <1>9 DEF HeartbeatAfterLaunch, HeartbeatIfDue, Heartbeat, Goto, Beat, Stale, Current,
     Beating
<1>10. CASE TickBegin BY <1>10 DEF TickBegin, Refresh
<1>11. CASE TickEnsureLive
  BY <1>11 DEF TickEnsureLive, EnsureLive, Goto, Fault, Blocked, Persist
<1>12. CASE TickHeartbeat
  BY <1>12 DEF TickHeartbeat, HeartbeatIfDue, Heartbeat, Goto, Beat, Stale, Current, Beating
<1>13. CASE FenceExited
  BY <1>13 DEF FenceExited, Fence, FenceStale, Goto, Fault, Blocked, Stale, Current
<1>14. CASE SaveCompleted
  <2>1. sessions = {} /\ UNCHANGED <<sessions, held, live>> /\ pc' = "shutdown"
    BY <1>14 DEF SaveCompleted, Persist, EffectNotSaved
  <2>2. QED BY <2>1
<1>15. CASE Observe BY <1>15 DEF Observe, Observed, Persist
<1>16. CASE ResumeRotation BY <1>16 DEF ResumeRotation, Goto
<1>17. CASE AwaitAck BY <1>17 DEF AwaitAck, Goto, Heartbeat, Beat, Stale, Current
<1>18. CASE AcknowledgeStores BY <1>18 DEF AcknowledgeStores, Fault
<1>19. CASE SaveAcknowledged BY <1>19 DEF SaveAcknowledged
<1>20. CASE ClearAck BY <1>20 DEF ClearAck
<1>21. CASE StopFailedSuccessor BY <1>21 DEF StopFailedSuccessor, Ends, Fault, Blocked
<1>22. CASE SaveRetry BY <1>22 DEF SaveRetry, Persist
<1>23. CASE HeartbeatBeforeCheckpoint
  BY <1>23 DEF HeartbeatBeforeCheckpoint, Goto, Heartbeat, Beat, Stale, Current
<1>24. CASE Checkpoint BY <1>24 DEF Checkpoint, Fault
<1>25. CASE HeartbeatAfterCheckpoint
  BY <1>25 DEF HeartbeatAfterCheckpoint, Heartbeat, Beat, Stale, Current
<1>26. CASE SaveCheckpoint BY <1>26 DEF SaveCheckpoint, Goto
<1>27. CASE BeginStop BY <1>27 DEF BeginStop
<1>28. CASE StopPredecessor BY <1>28 DEF StopPredecessor, Ends, Fault
<1>29. CASE SaveStopped BY <1>29 DEF SaveStopped, Persist
<1>30. CASE BeginFence BY <1>30 DEF BeginFence, Persist
<1>31. CASE FencePredecessor BY <1>31 DEF FencePredecessor, Fence, FenceStale, Stale, Current
<1>32. CASE SaveFenced BY <1>32 DEF SaveFenced, Persist
<1>33. CASE BeginClaim BY <1>33 DEF BeginClaim, Persist
<1>34. CASE ClaimSuccessor BY <1>34 DEF ClaimSuccessor, Grant, Conflict, Goto
<1>35. CASE SaveSuccessorClaim BY <1>35 DEF SaveSuccessorClaim
<1>36. CASE FinalizeCompleted BY <1>36 DEF FinalizeCompleted, Refresh
<1>37. CASE ShutdownBegin
  BY <1>37 DEF ShutdownBegin, Refresh, RuntimeWasAdopted, LastProcess, Blocked, LastClaim
<1>38. CASE ShutdownRuntime BY <1>38 DEF ShutdownRuntime, Ends, Fault
<1>39. CASE ShutdownFence
  BY <1>39 DEF ShutdownFence, LastClaim, Goto, Fence, FenceStale, Fault, Stale, Current
<1>40. CASE SaveShutdown BY <1>40 DEF SaveShutdown, Blocked, LastClaim
<1>41. CASE LoopEnds BY <1>41 DEF LoopEnds, Goto
<1>42. CASE Unwind BY <1>42 DEF Unwind, Fault
<1>43. CASE Crash BY <1>43 DEF Crash, Fault
<1>44. CASE HookLingers BY <1>44 DEF HookLingers, Fault
<1>45. CASE AckDeadline BY <1>45 DEF AckDeadline
<1>46. CASE Elapse BY <1>46 DEF Elapse
<1>47. CASE RivalClaim BY <1>47 DEF RivalClaim
<1>48. CASE RivalRelease BY <1>48 DEF RivalRelease
<1>49. ASSUME NEW r \in live, Register(r) PROVE SessionFit' BY <1>49 DEF Register
<1>50. ASSUME NEW r \in live, GuardianKill(r) PROVE SessionFit'
  BY <1>50 DEF GuardianKill, StopRequested, Ends
<1>51. ASSUME NEW r \in live, RuntimeExit(r) PROVE SessionFit'
  BY <1>51 DEF RuntimeExit, Ends, StopRequested
<1>52. ASSUME NEW r \in live, HookStart(r) PROVE SessionFit'
  BY <1>52 DEF HookStart, Durable, HookReturns, Names, HookAborts
<1>53. ASSUME NEW r \in live, HookAwait(r) PROVE SessionFit'
  BY <1>53 DEF HookAwait, Durable, HookReturns, HookAborts, Names
<1> QED
  BY <1>1, <1>2, <1>3, <1>4, <1>5, <1>6, <1>7, <1>8, <1>9, <1>10, <1>11, <1>12, <1>13, <1>14,
     <1>15, <1>16, <1>17, <1>18, <1>19, <1>20, <1>21, <1>22, <1>23, <1>24, <1>25, <1>26, <1>27,
     <1>28, <1>29, <1>30, <1>31, <1>32, <1>33, <1>34, <1>35, <1>36, <1>37, <1>38, <1>39, <1>40,
     <1>41, <1>42, <1>43, <1>44, <1>45, <1>46, <1>47, <1>48, <1>49, <1>50, <1>51, <1>52, <1>53
  DEF Next, Supervise, Rotate, Environment, Guard

\* What is known of a chain beside who sits in its seat.
Chain == BudgetFit /\ ClaimFit /\ CapsuleFit /\ SessionFit

\* It holds at the start.
LEMMA ChainInit == Init => Chain
<1> SUFFICES ASSUME Init PROVE Chain
  OBVIOUS
<1> USE DEF Init
<1>1. BudgetFit BY ConstantsAssumption DEF BudgetFit, Launched, Earlier
<1>2. ClaimFit BY DEF ClaimFit
<1>3. CapsuleFit BY HoldsNothing DEF CapsuleFit, Working, Observing
<1>4. SessionFit BY HoldsNothing DEF SessionFit
<1>5. QED BY <1>1, <1>2, <1>3, <1>4 DEF Chain

\* It holds for good.
LEMMA AlwaysChain == Spec => [](Inv /\ Chain)
<1>1. Init => Inv BY TypeInit, SeatInit DEF Inv
<1>2. Inv /\ Chain /\ [Next]_vars => Inv' /\ Chain'
  BY TypeStep, SeatStep, BudgetStep, ClaimStep, CapsuleStep, SessionStep DEF Inv, Chain
<1>3. QED BY <1>1, <1>2, ChainInit, PTL DEF Spec

\* The retry budget bounds the launches of the chain.
LEMMA BudgetSuffices == Inv /\ BudgetFit => LaunchBudget
<1> SUFFICES ASSUME Inv, BudgetFit PROVE LaunchBudget
  OBVIOUS
<1>1. /\ snapshot.generation \in Nat /\ snapshot.attempt \in Nat /\ serial \in Nat /\ faults \in Nat
  BY DEF Inv, TypeOK, Snapshot
<1>2. CASE snapshot.generation = 0
  <2>1. 0 * (RetryLimit + 1) = 0 BY ConstantsAssumption
  <2>2. serial <= 1 + faults BY <1>1, <1>2 DEF BudgetFit, Earlier
  <2>3. QED BY <1>1, <1>2, <2>1, <2>2 DEF LaunchBudget
<1>3. CASE snapshot.generation # 0
  <2>1. PICK n \in Nat : snapshot.generation = n + 1
    <3>1. snapshot.generation - 1 \in Nat /\ snapshot.generation = (snapshot.generation - 1) + 1
      BY <1>1, <1>3
    <3>2. QED BY <3>1
  <2>2. PICK m \in Nat : m = RetryLimit + 1 BY ConstantsAssumption
  <2>3. (n + 1) * m = n * m + m /\ n * m \in Nat BY Distributes
  <2>4. Earlier(snapshot.generation) = 1 + n * m BY <2>1, <2>2 DEF Earlier
  <2>5. snapshot.attempt + 1 <= m BY <1>1, <2>2, ConstantsAssumption DEF BudgetFit
  <2>6. serial <= 1 + n * m + snapshot.attempt + 1 + faults BY <1>1, <2>3, <2>4 DEF BudgetFit
  <2>7. serial <= 1 + (n + 1) * m + faults BY <1>1, <2>2, <2>3, <2>5, <2>6
  <2>8. QED BY <2>1, <2>2, <2>7 DEF LaunchBudget
<1>4. QED BY <1>2, <1>3

\* The retry budget bounds the launches of a chain, for every retry limit and any
\* number of generations; each crash, interrupt or failed effect costs at most
\* one launch more (supervisor.py, _retry_successor_unlocked and _advance_rotation).
THEOREM LaunchesAreBudgeted == Spec => []LaunchBudget
<1>1. Inv /\ Chain => LaunchBudget BY BudgetSuffices DEF Chain
<1>2. QED BY <1>1, AlwaysChain, PTL

\* A completed run leaves no runtime and no running lease behind (supervisor.py,
\* _complete_clean_exit).
THEOREM CompletionIsClean == Spec => []CompletedLeavesNothing
<1>1. Inv /\ Chain => CompletedLeavesNothing
  BY DEF Inv, SeatInv, Vacated, Chain, ClaimFit, CompletedLeavesNothing
<1>2. QED BY <1>1, AlwaysChain, PTL

-----------------------------------------------------------------------------
(* What a step may do with capsules and sessions                             *)

\* A successor is launched with the durable capsule that names its generation.
LaunchesFit ==
  \A r \in live' \ live :
    r.gen > 0 => /\ snapshot.fingerprint = stored
                 /\ snapshot.fingerprint.target = r.gen

\* A session ends for a rotation only with its successor's capsule durable.
RotatesFit ==
  \A r \in sessions \ sessions' :
    r \in live' => /\ snapshot.fingerprint = stored
                   /\ snapshot.fingerprint.target = r.gen + 1

\* A successor's prompt passes only when it acknowledged its capsule.
DispatchesFit ==
  \A r \in dispatched' \ dispatched :
    r.gen > 0 => /\ accepted = snapshot.fingerprint
                 /\ accepted.target = r.gen

\* No step of the supervisor ends the runtime of a session.
KeepsFit == pc' # pc => \A r \in sessions : r \in live'

CarefulStep == LaunchesFit /\ RotatesFit /\ DispatchesFit /\ KeepsFit

\* Every step is careful with them.
LEMMA CarefulSteps == Inv /\ Chain /\ [Next]_vars => CarefulStep
<1> SUFFICES ASSUME Inv, Chain, Next PROVE CarefulStep
  BY DEF CarefulStep, LaunchesFit, RotatesFit, DispatchesFit, KeepsFit, vars, world,
    runtimeVars, hookVars
<1> USE FailsClosed DEF Chain, CapsuleFit, SessionFit, CarefulStep, LaunchesFit,
      RotatesFit, DispatchesFit, KeepsFit, Inv, SeatInv, TypeOK, Snapshot, Held, Task,
      Recorded, OfThisGeneration, PlaceFitsPhase, PhaseAt, Supervised, Observing, Stopping,
      Working,
            world, runtimeVars, hookVars, storeVars
<1>1. CASE Boot BY <1>1 DEF Boot, Refresh
<1>2. CASE StartTerminal BY <1>2 DEF StartTerminal, Goto
<1>3. CASE ClaimRoot BY <1>3 DEF ClaimRoot, Grant, Conflict, Goto
<1>4. CASE SaveRootClaim BY <1>4 DEF SaveRootClaim
<1>5. CASE Resume BY <1>5 DEF Resume, EnsureLive, Goto, Fault, Blocked, Persist
<1>6. CASE Launch BY <1>6 DEF Launch, AtLaunch, Mine, NextRuntime
<1>7. CASE LaunchFails BY <1>7 DEF LaunchFails, AtLaunch, Mine, Fault, NextRuntime
<1>8. CASE SaveLaunch BY <1>8 DEF SaveLaunch
<1>9. CASE HeartbeatAfterLaunch
  BY <1>9 DEF HeartbeatAfterLaunch, HeartbeatIfDue, Heartbeat, Goto, Beat, Stale, Current,
     Beating
<1>10. CASE TickBegin BY <1>10 DEF TickBegin, Refresh
<1>11. CASE TickEnsureLive
  BY <1>11 DEF TickEnsureLive, EnsureLive, Goto, Fault, Blocked, Persist
<1>12. CASE TickHeartbeat
  BY <1>12 DEF TickHeartbeat, HeartbeatIfDue, Heartbeat, Goto, Beat, Stale, Current, Beating
<1>13. CASE FenceExited
  BY <1>13 DEF FenceExited, Fence, FenceStale, Goto, Fault, Blocked, Stale, Current
<1>14. CASE SaveCompleted BY <1>14 DEF SaveCompleted, Persist
<1>15. CASE Observe BY <1>15 DEF Observe, Observed, Persist
<1>16. CASE ResumeRotation BY <1>16 DEF ResumeRotation, Goto
<1>17. CASE AwaitAck BY <1>17 DEF AwaitAck, Goto, Heartbeat, Beat, Stale, Current
<1>18. CASE AcknowledgeStores BY <1>18 DEF AcknowledgeStores, Fault
<1>19. CASE SaveAcknowledged BY <1>19 DEF SaveAcknowledged
<1>20. CASE ClearAck BY <1>20 DEF ClearAck
<1>21. CASE StopFailedSuccessor BY <1>21 DEF StopFailedSuccessor, Ends, Fault, Blocked
<1>22. CASE SaveRetry BY <1>22 DEF SaveRetry, Persist
<1>23. CASE HeartbeatBeforeCheckpoint
  BY <1>23 DEF HeartbeatBeforeCheckpoint, Goto, Heartbeat, Beat, Stale, Current
<1>24. CASE Checkpoint BY <1>24 DEF Checkpoint, Fault
<1>25. CASE HeartbeatAfterCheckpoint
  BY <1>25 DEF HeartbeatAfterCheckpoint, Heartbeat, Beat, Stale, Current
<1>26. CASE SaveCheckpoint BY <1>26 DEF SaveCheckpoint, Goto
<1>27. CASE BeginStop BY <1>27 DEF BeginStop
<1>28. CASE StopPredecessor BY <1>28 DEF StopPredecessor, Ends, Fault
<1>29. CASE SaveStopped BY <1>29 DEF SaveStopped, Persist
<1>30. CASE BeginFence BY <1>30 DEF BeginFence, Persist
<1>31. CASE FencePredecessor BY <1>31 DEF FencePredecessor, Fence, FenceStale, Stale, Current
<1>32. CASE SaveFenced BY <1>32 DEF SaveFenced, Persist
<1>33. CASE BeginClaim BY <1>33 DEF BeginClaim, Persist
<1>34. CASE ClaimSuccessor BY <1>34 DEF ClaimSuccessor, Grant, Conflict, Goto
<1>35. CASE SaveSuccessorClaim BY <1>35 DEF SaveSuccessorClaim
<1>36. CASE FinalizeCompleted BY <1>36 DEF FinalizeCompleted, Refresh
<1>37. CASE ShutdownBegin
  BY <1>37 DEF ShutdownBegin, Refresh, RuntimeWasAdopted, LastProcess, Blocked, LastClaim
<1>38. CASE ShutdownRuntime BY <1>38 DEF ShutdownRuntime, Ends, Fault
<1>39. CASE ShutdownFence
  BY <1>39 DEF ShutdownFence, LastClaim, Goto, Fence, FenceStale, Fault, Stale, Current
<1>40. CASE SaveShutdown BY <1>40 DEF SaveShutdown, Blocked, LastClaim
<1>41. CASE LoopEnds BY <1>41 DEF LoopEnds, Goto
<1>42. CASE Unwind BY <1>42 DEF Unwind, Fault
<1>43. CASE Crash BY <1>43 DEF Crash, Fault
<1>44. CASE HookLingers BY <1>44 DEF HookLingers, Fault
<1>45. CASE AckDeadline BY <1>45 DEF AckDeadline
<1>46. CASE Elapse BY <1>46 DEF Elapse
<1>47. CASE RivalClaim BY <1>47 DEF RivalClaim
<1>48. CASE RivalRelease BY <1>48 DEF RivalRelease
<1>49. ASSUME NEW r \in live, Register(r) PROVE CarefulStep BY <1>49 DEF Register
<1>50. ASSUME NEW r \in live, GuardianKill(r) PROVE CarefulStep
  BY <1>50 DEF GuardianKill, StopRequested, Ends
<1>51. ASSUME NEW r \in live, RuntimeExit(r) PROVE CarefulStep
  BY <1>51 DEF RuntimeExit, Ends, StopRequested
<1>52. ASSUME NEW r \in live, HookStart(r) PROVE CarefulStep
  BY <1>52 DEF HookStart, Durable, HookReturns, Names, HookAborts
<1>53. ASSUME NEW r \in live, HookAwait(r) PROVE CarefulStep
  BY <1>53 DEF HookAwait, Durable, HookReturns, HookAborts, Names
<1> QED
  BY <1>1, <1>2, <1>3, <1>4, <1>5, <1>6, <1>7, <1>8, <1>9, <1>10, <1>11, <1>12, <1>13, <1>14,
     <1>15, <1>16, <1>17, <1>18, <1>19, <1>20, <1>21, <1>22, <1>23, <1>24, <1>25, <1>26, <1>27,
     <1>28, <1>29, <1>30, <1>31, <1>32, <1>33, <1>34, <1>35, <1>36, <1>37, <1>38, <1>39, <1>40,
     <1>41, <1>42, <1>43, <1>44, <1>45, <1>46, <1>47, <1>48, <1>49, <1>50, <1>51, <1>52, <1>53
  DEF Next, Supervise, Rotate, Environment, Guard

\* A successor is launched only with the capsule that the required stores hold
\* and that was written for its generation (supervisor.py, _advance_rotation).
THEOREM SuccessorsHaveTheirCapsule == Spec => LaunchedWithCapsule
<1>1. Inv /\ Chain /\ [Next]_vars => [LaunchesFit]_vars
  BY CarefulSteps DEF CarefulStep
<1>2. QED BY <1>1, AlwaysChain, PTL DEF Spec, LaunchedWithCapsule, LaunchesFit

\* The rotation begins to end a user's session only when the verified capsule
\* for its successor is durable in the stores and in the snapshot (supervisor.py,
\* _advance_rotation).
THEOREM SessionsAreSavedFirst == Spec => RotatesOnlyWithCapsule
<1>1. Inv /\ Chain /\ [Next]_vars => [RotatesFit]_vars
  BY CarefulSteps DEF CarefulStep
<1>2. QED BY <1>1, AlwaysChain, PTL DEF Spec, RotatesOnlyWithCapsule, RotatesFit

\* A successor's SessionStart returns only after every required store
\* acknowledged the capsule of its generation (supervisor.py, _acknowledge_unlocked;
\* hooks/command.py, _await_durable_acknowledgement).
THEOREM PromptsAreAccepted == Spec => DispatchedOnlyAccepted
<1>1. Inv /\ Chain /\ [Next]_vars => [DispatchesFit]_vars
  BY CarefulSteps DEF CarefulStep
<1>2. QED BY <1>1, AlwaysChain, PTL DEF Spec, DispatchedOnlyAccepted, DispatchesFit

\* The supervisor never ends a session that the user has and that it has not
\* begun to rotate (supervisor.py, _runtime_was_adopted and _shutdown_unlocked).
THEOREM SessionIsKept == Spec => KeepsTheSession
<1>1. Inv /\ Chain /\ [Next]_vars => [KeepsFit]_vars
  BY CarefulSteps DEF CarefulStep
<1>2. QED BY <1>1, AlwaysChain, PTL DEF Spec, KeepsTheSession, KeepsFit

-----------------------------------------------------------------------------
(* The hand-over of one seat                                                 *)

\* What a step may do to the seat while the chain stays in its phase.
SameTask == (task'.owner = "chain") <=> (task.owner = "chain")
Stays ==
  /\ snapshot'.phase = snapshot.phase
  /\ snapshot'.generation = snapshot.generation /\ snapshot'.attempt = snapshot.attempt
  /\ \/ SameTask /\ live' = live
     \/ SameTask /\ live # {} /\ live' = {}
     \/ task'.owner # "chain" /\ live' = live
     \/ /\ snapshot.phase \in {"initial", "claiming"}
        /\ task'.owner = "chain" /\ live' = live
     \/ /\ snapshot.phase = "launching" /\ SameTask
        /\ live = {} /\ \E r : r.gen = snapshot.generation /\ live' = {r}

\* The phases a step may lead to while the seat stays as it is.
LeadsTo(from, to) ==
  \/ to = "blocked" /\ from \notin {"blocked", "completed"}
  \/ from = "initial" /\ to = "launching" /\ snapshot.generation = 0
  \/ from = "launching" /\ to = "running" /\ snapshot.generation = 0
  \/ from = "awaiting_ack" /\ to = "running"
  \/ {from, to} \subseteq Observing \cup {"checkpointing"}
  \/ from = "checkpointing" /\ to = "checkpointed"
  \/ from = "checkpointed" /\ to = "stopping"
  \/ from = "stopping" /\ to = "stopped" /\ live = {}
  \/ from = "stopped" /\ to = "fencing"
  \/ from = "fencing" /\ to = "fenced" /\ task.owner # "chain"
  \/ from = "fenced" /\ to = "claiming"
  \/ from = "launching" /\ to = "awaiting_ack" /\ snapshot.generation > 0
  \/ from \in Observing /\ to = "completed" /\ live = {}

\* What a step may do to the seat when it turns to another phase.
Turns ==
  /\ snapshot'.generation = snapshot.generation /\ snapshot'.attempt = snapshot.attempt
  /\ SameTask /\ live' = live
  /\ LeadsTo(snapshot.phase, snapshot'.phase)

\* The next generation, or the next attempt of this one.
Advances ==
  /\ SameTask /\ live' = live /\ snapshot'.phase = "launching"
  /\ \/ /\ snapshot.phase = "claiming"
        /\ snapshot'.generation = snapshot.generation + 1 /\ snapshot'.attempt = 0
     \/ /\ \/ snapshot.phase = "launching" /\ snapshot.generation > 0
           \/ snapshot.phase = "awaiting_ack" /\ live = {}
        /\ snapshot.generation > 0 /\ snapshot'.generation = snapshot.generation
        /\ snapshot.attempt < RetryLimit /\ snapshot'.attempt = snapshot.attempt + 1

HandsOver == Stays \/ Turns \/ Advances

\* The stage of every phase.
StageIs(p, g, s) ==
  \/ (p = "initial" \/ (p = "launching" /\ g = 0)) /\ s = "open"
  \/ p \in Observing \cup {"checkpointing"} /\ s = "serving"
  \/ p \in {"checkpointed", "stopping"} /\ s = "saved"
  \/ p \in {"stopped", "fencing"} /\ s = "ended"
  \/ p \in {"fenced", "claiming"} /\ s = "released"
  \/ p = "launching" /\ g > 0 /\ s = "granted"
  \/ p = "awaiting_ack" /\ s = "offered"
  \/ p = "blocked" /\ s = "halted"
  \/ p = "completed" /\ s = "done"

\* The stage of the state.
LEMMA StageOf ==
  ASSUME snapshot.phase \in Phases, snapshot.generation \in Nat
  PROVE  StageIs(snapshot.phase, snapshot.generation, Stage)
<1> PICK p \in Phases : p = snapshot.phase OBVIOUS
<1> PICK g \in Nat : g = snapshot.generation OBVIOUS
<1>1. CASE p = "initial" BY <1>1 DEF Stage, StageIs, Observing
<1>2. CASE p = "launching" /\ g = 0 BY <1>2 DEF Stage, StageIs, Observing
<1>3. CASE p \in Observing \cup {"checkpointing"} BY <1>3 DEF Stage, StageIs, Observing
<1>4. CASE p \in {"checkpointed", "stopping"} BY <1>4 DEF Stage, StageIs, Observing
<1>5. CASE p \in {"stopped", "fencing"} BY <1>5 DEF Stage, StageIs, Observing
<1>6. CASE p \in {"fenced", "claiming"} BY <1>6 DEF Stage, StageIs, Observing
<1>7. CASE p = "launching" /\ g > 0 BY <1>7 DEF Stage, StageIs, Observing
<1>8. CASE p = "awaiting_ack" BY <1>8 DEF Stage, StageIs, Observing
<1>9. CASE p = "blocked" BY <1>9 DEF Stage, StageIs, Observing
<1>10. CASE p = "completed" BY <1>10 DEF Stage, StageIs, Observing
<1>11. QED
  BY <1>1, <1>2, <1>3, <1>4, <1>5, <1>6, <1>7, <1>8, <1>9, <1>10 DEF Phases, Observing

\* The same of the next state.
LEMMA StageOfNext ==
  ASSUME snapshot'.phase \in Phases, snapshot'.generation \in Nat
  PROVE  StageIs(snapshot'.phase, snapshot'.generation, Stage')
<1> PICK p \in Phases : p = snapshot'.phase OBVIOUS
<1> PICK g \in Nat : g = snapshot'.generation OBVIOUS
<1>1. CASE p = "initial" BY <1>1 DEF Stage, StageIs, Observing
<1>2. CASE p = "launching" /\ g = 0 BY <1>2 DEF Stage, StageIs, Observing
<1>3. CASE p \in Observing \cup {"checkpointing"} BY <1>3 DEF Stage, StageIs, Observing
<1>4. CASE p \in {"checkpointed", "stopping"} BY <1>4 DEF Stage, StageIs, Observing
<1>5. CASE p \in {"stopped", "fencing"} BY <1>5 DEF Stage, StageIs, Observing
<1>6. CASE p \in {"fenced", "claiming"} BY <1>6 DEF Stage, StageIs, Observing
<1>7. CASE p = "launching" /\ g > 0 BY <1>7 DEF Stage, StageIs, Observing
<1>8. CASE p = "awaiting_ack" BY <1>8 DEF Stage, StageIs, Observing
<1>9. CASE p = "blocked" BY <1>9 DEF Stage, StageIs, Observing
<1>10. CASE p = "completed" BY <1>10 DEF Stage, StageIs, Observing
<1>11. QED
  BY <1>1, <1>2, <1>3, <1>4, <1>5, <1>6, <1>7, <1>8, <1>9, <1>10 DEF Phases, Observing

\* A runtime that ends leaves the seat empty.
LEMMA EndsLeaves ==
  ASSUME Inv, NEW r, NEW x, Ends(r, x)
  PROVE  live' = live \/ (live # {} /\ live' = {})
BY DEF Ends, Inv, SeatInv, NoOverlap

\* Every step stays in its phase, or hands the seat on.
LEMMA SeatMoves == Inv /\ Chain /\ Next => HandsOver
<1> SUFFICES ASSUME Inv, Chain, Next PROVE HandsOver
  OBVIOUS
<1> USE FailsClosed DEF HandsOver, Stays, Turns, Advances, LeadsTo, SameTask, NoOverlap,
      EffectNotSaved, Vacated, Chain, ClaimFit, BudgetFit, Inv, SeatInv, TypeOK, Snapshot,
      Held, Task, Recorded, OfThisGeneration, PlaceFitsPhase, PhaseAt, Supervised,
      Observing, Stopping, Working, world, runtimeVars, hookVars, storeVars
<1>1. CASE Boot BY <1>1 DEF Boot, Refresh
<1>2. CASE StartTerminal BY <1>2 DEF StartTerminal, Goto
<1>3. CASE ClaimRoot BY <1>3 DEF ClaimRoot, Grant, Conflict, Goto
<1>4. CASE SaveRootClaim BY <1>4 DEF SaveRootClaim
<1>5. CASE Resume BY <1>5 DEF Resume, EnsureLive, Goto, Fault, Blocked, Persist
<1>6. CASE Launch BY <1>6 DEF Launch, AtLaunch, Mine, NextRuntime
<1>7. CASE LaunchFails BY <1>7 DEF LaunchFails, AtLaunch, Mine, Fault, NextRuntime
<1>8. CASE SaveLaunch
  BY <1>8, SavesLaunch
<1>9. CASE HeartbeatAfterLaunch
  BY <1>9 DEF HeartbeatAfterLaunch, HeartbeatIfDue, Heartbeat, Goto, Beat, Stale, Current,
     Beating
<1>10. CASE TickBegin BY <1>10 DEF TickBegin, Refresh
<1>11. CASE TickEnsureLive
  BY <1>11 DEF TickEnsureLive, EnsureLive, Goto, Fault, Blocked, Persist
<1>12. CASE TickHeartbeat
  BY <1>12 DEF TickHeartbeat, HeartbeatIfDue, Heartbeat, Goto, Beat, Stale, Current, Beating
<1>13. CASE FenceExited
  BY <1>13 DEF FenceExited, Fence, FenceStale, Goto, Fault, Blocked, Stale, Current
<1>14. CASE SaveCompleted BY <1>14 DEF SaveCompleted, Persist
<1>15. CASE Observe BY <1>15 DEF Observe, Observed, Persist
<1>16. CASE ResumeRotation BY <1>16 DEF ResumeRotation, Goto
<1>17. CASE AwaitAck BY <1>17 DEF AwaitAck, Goto, Heartbeat, Beat, Stale, Current
<1>18. CASE AcknowledgeStores BY <1>18 DEF AcknowledgeStores, Fault
<1>19. CASE SaveAcknowledged BY <1>19 DEF SaveAcknowledged
<1>20. CASE ClearAck BY <1>20 DEF ClearAck
<1>21. CASE StopFailedSuccessor
  <2>1. CASE Ends(snapshot.process, {}) /\ UNCHANGED <<snapshot, task>>
    <3>1. live' = live \/ (live # {} /\ live' = {}) BY <2>1, EndsLeaves
    <3>2. QED BY <2>1, <3>1
  <2>2. CASE snapshot' = Blocked /\ UNCHANGED world
    <3>1. /\ snapshot'.phase = "blocked" /\ snapshot'.generation = snapshot.generation
          /\ snapshot'.attempt = snapshot.attempt
      BY <2>2 DEF Blocked
    <3>2. snapshot.phase \in {"awaiting_ack", "launching"} BY <1>21 DEF StopFailedSuccessor
    <3>3. QED BY <2>2, <3>1, <3>2
  <2>3. QED BY <1>21, <2>1, <2>2 DEF StopFailedSuccessor
<1>22. CASE SaveRetry
  <2>1. /\ snapshot.phase \in {"awaiting_ack", "launching"} /\ snapshot.generation > 0
        /\ snapshot.phase = "awaiting_ack" => live = {}
    BY <1>22, SavesRetry
  <2>2. QED BY <1>22, <2>1, SavesRetry
<1>23. CASE HeartbeatBeforeCheckpoint
  BY <1>23 DEF HeartbeatBeforeCheckpoint, Goto, Heartbeat, Beat, Stale, Current
<1>24. CASE Checkpoint BY <1>24 DEF Checkpoint, Fault
<1>25. CASE HeartbeatAfterCheckpoint
  BY <1>25 DEF HeartbeatAfterCheckpoint, Heartbeat, Beat, Stale, Current
<1>26. CASE SaveCheckpoint
  BY <1>26, SavesCheckpoint
<1>27. CASE BeginStop BY <1>27 DEF BeginStop
<1>28. CASE StopPredecessor BY <1>28 DEF StopPredecessor, Ends, Fault
<1>29. CASE SaveStopped BY <1>29 DEF SaveStopped, Persist
<1>30. CASE BeginFence BY <1>30 DEF BeginFence, Persist
<1>31. CASE FencePredecessor BY <1>31 DEF FencePredecessor, Fence, FenceStale, Stale, Current
<1>32. CASE SaveFenced BY <1>32 DEF SaveFenced, Persist
<1>33. CASE BeginClaim BY <1>33 DEF BeginClaim, Persist
<1>34. CASE ClaimSuccessor BY <1>34 DEF ClaimSuccessor, Grant, Conflict, Goto
<1>35. CASE SaveSuccessorClaim BY <1>35 DEF SaveSuccessorClaim
<1>36. CASE FinalizeCompleted BY <1>36 DEF FinalizeCompleted, Refresh
<1>37. CASE ShutdownBegin
  BY <1>37 DEF ShutdownBegin, Refresh, RuntimeWasAdopted, LastProcess, Blocked, LastClaim
<1>38. CASE ShutdownRuntime
  <2>1. /\ SameTask /\ snapshot'.phase = snapshot.phase
        /\ snapshot'.generation = snapshot.generation
        /\ snapshot'.attempt = snapshot.attempt
    BY <1>38 DEF ShutdownRuntime
  <2>2. live' = live \/ Ends(snapshot.process, {}) BY <1>38 DEF ShutdownRuntime
  <2>3. live' = live \/ (live # {} /\ live' = {}) BY <2>2, EndsLeaves
  <2>4. QED BY <2>1, <2>3
<1>39. CASE ShutdownFence
  BY <1>39 DEF ShutdownFence, LastClaim, Goto, Fence, FenceStale, Fault, Stale, Current
<1>40. CASE SaveShutdown BY <1>40 DEF SaveShutdown, Blocked, LastClaim
<1>41. CASE LoopEnds BY <1>41 DEF LoopEnds, Goto
<1>42. CASE Unwind BY <1>42 DEF Unwind, Fault
<1>43. CASE Crash BY <1>43 DEF Crash, Fault
<1>44. CASE HookLingers BY <1>44 DEF HookLingers, Fault
<1>45. CASE AckDeadline BY <1>45 DEF AckDeadline
<1>46. CASE Elapse BY <1>46 DEF Elapse
<1>47. CASE RivalClaim BY <1>47 DEF RivalClaim
<1>48. CASE RivalRelease BY <1>48 DEF RivalRelease
<1>49. ASSUME NEW r \in live, Register(r) PROVE HandsOver BY <1>49 DEF Register
<1>50. ASSUME NEW r \in live, GuardianKill(r) PROVE HandsOver
  BY <1>50 DEF GuardianKill, StopRequested, Ends
<1>51. ASSUME NEW r \in live, RuntimeExit(r) PROVE HandsOver
  BY <1>51 DEF RuntimeExit, Ends, StopRequested
<1>52. ASSUME NEW r \in live, HookStart(r) PROVE HandsOver
  BY <1>52 DEF HookStart, Durable, HookReturns, Names, HookAborts
<1>53. ASSUME NEW r \in live, HookAwait(r) PROVE HandsOver
  BY <1>53 DEF HookAwait, Durable, HookReturns, HookAborts, Names
<1> QED
  BY <1>1, <1>2, <1>3, <1>4, <1>5, <1>6, <1>7, <1>8, <1>9, <1>10, <1>11, <1>12, <1>13, <1>14,
     <1>15, <1>16, <1>17, <1>18, <1>19, <1>20, <1>21, <1>22, <1>23, <1>24, <1>25, <1>26, <1>27,
     <1>28, <1>29, <1>30, <1>31, <1>32, <1>33, <1>34, <1>35, <1>36, <1>37, <1>38, <1>39, <1>40,
     <1>41, <1>42, <1>43, <1>44, <1>45, <1>46, <1>47, <1>48, <1>49, <1>50, <1>51, <1>52, <1>53
  DEF Next, Supervise, Rotate, Environment, Guard

\* A step that stays in its phase is a stutter of the seat, or one of its moves
\* that keep the stage.
LEMMA StayingImplements == ASSUME Inv, BudgetFit, Stays PROVE [Seat!Next]_(Seat!vars)
<1>1. Stage' = Stage BY DEF Stays, Stage
<1>2. StageIs(snapshot.phase, snapshot.generation, Stage)
  BY StageOf DEF Inv, TypeOK, Snapshot
<1>3. /\ snapshot'.generation = snapshot.generation /\ snapshot'.attempt = snapshot.attempt
  BY DEF Stays
<1>4. CASE SameTask /\ live' = live
  <2>1. (task'.owner = "chain") = (task.owner = "chain") BY <1>4 DEF SameTask
  <2>2. UNCHANGED Seat!vars BY <1>1, <1>3, <1>4, <2>1 DEF Seat!vars
  <2>3. QED BY <2>2
<1>5. CASE SameTask /\ live # {} /\ live' = {}
  <2>1. (task'.owner = "chain") = (task.owner = "chain") BY <1>5 DEF SameTask
  <2>2. Seat!Leave BY <1>1, <1>3, <1>5, <2>1 DEF Seat!Leave
  <2>3. QED BY <2>2 DEF Seat!Next
<1>6. CASE task'.owner # "chain" /\ live' = live
  <2>1. (task'.owner = "chain") = FALSE BY <1>6
  <2>2. Seat!Lose BY <1>1, <1>3, <1>6, <2>1 DEF Seat!Lose
  <2>3. QED BY <2>2 DEF Seat!Next
<1>7. CASE snapshot.phase \in {"initial", "claiming"} /\ task'.owner = "chain" /\ live' = live
  <2>1. (task'.owner = "chain") = TRUE BY <1>7
  <2>2. Stage \in {"open", "released"} BY <1>2, <1>7 DEF StageIs, Observing
  <2>3. Seat!Acquire BY <1>1, <1>3, <1>7, <2>1, <2>2 DEF Seat!Acquire
  <2>4. QED BY <2>3 DEF Seat!Next
<1>8. CASE /\ snapshot.phase = "launching" /\ SameTask
           /\ live = {} /\ \E r : r.gen = snapshot.generation /\ live' = {r}
  <2>1. (task'.owner = "chain") = (task.owner = "chain") BY <1>8 DEF SameTask
  <2>2. Stage \in {"open", "granted"} BY <1>2, <1>8 DEF StageIs, Observing
  <2>3. \E r \in live' : r.gen = snapshot.generation /\ live' = {r} BY <1>8
  <2>4. Seat!Sit BY <1>1, <1>3, <1>8, <2>1, <2>2, <2>3 DEF Seat!Sit
  <2>5. QED BY <2>4 DEF Seat!Next
<1>9. QED BY <1>4, <1>5, <1>6, <1>7, <1>8 DEF Stays

\* A step that turns to another phase is a move of the seat from stage to stage,
\* or a stutter within one.
LEMMA TurningImplements == ASSUME Inv, Inv', Turns PROVE [Seat!Next]_(Seat!vars)
<1>1. PICK p, q, g, s, t :
        /\ p = snapshot.phase /\ q = snapshot'.phase /\ g = snapshot.generation
        /\ s = Stage /\ t = Stage'
  OBVIOUS
<1>2. StageIs(p, g, s) /\ StageIs(q, g, t)
  <2>1. StageIs(snapshot.phase, snapshot.generation, Stage)
    BY StageOf DEF Inv, TypeOK, Snapshot
  <2>2. StageIs(snapshot'.phase, snapshot'.generation, Stage')
    BY StageOfNext DEF Inv, TypeOK, Snapshot
  <2>3. QED BY <1>1, <2>1, <2>2 DEF Turns
<1>3. g \in Nat BY <1>1 DEF Inv, TypeOK, Snapshot
<1>4. UNCHANGED <<snapshot.generation, snapshot.attempt, live, task.owner = "chain">>
  BY DEF Turns, SameTask
<1>5. CASE s = t
  BY <1>1, <1>4, <1>5 DEF Seat!vars
<1>6. CASE t = "halted" /\ s \notin {"halted", "done"}
  <2>1. s \in Seat!Stages \ Seat!Final BY <1>2, <1>6 DEF StageIs, Seat!Stages, Seat!Final
  <2>2. Seat!Halt BY <1>1, <1>4, <1>6, <2>1 DEF Seat!Halt, Seat!Move
  <2>3. QED BY <2>2 DEF Seat!Next
<1>7. CASE s \in {"open", "offered"} /\ t = "serving"
  BY <1>1, <1>4, <1>7 DEF Seat!Next, Seat!Serve, Seat!Move
<1>8. CASE s = "serving" /\ t = "saved"
  BY <1>1, <1>4, <1>8 DEF Seat!Next, Seat!Save, Seat!Move
<1>9. CASE s = "saved" /\ t = "ended" /\ live = {}
  BY <1>1, <1>4, <1>9 DEF Seat!Next, Seat!End, Seat!Move
<1>10. CASE s = "ended" /\ t = "released" /\ task.owner # "chain"
  BY <1>1, <1>4, <1>10 DEF Seat!Next, Seat!Release, Seat!Move
<1>11. CASE s = "granted" /\ t = "offered"
  BY <1>1, <1>4, <1>11 DEF Seat!Next, Seat!Offer, Seat!Move
<1>12. CASE s = "serving" /\ t = "done" /\ live = {}
  BY <1>1, <1>4, <1>12 DEF Seat!Next, Seat!Finish, Seat!Move
<1>13. LeadsTo(p, q) BY <1>1 DEF Turns
<1>14. QED
  BY <1>1, <1>2, <1>3, <1>5, <1>6, <1>7, <1>8, <1>9, <1>10, <1>11, <1>12, <1>13
  DEF LeadsTo, StageIs, Observing

\* A step to the next generation or attempt grants the seat again.
LEMMA AdvancingImplements == ASSUME Inv, Inv', Advances PROVE [Seat!Next]_(Seat!vars)
<1>1. /\ StageIs(snapshot.phase, snapshot.generation, Stage)
      /\ StageIs(snapshot'.phase, snapshot'.generation, Stage')
  BY StageOf, StageOfNext DEF Inv, TypeOK, Snapshot
<1>2. snapshot.generation \in Nat /\ live' = live BY DEF Inv, TypeOK, Snapshot, Advances
<1>3. (task'.owner = "chain") = (task.owner = "chain") BY DEF Advances, SameTask
<1>4. Stage' = "granted" BY <1>1, <1>2 DEF Advances, StageIs, Observing
<1>5. CASE snapshot.phase = "claiming"
  <2>1. Stage = "released" BY <1>1, <1>5 DEF StageIs, Observing
  <2>2. snapshot'.generation = snapshot.generation + 1 /\ snapshot'.attempt = 0
    BY <1>5 DEF Advances
  <2>3. Seat!Grant BY <1>2, <1>3, <1>4, <2>1, <2>2 DEF Seat!Grant
  <2>4. QED BY <2>3 DEF Seat!Next
<1>6. CASE snapshot.phase # "claiming"
  <2>1. Stage = "granted" \/ (Stage = "offered" /\ live = {})
    BY <1>1, <1>2, <1>6 DEF Advances, StageIs, Observing
  <2>2. /\ snapshot'.generation = snapshot.generation
        /\ snapshot.attempt < RetryLimit /\ snapshot'.attempt = snapshot.attempt + 1
    BY <1>6 DEF Advances
  <2>3. Seat!Withdraw BY <1>2, <1>3, <1>4, <2>1, <2>2 DEF Seat!Withdraw
  <2>4. QED BY <2>3 DEF Seat!Next
<1>7. QED BY <1>5, <1>6

\* The seat starts open and empty.
LEMMA SeatStarts == Init => Seat!Init
<1> SUFFICES ASSUME Init PROVE Seat!Init
  OBVIOUS
<1>1. Stage = "open"
  <2>1. StageIs(snapshot.phase, snapshot.generation, Stage)
    BY TypeInit, StageOf DEF TypeOK, Snapshot
  <2>2. QED BY <2>1 DEF Init, StageIs, Observing
<1>2. (task.owner = "chain") = FALSE BY DEF Init
<1>3. QED BY <1>1, <1>2 DEF Init, Seat!Init

\* The chain hands one seat over, for every retry limit and any number of
\* generations: a session is saved before it is ended, its runtime is gone before
\* the task is given up, and the seat is taken only by a runtime of the
\* generation that acquired the task after that.
THEOREM SeatIsHandedOver == Spec => ImplementsHandoff
<1>1. Init => Seat!Init BY SeatStarts
<1>2. Inv /\ Chain /\ Inv' /\ [Next]_vars => [Seat!Next]_(Seat!vars)
  <2> SUFFICES ASSUME Inv, Chain, Inv', [Next]_vars PROVE [Seat!Next]_(Seat!vars)
    OBVIOUS
  <2>1. CASE Next
    BY <2>1, SeatMoves, StayingImplements, TurningImplements,
      AdvancingImplements DEF HandsOver, Chain
  <2>2. CASE UNCHANGED vars
    <3>1. Stage' = Stage BY <2>2 DEF vars, Stage
    <3>2. QED BY <2>2, <3>1 DEF vars, world, runtimeVars, Seat!vars
  <2>3. QED BY <2>1, <2>2
<1>3. QED BY <1>1, <1>2, AlwaysChain, PTL DEF Spec, ImplementsHandoff, Seat!Spec
=============================================================================
