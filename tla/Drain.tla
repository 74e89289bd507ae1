-------------------------------- MODULE Drain --------------------------------
(***************************************************************************)
(* How a session comes to be rotated.  The runtime works in turns, tools   *)
(* and subagents, and its hooks log that.  The supervisor folds the log    *)
(* into an activity, samples the usage without its lock, and then drains   *)
(* the session, gives the drain up for the runtime's own compaction, or    *)
(* commits the rotation.  The activity is as old as the sample took.       *)
(*                                                                         *)
(* The rotation itself, from the verified checkpoint to the acknowledged   *)
(* successor, is one step here; module Supervisor has its details, and     *)
(* leaves open what this module decides.                                   *)
(***************************************************************************)
EXTENDS Naturals, Sequences, FiniteSetsExt

CONSTANTS
  Tolerance,        \* non_confident_rotation_tolerance_ticks
  StableTurn,       \* the runtime supplies no turn_id: one id for every turn
  MaxOpen,          \* bound: starts of one kind that are not balanced
  MaxCompactions    \* bound: compactions of one generation

ASSUME ConstantsAssumption ==
  /\ Tolerance \in Nat \ {0}
  /\ StableTurn \in BOOLEAN
  /\ MaxOpen \in Nat /\ MaxCompactions \in Nat

VARIABLES
  snapshot,    \* the fields of SupervisorSnapshot that a drain depends on
  marker,      \* the .stop-request file, for the current generation
  ledger,      \* what a fold over the retained events yields now
  pc,          \* where the supervisor is in its tick
  activity,    \* what this tick has read of the ledger
  working,     \* what the runtime is really doing
  prompt,      \* a successor's prompt, let through and not yet logged
  uncut,       \* history: work under way when the activity was read, and still
  counted,     \* history: the last compaction an earlier tick has read
  released,    \* history: the compaction that last released a drain
  declined     \* history: ticks in a row that only the reader holds back

tickVars    == <<pc, activity>>
sessionVars == <<working, prompt>>
historyVars == <<counted, released, declined>>
vars == <<snapshot, marker, ledger, tickVars, sessionVars, uncut, historyVars>>

-----------------------------------------------------------------------------
Kinds  == {"turn", "tool", "agent"}
Phases == {"running", "warning", "draining", "checkpointing", "stopping"}

\* Context below the warning threshold, between the two, or above rotation.
Levels == {"low", "warn", "high"}

\* `successor' says that the generation is not the root's, `conversation' that
\* its conversation_id is known.  `consumed' is the place in the log of the last
\* compaction acted on; requests up to `invalidated' are taken back.
Snapshot ==
  [phase : Phases, successor : BOOLEAN, conversation : BOOLEAN,
   confident : BOOLEAN, streak : 0..Tolerance,
   pending : {"no", "grace", "over"}, consumed : Nat, invalidated : Nat]

\* `open' counts the starts that are not balanced, of every generation; `log' is
\* the signals of the managed conversation, in order; `recursive' tells that the
\* stable identity of a repeated Stop is among the events.
Ledger ==
  [open : [Kinds -> Nat], log : Seq({"request", "compaction"}),
   recursive : BOOLEAN]

\* `idle' is Quiescence.IDLE of a runtime that reports; `read' how much of the
\* log was there.
Activity   == [idle : BOOLEAN, read : Nat]
NoActivity == [idle |-> FALSE, read |-> 0]

\* From "release" on a tick holds the transition lock, which Stop takes as well.
Places == {"idle", "sample", "release", "clear", "gate", "rotate"}
Locked == {"release", "clear", "gate", "rotate"}

Init ==
  /\ snapshot = [phase |-> "running", successor |-> FALSE,
                 conversation |-> FALSE, confident |-> FALSE, streak |-> 0,
                 pending |-> "no", consumed |-> 0, invalidated |-> 0]
  /\ marker = "none"
  /\ ledger = [open |-> [k \in Kinds |-> 0], log |-> <<>>, recursive |-> FALSE]
  /\ pc = "idle" /\ activity = NoActivity
  /\ working = {} /\ prompt = FALSE
  /\ uncut = {} /\ counted = 0 /\ released = 0 /\ declined = 0

-----------------------------------------------------------------------------
(* The ledger: what appending an event does to the fold. *)

\* The place of the latest signal of one kind among the first n; 0 for none.
Latest(signal, n) == Max({0} \cup {i \in 1..n : ledger.log[i] = signal})

Compactions == Cardinality({i \in DOMAIN ledger.log : ledger.log[i] = "compaction"})

Started(k) == [ledger EXCEPT !.open[k] = @ + 1]

\* A finish without a start balances nothing.
Finished(k) == IF ledger.open[k] = 0 THEN ledger
               ELSE [ledger EXCEPT !.open[k] = @ - 1]

\* Faulty variant: the end of a turn also reaps subagents.
TurnIdleReapsAll ==
  [Finished("turn") EXCEPT !.open["tool"] = 0, !.open["agent"] = 0]

\* turn.idle closes the tools that were denied and so never finish.
TurnIdle == [Finished("turn") EXCEPT !.open["tool"] = 0]

Balanced == \A k \in Kinds : ledger.open[k] = 0

\* _quiescence and merge_project_safety, as far as the gates tell their answers
\* apart: `fresh' of events that are neither stale nor doubted, of hooks that
\* report, and `quiescent' the answer of the project probe.
Rests(fresh, quiescent) == fresh /\ quiescent /\ Balanced

-----------------------------------------------------------------------------
(* The runtime and its hooks *)

Appended(events) ==
  /\ ledger' = events
  /\ UNCHANGED <<snapshot, tickVars, historyVars>>

\* UserPromptSubmit of a successor is let through in RUNNING only; the hook
\* reads the snapshot, then logs.  The root's is only logged.
PromptLetThrough == snapshot.successor => snapshot.phase = "running"

PromptAllowed ==
  /\ "turn" \notin working /\ ~prompt
  /\ snapshot.successor /\ PromptLetThrough
  /\ prompt' = TRUE
  /\ UNCHANGED <<marker, working, uncut>>
  /\ Appended(ledger)

TurnStarts ==
  /\ "turn" \notin working /\ snapshot.phase # "stopping"
  /\ snapshot.successor => prompt
  /\ ledger.open["turn"] < MaxOpen
  /\ prompt' = FALSE /\ working' = working \cup {"turn"}
  /\ UNCHANGED <<marker, uncut>>
  /\ Appended(Started("turn"))

\* PreToolUse and SubagentStart come before the runtime goes on; a tool that is
\* denied never runs and never finishes.
Starts(k) ==
  /\ k \notin working
  /\ "turn" \in working \/ (k = "tool" /\ "agent" \in working)
  /\ ledger.open[k] < MaxOpen
  /\ working' \in {working \cup {k}} \cup (IF k = "tool" THEN {working} ELSE {})
  /\ UNCHANGED <<marker, prompt, uncut>>
  /\ Appended(Started(k))

\* What a turn or a subagent started as a tool ends before it does.
Ends(k) == working' = working \ {k} /\ uncut' = uncut \ {k}

Finishes(k) ==
  /\ k \in working
  /\ k = "agent" /\ "tool" \in working => "turn" \in working
  /\ Ends(k)
  /\ UNCHANGED <<marker, prompt>>
  /\ Appended(Finished(k))

\* Stop, under the transition lock.  Outside a drain it logs the end of the
\* turn; in a drain the first one asks for a hand-off and makes the runtime go
\* on, the next logs the end under an identity that repeats, later ones nothing.
Stop ==
  /\ "turn" \in working /\ pc \notin Locked
  /\ "tool" \in working => "agent" \in working
  /\ \/ /\ snapshot.phase \in {"running", "warning"}
        /\ Ends("turn") /\ Appended(TurnIdle)
        /\ UNCHANGED marker
     \/ /\ snapshot.phase \in {"draining", "checkpointing"} /\ marker = "none"
        /\ marker' = "asked"
        /\ Appended([ledger EXCEPT !.log = Append(@, "request")])
        /\ UNCHANGED <<working, uncut>>
     \/ /\ snapshot.phase \in {"draining", "checkpointing"} /\ marker # "none"
        /\ marker' = "idle"
        /\ Ends("turn")
        /\ Appended(IF marker = "idle" \/ ledger.recursive THEN ledger
                    ELSE [TurnIdle EXCEPT !.recursive = StableTurn])
  /\ UNCHANGED prompt

\* PreCompact announces that the runtime will reclaim its own context.
Compact ==
  /\ snapshot.phase # "stopping" /\ Compactions < MaxCompactions
  /\ UNCHANGED <<marker, sessionVars, uncut>>
  /\ Appended([ledger EXCEPT !.log = Append(@, "compaction")])

-----------------------------------------------------------------------------
(* The supervisor's tick *)

At(from, to) ==
  /\ pc = from /\ pc' = to
  /\ UNCHANGED <<ledger, activity, sessionVars, uncut, historyVars>>

\* The command folds the ledger and asks the project probe before it calls
\* tick().
Materialize ==
  /\ pc = "idle" /\ pc' = "sample"
  /\ snapshot.phase \in {"running", "warning", "draining"}
  /\ \E fresh, quiescent \in BOOLEAN :
       activity' = [idle |-> Rests(fresh, quiescent), read |-> Len(ledger.log)]
  /\ uncut' = working
  /\ UNCHANGED <<snapshot, marker, ledger, sessionVars, historyVars>>

\* Faulty variant: an announced compaction suppresses no threshold.
AfterThresholdsAtOnce(s, level) ==
  [s EXCEPT !.pending = "no",
    !.phase = CASE level = "high" /\ @ \in {"running", "warning"} -> "draining"
                [] level = "warn" /\ @ = "running" -> "warning"
                [] OTHER -> @]

\* _apply_usage_thresholds: after an announced compaction neither threshold
\* counts until a low sample or the end of the grace period.
AfterThresholds(s, level) ==
  IF s.pending = "grace" /\ level = "high" THEN s
  ELSE IF s.pending # "no" /\ level # "high" THEN [s EXCEPT !.pending = "no"]
  ELSE [s EXCEPT !.pending = "no",
    !.phase = CASE level = "high" /\ @ \in {"running", "warning"} -> "draining"
                [] level = "warn" /\ @ = "running" -> "warning"
                [] OTHER -> @]

Sampled(confident) ==
  [snapshot EXCEPT !.confident = confident,
     !.streak = IF confident THEN 0 ELSE IF @ < Tolerance THEN @ + 1 ELSE @]

\* _sample_usage, without the lock, and _observe_usage: a failure is an unknown
\* sample, which measures nothing; the reader may report any level.
ObserveUsage ==
  /\ At("sample", "release")
  /\ \/ snapshot' = Sampled(FALSE)
     \/ \E confident \in BOOLEAN, level \in Levels :
          snapshot' = AfterThresholds(
            [Sampled(confident) EXCEPT !.conversation = TRUE], level)
  /\ UNCHANGED marker

LastCompaction == Latest("compaction", activity.read)

\* A compaction of the managed conversation that no tick has acted on.
NewCompaction == snapshot.conversation /\ LastCompaction > snapshot.consumed

\* A drain given up for the compaction; `record' is the snapshot it leaves.
GivesUp(record) ==
  /\ pc = "release" /\ pc' = "clear"
  /\ snapshot' = [record EXCEPT !.consumed = LastCompaction,
                                !.phase = "running", !.pending = "grace"]
  /\ released' = LastCompaction
  /\ UNCHANGED <<marker, ledger, activity, sessionVars, uncut, counted, declined>>

\* Faulty variant: only a compaction that releases a drain is consumed.
ConsumeWhenReleasing ==
  \/ /\ NewCompaction /\ snapshot.phase = "draining"
     /\ GivesUp([snapshot EXCEPT !.invalidated = activity.read])
  \/ /\ ~(NewCompaction /\ snapshot.phase = "draining")
     /\ At("release", "gate") /\ UNCHANGED <<snapshot, marker>>

\* Faulty variant: a request made before the compaction stays valid.
ReleaseKeepingConsent ==
  \/ /\ NewCompaction /\ snapshot.phase = "draining"
     /\ GivesUp(snapshot)
  \/ /\ ~NewCompaction
     /\ At("release", "gate") /\ UNCHANGED <<snapshot, marker>>

\* _release_drain_on_self_compaction: the compaction is consumed in any phase;
\* in a drain it releases it and takes back every request read so far.
ReleaseDrain ==
  \/ /\ NewCompaction /\ snapshot.phase = "draining"
     /\ GivesUp([snapshot EXCEPT !.invalidated = activity.read])
  \/ /\ NewCompaction /\ snapshot.phase # "draining"
     /\ At("release", "gate")
     /\ snapshot' = [snapshot EXCEPT !.consumed = LastCompaction]
     /\ UNCHANGED marker
  \/ /\ ~NewCompaction
     /\ At("release", "gate") /\ UNCHANGED <<snapshot, marker>>

\* Clearing the marker is best effort.
ClearMarker ==
  /\ At("clear", "gate")
  /\ marker' \in {"none", marker}
  /\ UNCHANGED snapshot

\* The last request of the conversation is not one that was taken back.
Consented == Latest("request", activity.read) > snapshot.invalidated

\* Faulty variant: the gates wait for a confident sample, however long.
GatesConfident == Consented /\ activity.idle /\ snapshot.confident

Gates ==
  /\ Consented /\ activity.idle
  /\ snapshot.confident \/ snapshot.streak >= Tolerance

\* The end of the tick, or the commitment to rotate.  What this tick has read
\* of a known conversation is old for the next one.
Gate ==
  /\ pc = "gate"
  /\ IF snapshot.phase = "draining" /\ Gates
     THEN snapshot' = [snapshot EXCEPT !.phase = "checkpointing"] /\ pc' = "rotate"
     ELSE UNCHANGED snapshot /\ pc' = "idle"
  /\ counted' = IF snapshot.conversation THEN LastCompaction ELSE counted
  /\ declined' = IF snapshot.phase = "draining" /\ Consented /\ activity.idle
                    /\ ~Gates THEN declined + 1 ELSE 0
  /\ activity' = NoActivity /\ uncut' = {}
  /\ UNCHANGED <<marker, ledger, sessionVars, released>>

\* A checkpoint that is not verified leaves the phase for the next tick, which
\* looks at no gate; a verified one ends the runtime, hooks and all.
Rotate ==
  \/ /\ snapshot.phase = "checkpointing"
     /\ At("idle", "rotate") \/ At("rotate", "idle")
     /\ UNCHANGED <<snapshot, marker>>
  \/ /\ pc = "rotate" /\ pc' = "idle"
     /\ snapshot' = [snapshot EXCEPT !.phase = "stopping"]
     /\ working' = {} /\ prompt' = FALSE
     /\ UNCHANGED <<marker, ledger, activity, uncut, historyVars>>

Acknowledged(consumed) ==
  [phase |-> "running", successor |-> TRUE, conversation |-> TRUE,
   confident |-> FALSE, streak |-> 0, pending |-> "no",
   consumed |-> consumed, invalidated |-> 0]

\* Faulty variant: the record of consumed compactions outlives the generation.
FreshKeepingRecord == Acknowledged(snapshot.consumed)

Fresh == Acknowledged(0)

\* The successor acknowledged: a new conversation and a clean record, over the
\* same events.
Succeed ==
  /\ pc = "idle" /\ snapshot.phase = "stopping"
  /\ snapshot' = Fresh
  /\ marker' = "none"
  /\ ledger' = [ledger EXCEPT !.log = <<>>, !.recursive = FALSE]
  /\ counted' = 0 /\ released' = 0 /\ declined' = 0
  /\ UNCHANGED <<tickVars, sessionVars, uncut>>

\* The supervisor dies and is started again; the snapshot is all it has.
Crash ==
  /\ pc # "idle" /\ pc' = "idle"
  /\ activity' = NoActivity /\ uncut' = {} /\ declined' = 0
  /\ UNCHANGED <<snapshot, marker, ledger, sessionVars, counted, released>>

\* SELF_COMPACTION_GRACE_SECONDS pass.
GraceEnds ==
  /\ snapshot.pending = "grace"
  /\ snapshot' = [snapshot EXCEPT !.pending = "over"]
  /\ UNCHANGED <<marker, ledger, tickVars, sessionVars, uncut, historyVars>>

-----------------------------------------------------------------------------
Tick ==
  \/ Materialize \/ ObserveUsage \/ ReleaseDrain \/ ClearMarker
  \/ Gate \/ Rotate \/ Succeed

Hooks ==
  \/ PromptAllowed \/ TurnStarts \/ Stop \/ Compact
  \/ \E k \in {"tool", "agent"} : Starts(k) \/ Finishes(k)

Next == Tick \/ Hooks \/ Crash \/ GraceEnds

Spec == Init /\ [][Next]_vars

-----------------------------------------------------------------------------
\* Every variable has its type, and what the supervisor remembers of the log, or
\* has read of it, is in the log of this generation.
TypeOK ==
  /\ snapshot \in Snapshot /\ ledger \in Ledger
  /\ marker \in {"none", "asked", "idle"}
  /\ pc \in Places /\ activity \in Activity
  /\ {snapshot.consumed, snapshot.invalidated, activity.read}
       \subseteq 0..Len(ledger.log)
  /\ working \subseteq Kinds /\ uncut \subseteq working /\ prompt \in BOOLEAN
  /\ {counted, released, declined} \subseteq Nat

Commits  == snapshot.phase = "draining" /\ snapshot'.phase = "checkpointing"
Releases == snapshot.phase = "draining" /\ snapshot'.phase = "running"

\* A rotation is never committed over work that was under way when the tick read
\* its activity, whatever was denied, reaped, repeated or run by a subagent.
NothingReadIsCut == [][Commits => uncut = {}]_vars

\* Consent does not survive the compaction that released the drain in which it
\* was given: the request behind a rotation was logged after it.
ConsentIsYounger == [][Commits => Latest("request", activity.read) > released]_vars

\* One compaction releases at most one drain, and one that an earlier tick has
\* read while the conversation was known releases none.
ReleasesOnce ==
  [][Releases => LastCompaction > counted /\ released' > released]_vars

\* While an announced compaction is awaited no threshold is acted on: the drain
\* it released is not entered again, nor is a warning given.
GraceHolds ==
  [][snapshot.pending = "grace" => snapshot'.phase = "running"]_vars

\* A reader that gives no confident sample does not keep a session in a drain:
\* with consent and rest, fewer than Tolerance ticks in a row go by.
ReaderCannotPin == declined < Tolerance
=============================================================================
