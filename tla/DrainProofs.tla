----------------------------- MODULE DrainProofs -----------------------------
(***************************************************************************)
(* What a drain may do, for any tolerance, any number of turns, tools and  *)
(* compactions, and whether or not the runtime tells its turns apart.      *)
(***************************************************************************)
EXTENDS Drain, WellFoundedInduction, SequenceTheorems, TLAPS

-----------------------------------------------------------------------------
(* The inductive invariant                                                   *)

\* Work that is under way has a start that is not balanced, but for a tool that
\* the end of a turn has closed while a subagent runs it: the subagent has one.
OpenWork ==
  /\ "turn" \in working => ledger.open["turn"] > 0
  /\ "agent" \in working => ledger.open["agent"] > 0
  /\ "tool" \in working => ledger.open["tool"] > 0 \/ working # {"tool"}

\* An activity belongs to one tick, and one that was idle had nothing to cut.
ReadFit ==
  /\ activity.idle => uncut = {}
  /\ pc \in {"idle", "rotate"} => activity = NoActivity /\ uncut = {}
  /\ pc = "rotate" => snapshot.phase = "checkpointing"

\* What was released, and what a tick has read, is consumed; the requests of a
\* drain that was released are taken back up to the compaction and beyond.
ConsumedFit ==
  /\ snapshot.pending = "grace" => snapshot.phase = "running"
  /\ released <= snapshot.invalidated /\ released <= snapshot.consumed
  /\ counted <= snapshot.consumed
  /\ pc \in {"clear", "gate"} /\ snapshot.conversation => LastCompaction <= snapshot.consumed

\* Every tick that only the reader holds back has made the streak longer.
StreakFit ==
  /\ declined < Tolerance
  /\ pc \in {"idle", "sample", "rotate"} => declined <= snapshot.streak
  /\ pc \in {"release", "clear", "gate"} =>
       snapshot.confident \/ declined < snapshot.streak \/ snapshot.streak = Tolerance

Inv == TypeOK /\ OpenWork /\ ReadFit /\ ConsumedFit /\ StreakFit

-----------------------------------------------------------------------------
(* The log                                                                   *)

\* A set of naturals with a bound has a greatest.
LEMMA Greatest ==
  ASSUME NEW n \in Nat, NEW S, S \subseteq 0 .. n, S # {}
  PROVE  Max(S) \in S /\ \A y \in S : Max(S) >= y
<1> DEFINE T == {t \in 0 .. n : n - t \in S}
<1>1. T \subseteq Nat /\ T # {}
  <2>1. PICK x \in S : TRUE OBVIOUS
  <2>2. n - x \in 0 .. n /\ n - (n - x) = x BY <2>1
  <2>4. n - x \in T BY <2>1, <2>2
  <2>3. \A t \in T : t \in Nat OBVIOUS
  <2>5. QED BY <2>3, <2>4
<1>2. IsWellFoundedOn(OpToRel(<, Nat), Nat) BY NatLessThanWellFounded
<1>3. PICK t \in T : \A u \in T : ~ (<<u, t>> \in OpToRel(<, Nat)) BY <1>1, <1>2, WFMin
<1>4. \A u \in T : ~ (u < t) BY <1>1, <1>3 DEF OpToRel
<1>5. PICK x \in S : t = n - x
  <2>1. n - t \in S /\ t = n - (n - t) OBVIOUS
  <2>2. QED BY <2>1
<1>6. \A y \in S : x >= y
  <2>1. TAKE y \in S
  <2>2. n - y \in T /\ n - y \in Nat /\ t \in Nat BY <1>1
  <2>3. ~ (n - y < t) BY <1>4, <2>2
  <2>4. QED BY <1>5, <2>3
<1>7. QED BY <1>5, <1>6 DEF Max

\* The latest signal is found in what was read.
LEMMA LatestIsRead ==
  ASSUME NEW signal, NEW n \in Nat PROVE Latest(signal, n) \in 0 .. n
<1> DEFINE S == {0} \cup {i \in 1 .. n : ledger.log[i] = signal}
<1>1. S \subseteq 0 .. n /\ S # {} OBVIOUS
<1>2. Max(S) \in S BY <1>1, Greatest
<1>3. QED BY <1>1, <1>2 DEF Latest

\* What was read does not depend on what is logged later.
LEMMA LatestStays ==
  ASSUME NEW signal, NEW n \in Nat, \A i \in 1 .. n : ledger'.log[i] = ledger.log[i]
  PROVE  Latest(signal, n)' = Latest(signal, n)
<1>1. {i \in 1 .. n : ledger'.log[i] = signal} = {i \in 1 .. n : ledger.log[i] = signal}
  OBVIOUS
<1>2. QED BY <1>1 DEF Latest

-----------------------------------------------------------------------------
(* Types                                                                     *)

\* What an event leaves of the fold is a fold.
LEMMA LedgerOfEvent ==
  ASSUME TypeOK, NEW k \in Kinds
  PROVE  /\ Started(k) \in Ledger /\ Started(k).log = ledger.log
         /\ Finished(k) \in Ledger /\ Finished(k).log = ledger.log
         /\ TurnIdle \in Ledger /\ TurnIdle.log = ledger.log
         /\ \A signal \in {"request", "compaction"} :
              LET l == [ledger EXCEPT !.log = Append(@, signal)] IN
              /\ l \in Ledger /\ Len(l.log) = Len(ledger.log) + 1 /\ l.open = ledger.open
              /\ \A i \in 1 .. Len(ledger.log) : l.log[i] = ledger.log[i]
<1>1. ledger \in Ledger
      /\ ledger = [open |-> ledger.open, log |-> ledger.log, recursive |-> ledger.recursive]
  BY DEF TypeOK, Ledger
<1>2. \A j \in Kinds : /\ Started(j) \in Ledger /\ Started(j).log = ledger.log
                       /\ Finished(j) \in Ledger /\ Finished(j).log = ledger.log
  <2>1. TAKE j \in Kinds
  <2> DEFINE o(f) == [open |-> f, log |-> ledger.log, recursive |-> ledger.recursive]
  <2>2. ledger.open \in [Kinds -> Nat] /\ \A f \in [Kinds -> Nat] : o(f) \in Ledger
    BY <1>1 DEF Ledger
  <2>3. Started(j) = o([ledger.open EXCEPT ![j] = @ + 1]) BY <1>1 DEF Started
  <2>4. Finished(j) = ledger \/ Finished(j) = o([ledger.open EXCEPT ![j] = @ - 1])
    BY <1>1 DEF Finished, Ledger
  <2>5. [ledger.open EXCEPT ![j] = @ + 1] \in [Kinds -> Nat] BY <2>2
  <2>6. ledger.open[j] # 0 => [ledger.open EXCEPT ![j] = @ - 1] \in [Kinds -> Nat] BY <2>2
  <2>7. Finished(j) \in Ledger /\ Finished(j).log = ledger.log
    BY <1>1, <2>2, <2>4, <2>6 DEF Finished
  <2>8. QED BY <2>2, <2>3, <2>5, <2>7
<1>3. TurnIdle \in Ledger /\ TurnIdle.log = ledger.log
  <2>1. "turn" \in Kinds BY DEF Kinds
  <2>2. Finished("turn") \in Ledger /\ Finished("turn").log = ledger.log BY <1>2, <2>1
  <2>3. QED BY <2>2 DEF TurnIdle, Ledger
<1>4. ASSUME NEW signal \in {"request", "compaction"}
      PROVE  LET l == [ledger EXCEPT !.log = Append(@, signal)] IN
             /\ l \in Ledger /\ Len(l.log) = Len(ledger.log) + 1 /\ l.open = ledger.open
             /\ \A i \in 1 .. Len(ledger.log) : l.log[i] = ledger.log[i]
  <2> DEFINE g == Append(ledger.log, signal)
  <2>1. ledger.log \in Seq({"request", "compaction"}) BY <1>1 DEF Ledger
  <2>2. g \in Seq({"request", "compaction"}) /\ Len(g) = Len(ledger.log) + 1
        /\ \A i \in 1 .. Len(ledger.log) : g[i] = ledger.log[i]
    BY <2>1
  <2> HIDE DEF g
  <2>3. [ledger EXCEPT !.log = g] = [open |-> ledger.open, log |-> g, recursive |-> ledger.recursive]
    BY <1>1
  <2>4. [ledger EXCEPT !.log = g] \in Ledger BY <1>1, <2>2, <2>3 DEF Ledger
  <2>5. QED BY <2>2, <2>3, <2>4 DEF g
<1>5. QED BY <1>2, <1>3, <1>4

\* What the hooks do to the log: it grows by one signal, or stays.
HooksLog ==
  /\ ledger' \in Ledger /\ Len(ledger.log) <= Len(ledger'.log)
  /\ \A i \in 1 .. Len(ledger.log) : ledger'.log[i] = ledger.log[i]
  /\ UNCHANGED <<snapshot, pc, activity, counted, released, declined>>

\* No hook takes a signal out of the log, or moves one.
LEMMA HooksAppend == ASSUME TypeOK, Hooks PROVE HooksLog
<1> USE DEF Appended, tickVars, historyVars
<1>1. ASSUME NEW l, l \in Ledger, l.log = ledger.log, Appended(l) PROVE HooksLog
  BY <1>1 DEF HooksLog, TypeOK, Ledger
<1>2. ASSUME NEW signal \in {"request", "compaction"},
             Appended([ledger EXCEPT !.log = Append(@, signal)])
      PROVE  HooksLog
  <2>1. ledger \in Ledger /\ "turn" \in Kinds BY DEF TypeOK, Kinds
  <2>2. LET l == [ledger EXCEPT !.log = Append(@, signal)] IN
        /\ l \in Ledger /\ Len(l.log) = Len(ledger.log) + 1
        /\ \A i \in 1 .. Len(ledger.log) : l.log[i] = ledger.log[i]
    BY <2>1, LedgerOfEvent
  <2>3. Len(ledger.log) \in Nat BY <2>1 DEF Ledger
  <2>4. QED BY <1>2, <2>2, <2>3 DEF HooksLog
<1>3. ledger \in Ledger BY DEF TypeOK
<1>4. CASE PromptAllowed BY <1>1, <1>3, <1>4 DEF PromptAllowed
<1>5. CASE TurnStarts
  <2>1. "turn" \in Kinds BY DEF Kinds
  <2>2. QED BY <1>1, <1>5, <2>1, LedgerOfEvent DEF TurnStarts
<1>6. CASE Stop
  <2>1. "turn" \in Kinds BY DEF Kinds
  <2>2. TurnIdle \in Ledger /\ TurnIdle.log = ledger.log BY <2>1, LedgerOfEvent
  <2>3. [TurnIdle EXCEPT !.recursive = StableTurn] \in Ledger
        /\ [TurnIdle EXCEPT !.recursive = StableTurn].log = ledger.log
    BY <2>2, ConstantsAssumption DEF Ledger
  <2>4. Appended(TurnIdle) => HooksLog BY <1>1, <2>2
  <2>5. Appended([TurnIdle EXCEPT !.recursive = StableTurn]) => HooksLog BY <1>1, <2>3
  <2>6. Appended(ledger) => HooksLog BY <1>1, <1>3
  <2>7. Appended([ledger EXCEPT !.log = Append(@, "request")]) => HooksLog BY <1>2
  <2>8. \/ Appended(TurnIdle) \/ Appended([TurnIdle EXCEPT !.recursive = StableTurn])
        \/ Appended(ledger) \/ Appended([ledger EXCEPT !.log = Append(@, "request")])
    BY <1>6 DEF Stop
  <2>9. QED BY <2>4, <2>5, <2>6, <2>7, <2>8
<1>7. CASE Compact BY <1>2, <1>7 DEF Compact
<1>8. ASSUME NEW k \in {"tool", "agent"}, Starts(k) \/ Finishes(k) PROVE HooksLog
  <2>1. k \in Kinds BY DEF Kinds
  <2>2. QED BY <1>1, <1>8, <2>1, LedgerOfEvent DEF Starts, Finishes
<1>9. QED BY <1>4, <1>5, <1>6, <1>7, <1>8 DEF Hooks

\* The hooks keep to the types of what they write.
LEMMA HooksWork ==
  ASSUME TypeOK, Hooks
  PROVE  /\ marker' \in {"none", "asked", "idle"} /\ working' \subseteq Kinds
         /\ uncut' \subseteq working' /\ uncut' \subseteq uncut /\ prompt' \in BOOLEAN
<1> USE DEF TypeOK, Kinds
<1>1. CASE PromptAllowed BY <1>1 DEF PromptAllowed
<1>2. CASE TurnStarts BY <1>2 DEF TurnStarts
<1>3. CASE Stop BY <1>3 DEF Stop, Ends
<1>4. CASE Compact BY <1>4 DEF Compact, sessionVars
<1>5. ASSUME NEW k \in {"tool", "agent"}, Starts(k)
      PROVE  /\ marker' \in {"none", "asked", "idle"} /\ working' \subseteq Kinds
             /\ uncut' \subseteq working' /\ uncut' \subseteq uncut /\ prompt' \in BOOLEAN
  BY <1>5 DEF Starts
<1>6. ASSUME NEW k \in {"tool", "agent"}, Finishes(k)
      PROVE  /\ marker' \in {"none", "asked", "idle"} /\ working' \subseteq Kinds
             /\ uncut' \subseteq working' /\ uncut' \subseteq uncut /\ prompt' \in BOOLEAN
  BY <1>6 DEF Finishes, Ends
<1>7. QED BY <1>1, <1>2, <1>3, <1>4, <1>5, <1>6 DEF Hooks

\* What a tick does to the snapshot, sampling included.
LEMMA SnapshotOfSample ==
  ASSUME TypeOK, NEW confident \in BOOLEAN, NEW level \in Levels,
         NEW s, s \in {Sampled(FALSE),
                       AfterThresholds([Sampled(confident) EXCEPT !.conversation = TRUE], level)}
  PROVE  /\ s \in Snapshot
         /\ s.consumed = snapshot.consumed /\ s.invalidated = snapshot.invalidated
         /\ s.confident \/ s.streak = IF snapshot.streak < Tolerance THEN snapshot.streak + 1
                                      ELSE snapshot.streak
         /\ snapshot.phase \in {"running", "warning", "draining"} =>
              s.phase \in {"running", "warning", "draining"}
         /\ snapshot.phase \notin {"running", "warning"} => s.phase = snapshot.phase
         /\ snapshot.pending = "grace" => s.phase = snapshot.phase
         /\ s.pending = "grace" => snapshot.pending = "grace"
<1> DEFINE q == Sampled(confident)
<1>1. snapshot \in Snapshot /\ Tolerance \in Nat BY ConstantsAssumption DEF TypeOK
<1>2. ASSUME NEW b \in BOOLEAN, NEW t, t = Sampled(b)
      PROVE  /\ t \in Snapshot /\ t.phase = snapshot.phase /\ t.pending = snapshot.pending
             /\ t.consumed = snapshot.consumed /\ t.invalidated = snapshot.invalidated
             /\ t.confident \/ t.streak = IF snapshot.streak < Tolerance THEN snapshot.streak + 1
                                          ELSE snapshot.streak
  <2>1. snapshot.streak \in 0 .. Tolerance BY <1>1 DEF Snapshot
  <2>2. PICK n : n = IF b THEN 0 ELSE IF snapshot.streak < Tolerance THEN snapshot.streak + 1
                                      ELSE snapshot.streak
    OBVIOUS
  <2>3. n \in 0 .. Tolerance BY <1>1, <2>1, <2>2
  <2>4. t = [snapshot EXCEPT !.confident = b, !.streak = n] BY <1>2, <2>2 DEF Sampled
  <2>5. QED BY <1>1, <2>2, <2>3, <2>4 DEF Snapshot
<1>3. CASE s = Sampled(FALSE) BY <1>2, <1>3
<1>4. CASE s = AfterThresholds([Sampled(confident) EXCEPT !.conversation = TRUE], level)
  <2>1. PICK t : t = [Sampled(confident) EXCEPT !.conversation = TRUE] OBVIOUS
  <2>2. /\ t \in Snapshot /\ t.phase = snapshot.phase /\ t.pending = snapshot.pending
        /\ t.consumed = snapshot.consumed /\ t.invalidated = snapshot.invalidated
        /\ t.confident \/ t.streak = IF snapshot.streak < Tolerance THEN snapshot.streak + 1
                                     ELSE snapshot.streak
    <3>1. PICK u : u = Sampled(confident) OBVIOUS
    <3>2. /\ u \in Snapshot /\ u.phase = snapshot.phase /\ u.pending = snapshot.pending
          /\ u.consumed = snapshot.consumed /\ u.invalidated = snapshot.invalidated
          /\ u.confident \/ u.streak = IF snapshot.streak < Tolerance THEN snapshot.streak + 1
                                       ELSE snapshot.streak
      BY <1>2, <3>1
    <3>3. t = [u EXCEPT !.conversation = TRUE] BY <2>1, <3>1
    <3>4. QED BY <3>2, <3>3 DEF Snapshot
  <2>3. s = AfterThresholds(t, level) BY <1>4, <2>1
  <2>4. \/ s = t /\ (t.pending = "grace" => level = "high")
        \/ /\ s = [t EXCEPT !.pending = "no"]
           /\ t.pending # "no"
        \/ \E ph \in Phases :
             /\ s = [t EXCEPT !.pending = "no", !.phase = ph] /\ t.pending # "grace"
             /\ ph = t.phase \/ (t.phase \in {"running", "warning"} /\ ph \in {"warning", "draining"})
    <3>1. t.phase \in Phases BY <2>2 DEF Snapshot
    <3>2. CASE t.pending = "grace" /\ level = "high" BY <2>3, <3>2 DEF AfterThresholds
    <3>3. CASE ~(t.pending = "grace" /\ level = "high") /\ t.pending # "no" /\ level # "high"
      BY <2>3, <3>3 DEF AfterThresholds
    <3>4. CASE t.pending # "grace" /\ ~(t.pending # "no" /\ level # "high")
      <4>1. PICK ph : ph = CASE level = "high" /\ t.phase \in {"running", "warning"} -> "draining"
                             [] level = "warn" /\ t.phase = "running" -> "warning"
                             [] OTHER -> t.phase
        OBVIOUS
      <4>2. s = [t EXCEPT !.pending = "no", !.phase = ph]
        BY <2>2, <2>3, <3>4, <4>1 DEF AfterThresholds, Snapshot
      <4>3. ph = t.phase \/ (t.phase \in {"running", "warning"} /\ ph \in {"warning", "draining"})
        BY <4>1
      <4>4. ph \in Phases BY <3>1, <4>3 DEF Phases
      <4>5. QED BY <3>4, <4>2, <4>3, <4>4
    <3>5. QED BY <3>2, <3>3, <3>4
  <2>5. QED BY <2>2, <2>4 DEF Snapshot
<1>5. QED BY <1>3, <1>4

\* The types are kept.
LEMMA TypeStep == Inv /\ [Next]_vars => TypeOK'
<1> SUFFICES ASSUME Inv, [Next]_vars PROVE TypeOK' OBVIOUS
<1>0. TypeOK BY DEF Inv
<1>1. /\ snapshot \in Snapshot /\ ledger \in Ledger /\ Len(ledger.log) \in Nat
      /\ activity \in Activity /\ activity.read \in 0 .. Len(ledger.log)
      /\ NoActivity \in Activity /\ NoActivity.read = 0
  BY <1>0 DEF TypeOK, Ledger, NoActivity, Activity
<1>2. LastCompaction \in 0 .. activity.read
  BY <1>1, LatestIsRead DEF LastCompaction
<1>3. CASE Hooks
  <2>1. HooksLog BY <1>0, <1>3, HooksAppend
  <2>2. /\ marker' \in {"none", "asked", "idle"} /\ working' \subseteq Kinds
        /\ uncut' \subseteq working' /\ prompt' \in BOOLEAN
    BY <1>0, <1>3, HooksWork
  <2>3. Len(ledger'.log) \in Nat /\ Len(ledger.log) <= Len(ledger'.log)
    BY <2>1 DEF HooksLog, Ledger
  <2>4. QED BY <1>0, <1>1, <2>1, <2>2, <2>3 DEF TypeOK, HooksLog
<1>4. CASE Materialize
  <2>1. PICK fresh \in BOOLEAN, quiescent \in BOOLEAN :
          activity' = [idle |-> Rests(fresh, quiescent), read |-> Len(ledger.log)]
    BY <1>4 DEF Materialize
  <2>2. Rests(fresh, quiescent) \in BOOLEAN BY DEF Rests, Balanced
  <2>3. activity' \in Activity /\ activity'.read = Len(ledger.log)
    BY <1>1, <2>1, <2>2 DEF Activity
  <2>4. QED BY <1>0, <1>1, <1>4, <2>3 DEF TypeOK, Materialize, Places, sessionVars, historyVars
<1>5. CASE ObserveUsage
  <2>1. PICK confident \in BOOLEAN, level \in Levels :
          snapshot' \in {Sampled(FALSE),
                         AfterThresholds([Sampled(confident) EXCEPT !.conversation = TRUE], level)}
    BY <1>5 DEF ObserveUsage, Levels
  <2>2. snapshot' \in Snapshot /\ snapshot'.consumed = snapshot.consumed
        /\ snapshot'.invalidated = snapshot.invalidated
    BY <1>0, <2>1, SnapshotOfSample
  <2>3. QED BY <1>0, <1>5, <2>2 DEF TypeOK, ObserveUsage, At, Places, sessionVars, historyVars
<1>6. CASE ReleaseDrain
  <2>1. snapshot' \in Snapshot /\ {snapshot'.consumed, snapshot'.invalidated} \subseteq 0 .. Len(ledger.log)
        /\ released' \in Nat
    <3>1. CASE NewCompaction /\ snapshot.phase = "draining" /\
               GivesUp([snapshot EXCEPT !.invalidated = activity.read])
      <4>1. LastCompaction \in Nat /\ LastCompaction \in 0 .. Len(ledger.log)
        BY <1>1, <1>2
      <4>2. snapshot' = [snapshot EXCEPT !.invalidated = activity.read, !.consumed = LastCompaction,
                                         !.phase = "running", !.pending = "grace"]
            /\ released' = LastCompaction
        BY <1>1, <3>1 DEF GivesUp, Snapshot
      <4>3. activity.read \in Nat BY <1>1
      <4>4. snapshot' \in Snapshot
        BY <1>1, <4>1, <4>2, <4>3 DEF Snapshot, Phases
      <4>5. snapshot'.consumed = LastCompaction /\ snapshot'.invalidated = activity.read
        BY <1>1, <4>2 DEF Snapshot
      <4>6. QED BY <1>1, <4>1, <4>2, <4>4, <4>5
    <3>2. CASE NewCompaction /\ At("release", "gate")
               /\ snapshot' = [snapshot EXCEPT !.consumed = LastCompaction]
      BY <1>0, <1>1, <1>2, <3>2 DEF At, Snapshot, TypeOK, historyVars
    <3>3. CASE At("release", "gate") /\ UNCHANGED snapshot
      BY <1>0, <1>1, <3>3 DEF At, TypeOK, historyVars
    <3>4. QED BY <1>6, <3>1, <3>2, <3>3 DEF ReleaseDrain
  <2>2. /\ UNCHANGED <<marker, ledger, activity, working, prompt, uncut, counted, declined>>
        /\ pc' \in Places
    BY <1>6 DEF ReleaseDrain, GivesUp, At, sessionVars, historyVars, Places
  <2>3. QED BY <1>0, <1>1, <2>1, <2>2 DEF TypeOK
<1>7. CASE ClearMarker
  BY <1>0, <1>7 DEF ClearMarker, At, TypeOK, Places, sessionVars, historyVars
<1>8. CASE Gate
  <2>1. snapshot' \in Snapshot /\ snapshot'.consumed = snapshot.consumed
        /\ snapshot'.invalidated = snapshot.invalidated /\ pc' \in Places
    BY <1>1, <1>8 DEF Gate, Snapshot, Phases, Places
  <2>2. {counted', released', declined'} \subseteq Nat
    BY <1>0, <1>2, <1>1, <1>8 DEF Gate, TypeOK
  <2>3. QED BY <1>0, <1>1, <1>8, <2>1, <2>2 DEF Gate, TypeOK, sessionVars
<1>9. CASE Rotate
  <2>1. snapshot' \in Snapshot /\ snapshot'.consumed = snapshot.consumed
        /\ snapshot'.invalidated = snapshot.invalidated /\ pc' \in Places
    BY <1>1, <1>9 DEF Rotate, At, Snapshot, Phases, Places
  <2>2. working' \subseteq Kinds /\ uncut' \subseteq working' /\ prompt' \in BOOLEAN
    <3>1. CASE UNCHANGED sessionVars /\ UNCHANGED uncut BY <1>0, <3>1 DEF TypeOK, sessionVars
    <3>2. CASE pc = "rotate" /\ working' = {} /\ prompt' = FALSE /\ UNCHANGED uncut
      BY <3>2 DEF Inv, ReadFit
    <3>3. QED BY <1>9, <3>1, <3>2 DEF Rotate, At
  <2>3. UNCHANGED <<marker, ledger, activity, counted, released, declined>>
    BY <1>9 DEF Rotate, At, historyVars
  <2>4. QED BY <1>0, <1>1, <2>1, <2>2, <2>3 DEF TypeOK
<1>10. CASE Succeed
  <2>1. snapshot' \in Snapshot /\ snapshot'.consumed = 0 /\ snapshot'.invalidated = 0
    BY <1>10, ConstantsAssumption DEF Succeed, Fresh, Acknowledged, Snapshot, Phases
  <2>2. ledger' \in Ledger /\ Len(ledger'.log) = 0
    <3>1. ledger = [open |-> ledger.open, log |-> ledger.log, recursive |-> ledger.recursive]
      BY <1>1 DEF Ledger
    <3>2. ledger' = [open |-> ledger.open, log |-> <<>>, recursive |-> FALSE]
      BY <1>10, <3>1 DEF Succeed
    <3>3. <<>> \in Seq({"request", "compaction"}) OBVIOUS
    <3>4. QED BY <1>1, <3>2, <3>3 DEF Ledger
  <2>3. activity = NoActivity BY <1>10 DEF Succeed, Inv, ReadFit
  <2>4. QED BY <1>0, <1>1, <1>10, <2>1, <2>2, <2>3 DEF Succeed, TypeOK, tickVars, sessionVars
<1>11. CASE Crash
  BY <1>0, <1>1, <1>11 DEF Crash, TypeOK, Places, sessionVars
<1>12. CASE GraceEnds
  <2>1. snapshot' \in Snapshot /\ snapshot'.consumed = snapshot.consumed
        /\ snapshot'.invalidated = snapshot.invalidated
    BY <1>1, <1>12 DEF GraceEnds, Snapshot
  <2>2. QED BY <1>0, <1>12, <2>1 DEF GraceEnds, TypeOK, tickVars, sessionVars, historyVars
<1>13. CASE UNCHANGED vars
  BY <1>0, <1>13 DEF vars, TypeOK, tickVars, sessionVars, historyVars
<1>14. QED
  BY <1>3, <1>4, <1>5, <1>6, <1>7, <1>8, <1>9, <1>10, <1>11, <1>12, <1>13 DEF Next, Tick

-----------------------------------------------------------------------------
(* Work that is under way                                                    *)

\* A start is balanced only by the finish of its own kind, but for the tools of a
\* turn that ends.
LEMMA OpenStep == Inv /\ [Next]_vars => OpenWork'
<1> SUFFICES ASSUME Inv, [Next]_vars PROVE OpenWork' OBVIOUS
<1>1. TypeOK /\ OpenWork BY DEF Inv
<1>2. /\ ledger = [open |-> ledger.open, log |-> ledger.log, recursive |-> ledger.recursive]
      /\ ledger.open \in [Kinds -> Nat] /\ working \subseteq Kinds
  BY <1>1 DEF TypeOK, Ledger
<1>3. ASSUME UNCHANGED working, ledger'.open = ledger.open PROVE OpenWork'
  BY <1>1, <1>3 DEF OpenWork
<1>4. CASE PromptAllowed BY <1>3, <1>4 DEF PromptAllowed, Appended
<1>5. CASE TurnStarts
  <2>1. ledger'.open = [ledger.open EXCEPT !["turn"] = @ + 1]
    BY <1>2, <1>5 DEF TurnStarts, Appended, Started
  <2>2. working' = working \cup {"turn"} BY <1>5 DEF TurnStarts
  <2>3. QED BY <1>1, <1>2, <2>1, <2>2 DEF OpenWork, Kinds
<1>6. CASE Stop
  <2>1. "tool" \in working => "agent" \in working BY <1>6 DEF Stop
  <2>2. CASE UNCHANGED working /\ ledger' = [ledger EXCEPT !.log = Append(@, "request")]
    BY <1>2, <1>3, <2>2
  <2>3. CASE working' = working \ {"turn"} /\ ledger'.open["agent"] = ledger.open["agent"]
    BY <1>1, <2>1, <2>3 DEF OpenWork
  <2>4. TurnIdle.open["agent"] = ledger.open["agent"]
    BY <1>2 DEF TurnIdle, Finished, Kinds
  <2>5. [TurnIdle EXCEPT !.recursive = StableTurn].open = TurnIdle.open
    <3>1. "turn" \in Kinds BY DEF Kinds
    <3>2. TurnIdle \in Ledger BY <1>1, <3>1, LedgerOfEvent
    <3>3. QED BY <3>2 DEF Ledger
  <2>6. \/ UNCHANGED working /\ ledger' = [ledger EXCEPT !.log = Append(@, "request")]
        \/ /\ working' = working \ {"turn"}
           /\ ledger' \in {TurnIdle, ledger, [TurnIdle EXCEPT !.recursive = StableTurn]}
    BY <1>6 DEF Stop, Appended, Ends
  <2>7. QED BY <2>2, <2>3, <2>4, <2>5, <2>6
<1>7. CASE Compact
  <2>1. ledger' = [ledger EXCEPT !.log = Append(@, "compaction")] /\ UNCHANGED working
    BY <1>7 DEF Compact, Appended, sessionVars
  <2>2. ledger'.open = ledger.open BY <1>2, <2>1
  <2>3. QED BY <1>3, <2>1, <2>2
<1>8. ASSUME NEW k \in {"tool", "agent"}, Starts(k) PROVE OpenWork'
  <2>1. ledger'.open = [ledger.open EXCEPT ![k] = @ + 1]
    BY <1>2, <1>8 DEF Starts, Appended, Started
  <2>2. working' \in {working, working \cup {k}} /\ ("turn" \in working \/ "agent" \in working)
    BY <1>8 DEF Starts
  <2>3. QED BY <1>1, <1>2, <2>1, <2>2 DEF OpenWork, Kinds
<1>9. ASSUME NEW k \in {"tool", "agent"}, Finishes(k) PROVE OpenWork'
  <2>1. \A j \in Kinds : j # k => ledger'.open[j] = ledger.open[j]
    BY <1>2, <1>9 DEF Finishes, Appended, Finished
  <2>2. working' = working \ {k} /\ (k = "agent" /\ "tool" \in working => "turn" \in working)
    BY <1>9 DEF Finishes, Ends
  <2>3. QED BY <1>1, <1>2, <2>1, <2>2 DEF OpenWork, Kinds
<1>10. CASE Tick
  <2>1. CASE UNCHANGED <<working, ledger>> BY <1>3, <2>1
  <2>2. CASE Rotate /\ working' = {} BY <2>2 DEF OpenWork
  <2>3. CASE Succeed
    <3>1. ledger' = [ledger EXCEPT !.log = <<>>, !.recursive = FALSE] /\ UNCHANGED working
      BY <2>3 DEF Succeed, sessionVars
    <3>2. ledger'.open = ledger.open BY <1>2, <3>1
    <3>3. QED BY <1>3, <3>1, <3>2
  <2>4. Materialize \/ ObserveUsage \/ ReleaseDrain \/ ClearMarker \/ Gate => UNCHANGED <<working, ledger>>
    BY DEF Materialize, ObserveUsage, ReleaseDrain, GivesUp, ClearMarker, Gate, At, sessionVars
  <2>5. Rotate => UNCHANGED <<working, ledger>> \/ working' = {}
    BY DEF Rotate, At, sessionVars
  <2>6. QED BY <1>10, <2>1, <2>2, <2>3, <2>4, <2>5 DEF Tick
<1>11. Crash \/ GraceEnds \/ UNCHANGED vars => UNCHANGED <<working, ledger>>
  BY DEF Crash, GraceEnds, vars, sessionVars
<1>12. QED BY <1>3, <1>4, <1>5, <1>6, <1>7, <1>8, <1>9, <1>10, <1>11 DEF Next, Hooks

\* An activity that was idle stays one that has nothing to cut.
LEMMA ReadStep == Inv /\ [Next]_vars => ReadFit'
<1> SUFFICES ASSUME Inv, [Next]_vars PROVE ReadFit' OBVIOUS
<1>1. TypeOK /\ OpenWork /\ ReadFit BY DEF Inv
<1>2. CASE Hooks
  <2>1. uncut' \subseteq uncut /\ HooksLog BY <1>1, <1>2, HooksWork, HooksAppend
  <2>2. QED BY <1>1, <2>1 DEF ReadFit, HooksLog
<1>3. CASE Materialize
  <2>1. PICK fresh \in BOOLEAN, quiescent \in BOOLEAN :
          activity' = [idle |-> Rests(fresh, quiescent), read |-> Len(ledger.log)]
    BY <1>3 DEF Materialize
  <2>2. Rests(fresh, quiescent) => working = {}
    BY <1>1 DEF Rests, Balanced, OpenWork, TypeOK, Kinds
  <2>3. QED BY <1>3, <2>1, <2>2 DEF Materialize, ReadFit
<1>4. CASE ObserveUsage \/ ReleaseDrain \/ ClearMarker
  BY <1>1, <1>4 DEF ObserveUsage, ReleaseDrain, GivesUp, ClearMarker, At, ReadFit
<1>5. CASE Gate
  <2>1. pc' = "rotate" => snapshot'.phase = "checkpointing"
    BY <1>1, <1>5 DEF Gate, TypeOK, Snapshot
  <2>2. QED BY <1>5, <2>1 DEF Gate, ReadFit, NoActivity
<1>6. CASE Rotate BY <1>1, <1>6 DEF Rotate, At, ReadFit
<1>7. CASE Succeed BY <1>1, <1>7 DEF Succeed, ReadFit, tickVars
<1>8. CASE Crash BY <1>8 DEF Crash, ReadFit, NoActivity
<1>9. CASE GraceEnds
  <2>1. snapshot'.phase = snapshot.phase BY <1>1, <1>9 DEF GraceEnds, TypeOK, Snapshot
  <2>2. QED BY <1>1, <1>9, <2>1 DEF GraceEnds, ReadFit, tickVars
<1>10. CASE UNCHANGED vars BY <1>1, <1>10 DEF vars, ReadFit, tickVars
<1>11. QED
  BY <1>2, <1>3, <1>4, <1>5, <1>6, <1>7, <1>8, <1>9, <1>10 DEF Next, Tick

-----------------------------------------------------------------------------
(* Compactions and consent                                                   *)

\* A step of the tick after the sample: what it has read is consumed.
LEMMA Consumes ==
  ASSUME Inv, ReleaseDrain
  PROVE  /\ snapshot'.conversation => LastCompaction <= snapshot'.consumed
         /\ snapshot.consumed <= snapshot'.consumed
         /\ snapshot'.consumed \in Nat /\ snapshot'.invalidated \in Nat
         /\ \/ /\ UNCHANGED <<released, marker>>
               /\ snapshot'.invalidated = snapshot.invalidated /\ pc' = "gate"
               /\ snapshot'.phase = snapshot.phase /\ snapshot'.pending = snapshot.pending
            \/ /\ released' = LastCompaction /\ LastCompaction > snapshot.consumed
               /\ snapshot'.phase = "running" /\ snapshot'.consumed = LastCompaction
               /\ snapshot'.invalidated = activity.read
         /\ snapshot'.streak = snapshot.streak /\ snapshot'.confident = snapshot.confident
         /\ UNCHANGED <<ledger, activity, counted, declined>>
         /\ pc = "release" /\ pc' \in {"clear", "gate"}
<1>1. snapshot \in Snapshot /\ activity.read \in Nat
  BY DEF Inv, TypeOK, Activity
<1>2. LastCompaction \in 0 .. activity.read BY <1>1, LatestIsRead DEF LastCompaction
<1>3. PICK l \in Nat : l = LastCompaction BY <1>1, <1>2
<1>4. snapshot.consumed \in Nat /\ snapshot.invalidated \in Nat /\ snapshot.conversation \in BOOLEAN
  BY <1>1 DEF Snapshot
<1>5. CASE NewCompaction /\ GivesUp([snapshot EXCEPT !.invalidated = activity.read])
  <2>1. snapshot' = [snapshot EXCEPT !.invalidated = activity.read, !.consumed = l,
                                     !.phase = "running", !.pending = "grace"]
        /\ released' = l
    BY <1>1, <1>3, <1>5 DEF GivesUp, Snapshot
  <2>2. /\ snapshot'.invalidated = activity.read /\ snapshot'.consumed = l
        /\ snapshot'.phase = "running" /\ snapshot'.streak = snapshot.streak
        /\ snapshot'.confident = snapshot.confident
    BY <1>1, <2>1 DEF Snapshot
  <2>3. l > snapshot.consumed BY <1>3, <1>5 DEF NewCompaction
  <2>4. UNCHANGED <<ledger, activity, counted, declined>> /\ pc = "release" /\ pc' = "clear"
    BY <1>5 DEF GivesUp
  <2>5. QED BY <1>1, <1>3, <1>4, <2>1, <2>2, <2>3, <2>4
<1>6. CASE NewCompaction /\ At("release", "gate") /\ UNCHANGED marker
           /\ snapshot' = [snapshot EXCEPT !.consumed = LastCompaction]
  <2>1. /\ snapshot'.invalidated = snapshot.invalidated /\ snapshot'.consumed = l
        /\ snapshot'.phase = snapshot.phase /\ snapshot'.streak = snapshot.streak
        /\ snapshot'.pending = snapshot.pending /\ snapshot'.confident = snapshot.confident
    BY <1>1, <1>3, <1>6 DEF Snapshot
  <2>2. l > snapshot.consumed BY <1>3, <1>6 DEF NewCompaction
  <2>3. QED BY <1>3, <1>4, <1>6, <2>1, <2>2 DEF At, historyVars
<1>7. CASE ~NewCompaction /\ At("release", "gate") /\ UNCHANGED <<snapshot, marker>>
  BY <1>3, <1>4, <1>7 DEF NewCompaction, At, historyVars
<1>8. QED BY <1>5, <1>6, <1>7 DEF ReleaseDrain

\* While nothing is read or released, the record of it stays.
LEMMA ConsumedStays ==
  ASSUME Inv, snapshot'.pending = "grace" => snapshot.pending = "grace",
         snapshot.pending = "grace" => snapshot'.phase = "running",
         snapshot'.consumed = snapshot.consumed, snapshot'.invalidated = snapshot.invalidated,
         released' = released, counted' = counted,
         pc' \in {"clear", "gate"} =>
           /\ pc \in {"clear", "gate"} /\ snapshot'.conversation = snapshot.conversation
           /\ LastCompaction' = LastCompaction
  PROVE  ConsumedFit'
BY DEF Inv, ConsumedFit

\* What is released, read or taken back stays in order.
LEMMA ConsumedStep == Inv /\ [Next]_vars => ConsumedFit'
<1> SUFFICES ASSUME Inv, [Next]_vars PROVE ConsumedFit' OBVIOUS
<1>1. TypeOK /\ ConsumedFit BY DEF Inv
<1>2. /\ snapshot \in Snapshot /\ activity.read \in Nat /\ {counted, released} \subseteq Nat
      /\ {snapshot.consumed, snapshot.invalidated} \subseteq Nat
  BY <1>1 DEF TypeOK, Activity, Snapshot
<1>3. LastCompaction \in 0 .. activity.read BY <1>2, LatestIsRead DEF LastCompaction
<1>4. CASE Hooks
  <2>1. HooksLog BY <1>1, <1>4, HooksAppend
  <2>2. LastCompaction' = LastCompaction
    <3>1. \A i \in 1 .. activity.read : ledger'.log[i] = ledger.log[i]
      BY <1>1, <2>1 DEF HooksLog, TypeOK, Ledger
    <3>2. Latest("compaction", activity.read)' = Latest("compaction", activity.read)
      BY <1>2, <2>1, <3>1, LatestStays DEF HooksLog, Latest
    <3>3. QED BY <3>2 DEF LastCompaction
  <2>3. QED BY <1>1, <2>1, <2>2, ConsumedStays DEF HooksLog, ConsumedFit
<1>5. CASE Materialize
  BY <1>1, <1>5, ConsumedStays DEF Materialize, historyVars, ConsumedFit
<1>6. CASE ObserveUsage
  <2>1. PICK confident \in BOOLEAN, level \in Levels :
          snapshot' \in {Sampled(FALSE),
                         AfterThresholds([Sampled(confident) EXCEPT !.conversation = TRUE], level)}
    BY <1>6 DEF ObserveUsage, Levels
  <2>2. /\ snapshot'.consumed = snapshot.consumed /\ snapshot'.invalidated = snapshot.invalidated
        /\ snapshot.pending = "grace" => snapshot'.phase = snapshot.phase
        /\ snapshot'.pending = "grace" => snapshot.pending = "grace"
    BY <1>1, <2>1, SnapshotOfSample
  <2>3. QED BY <1>1, <1>6, <2>2, ConsumedStays DEF ObserveUsage, At, historyVars, ConsumedFit
<1>7. CASE ReleaseDrain
  <2>1. UNCHANGED <<activity, ledger, counted>> /\ pc' \in {"clear", "gate"} BY <1>7, Consumes
  <2>2. LastCompaction' = LastCompaction BY <2>1 DEF LastCompaction, Latest
  <2>3. snapshot'.conversation => LastCompaction <= snapshot'.consumed BY <1>7, Consumes
  <2>4. released' <= snapshot'.invalidated /\ released' <= snapshot'.consumed
        /\ counted' <= snapshot'.consumed /\ (snapshot'.pending = "grace" => snapshot'.phase = "running")
    BY <1>1, <1>2, <1>3, <1>7, Consumes DEF ConsumedFit
  <2>5. QED BY <2>2, <2>3, <2>4 DEF ConsumedFit
<1>8. CASE ClearMarker
  <2>1. UNCHANGED <<activity, ledger>> BY <1>8 DEF ClearMarker, At
  <2>2. LastCompaction' = LastCompaction BY <2>1 DEF LastCompaction, Latest
  <2>3. QED BY <1>1, <1>8, <2>2, ConsumedStays DEF ClearMarker, At, historyVars, ConsumedFit
<1>9. CASE Gate
  <2>1. snapshot'.consumed = snapshot.consumed /\ snapshot'.invalidated = snapshot.invalidated
        /\ snapshot'.pending = snapshot.pending /\ pc' \notin {"clear", "gate"}
        /\ snapshot'.phase \in {snapshot.phase, "checkpointing"}
        /\ (snapshot'.phase # snapshot.phase => snapshot.phase = "draining")
    BY <1>2, <1>9 DEF Gate, Snapshot
  <2>2. counted' <= snapshot.consumed /\ released' = released
    BY <1>1, <1>2, <1>9 DEF Gate, ConsumedFit
  <2>3. QED BY <1>1, <2>1, <2>2 DEF ConsumedFit
<1>10. CASE Rotate
  <2>1. UNCHANGED snapshot \/ (pc = "rotate" /\ snapshot' = [snapshot EXCEPT !.phase = "stopping"])
    BY <1>10 DEF Rotate
  <2>2. snapshot'.consumed = snapshot.consumed /\ snapshot'.invalidated = snapshot.invalidated
        /\ snapshot'.pending = snapshot.pending
        /\ (snapshot.pending = "grace" => snapshot'.phase = "running")
    BY <1>1, <1>2, <2>1 DEF Inv, ReadFit, ConsumedFit, Snapshot
  <2>3. UNCHANGED <<released, counted>> /\ pc' \notin {"clear", "gate"}
    BY <1>10 DEF Rotate, At, historyVars
  <2>4. QED BY <2>2, <2>3, ConsumedStays
<1>11. CASE Succeed
  BY <1>11 DEF Succeed, Fresh, Acknowledged, tickVars, ConsumedFit
<1>12. CASE Crash
  BY <1>1, <1>12, ConsumedStays DEF Crash, ConsumedFit
<1>13. CASE GraceEnds
  <2>1. UNCHANGED <<activity, ledger, pc, released, counted>>
    BY <1>13 DEF GraceEnds, tickVars, historyVars
  <2>2. LastCompaction' = LastCompaction BY <2>1 DEF LastCompaction, Latest
  <2>3. /\ snapshot'.consumed = snapshot.consumed /\ snapshot'.invalidated = snapshot.invalidated
        /\ snapshot'.phase = snapshot.phase /\ snapshot'.pending = "over"
        /\ snapshot'.conversation = snapshot.conversation
    BY <1>2, <1>13 DEF GraceEnds, Snapshot
  <2>4. QED BY <1>1, <2>1, <2>2, <2>3, ConsumedStays DEF ConsumedFit
<1>14. CASE UNCHANGED vars
  <2>1. UNCHANGED <<snapshot, activity, ledger, pc, released, counted>>
    BY <1>14 DEF vars, tickVars, historyVars
  <2>2. LastCompaction' = LastCompaction BY <2>1 DEF LastCompaction, Latest
  <2>3. QED BY <1>1, <2>1, <2>2, ConsumedStays DEF ConsumedFit
<1>15. QED
  BY <1>4, <1>5, <1>6, <1>7, <1>8, <1>9, <1>10, <1>11, <1>12, <1>13, <1>14 DEF Next, Tick

-----------------------------------------------------------------------------
(* The streak                                                                *)

\* A tick that only the reader holds back follows a sample that counted.
LEMMA StreakStep == Inv /\ [Next]_vars => StreakFit'
<1> SUFFICES ASSUME Inv, [Next]_vars PROVE StreakFit' OBVIOUS
<1>1. TypeOK /\ StreakFit BY DEF Inv
<1>2. /\ snapshot \in Snapshot /\ snapshot.streak \in 0 .. Tolerance /\ declined \in Nat
      /\ Tolerance \in Nat \ {0}
  BY <1>1, ConstantsAssumption DEF TypeOK, Snapshot
<1>3. CASE Hooks
  <2>1. HooksLog BY <1>1, <1>3, HooksAppend
  <2>2. QED BY <1>1, <2>1 DEF HooksLog, StreakFit
<1>4. CASE Materialize BY <1>1, <1>4 DEF Materialize, historyVars, StreakFit
<1>5. CASE ObserveUsage
  <2>1. PICK confident \in BOOLEAN, level \in Levels :
          snapshot' \in {Sampled(FALSE),
                         AfterThresholds([Sampled(confident) EXCEPT !.conversation = TRUE], level)}
    BY <1>5 DEF ObserveUsage, Levels
  <2>2. snapshot'.confident \/ snapshot'.streak = IF snapshot.streak < Tolerance
                                                  THEN snapshot.streak + 1 ELSE snapshot.streak
    BY <1>1, <2>1, SnapshotOfSample
  <2>3. QED BY <1>1, <1>2, <1>5, <2>2 DEF ObserveUsage, At, historyVars, StreakFit
<1>6. CASE ReleaseDrain
  <2>1. /\ snapshot'.streak = snapshot.streak /\ snapshot'.confident = snapshot.confident
        /\ UNCHANGED declined /\ pc = "release" /\ pc' \in {"clear", "gate"}
    BY <1>6, Consumes
  <2>2. QED BY <1>1, <2>1 DEF StreakFit
<1>7. CASE ClearMarker BY <1>1, <1>7 DEF ClearMarker, At, historyVars, StreakFit
<1>8. CASE Gate
  <2>1. snapshot'.streak = snapshot.streak /\ pc' \in {"idle", "rotate"}
    BY <1>2, <1>8 DEF Gate, Snapshot
  <2>2. declined' = 0 \/ (declined' = declined + 1 /\ ~snapshot.confident /\ snapshot.streak < Tolerance)
    BY <1>2, <1>8 DEF Gate, Gates
  <2>3. QED BY <1>1, <1>2, <1>8, <2>1, <2>2 DEF Gate, StreakFit
<1>9. CASE Rotate
  <2>1. snapshot'.streak = snapshot.streak /\ UNCHANGED declined
        /\ pc \in {"idle", "rotate"} /\ pc' \in {"idle", "rotate"}
    BY <1>2, <1>9 DEF Rotate, At, historyVars, Snapshot
  <2>2. QED BY <1>1, <2>1 DEF StreakFit
<1>10. CASE Succeed BY <1>2, <1>10 DEF Succeed, Fresh, Acknowledged, tickVars, StreakFit
<1>11. CASE Crash BY <1>2, <1>11 DEF Crash, StreakFit
<1>12. CASE GraceEnds
  <2>1. snapshot'.streak = snapshot.streak /\ snapshot'.confident = snapshot.confident
        /\ UNCHANGED <<pc, declined>>
    BY <1>2, <1>12 DEF GraceEnds, tickVars, historyVars, Snapshot
  <2>2. QED BY <1>1, <2>1 DEF StreakFit
<1>13. CASE UNCHANGED vars BY <1>1, <1>13 DEF vars, tickVars, historyVars, StreakFit
<1>14. QED
  BY <1>3, <1>4, <1>5, <1>6, <1>7, <1>8, <1>9, <1>10, <1>11, <1>12, <1>13 DEF Next, Tick

-----------------------------------------------------------------------------
(* The invariant and what it implies                                         *)

\* The root session begins with an empty log.
LEMMA InitInv == Init => Inv
<1> SUFFICES ASSUME Init PROVE Inv OBVIOUS
<1>1. snapshot \in Snapshot /\ snapshot.pending = "no" /\ snapshot.streak = 0
      /\ snapshot.consumed = 0 /\ snapshot.invalidated = 0
  BY ConstantsAssumption DEF Init, Snapshot, Phases
<1>2. ledger \in Ledger /\ Len(ledger.log) = 0
  <2>1. <<>> \in Seq({"request", "compaction"}) OBVIOUS
  <2>2. QED BY <2>1 DEF Init, Ledger
<1>3. activity \in Activity /\ activity.read = 0 BY DEF Init, Activity, NoActivity
<1>4. TypeOK
  <2>1. /\ marker = "none" /\ pc = "idle" /\ working = {} /\ uncut = {} /\ prompt = FALSE
        /\ counted = 0 /\ released = 0 /\ declined = 0
    BY DEF Init
  <2>2. {snapshot.consumed, snapshot.invalidated, activity.read} \subseteq 0 .. Len(ledger.log)
    BY <1>1, <1>2, <1>3
  <2>3. /\ marker \in {"none", "asked", "idle"} /\ pc \in Places
        /\ working \subseteq Kinds /\ uncut \subseteq working
        /\ {counted, released, declined} \subseteq Nat
    BY <2>1 DEF Places
  <2>6. prompt \in BOOLEAN BY <2>1, Zenon
  <2>4. snapshot \in Snapshot /\ ledger \in Ledger /\ activity \in Activity BY <1>1, <1>2, <1>3
  <2>5. QED BY <2>2, <2>3, <2>4, <2>6 DEF TypeOK
<1>5. OpenWork /\ ReadFit BY DEF Init, OpenWork, ReadFit
<1>6. ConsumedFit BY <1>1 DEF Init, ConsumedFit
<1>7. StreakFit BY <1>1, ConstantsAssumption DEF Init, StreakFit
<1>8. QED BY <1>4, <1>5, <1>6, <1>7 DEF Inv

\* Every step keeps the invariant.
LEMMA StepInv == Inv /\ [Next]_vars => Inv'
BY TypeStep, OpenStep, ReadStep, ConsumedStep, StreakStep DEF Inv

\* The invariant holds in every reachable state.
LEMMA AlwaysInv == Spec => []Inv
BY InitInv, StepInv, PTL DEF Spec

\* Only the gate commits a rotation, and only a consumed compaction releases.
LEMMA WhoCommits ==
  ASSUME Inv, [Next]_vars
  PROVE  /\ Commits => Gate /\ Consented /\ activity.idle
         /\ Releases => ReleaseDrain /\ LastCompaction > snapshot.consumed
                        /\ released' = LastCompaction
<1>1. TypeOK /\ snapshot \in Snapshot BY DEF Inv, TypeOK
<1>2. ASSUME snapshot'.phase = snapshot.phase \/ snapshot.phase # "draining"
      PROVE  ~Commits /\ ~Releases
  BY <1>2 DEF Commits, Releases
<1>3. CASE Hooks
  <2>1. HooksLog BY <1>1, <1>3, HooksAppend
  <2>2. QED BY <1>2, <2>1 DEF HooksLog
<1>4. CASE Materialize \/ ClearMarker \/ Crash \/ UNCHANGED vars
  BY <1>2, <1>4 DEF Materialize, ClearMarker, Crash, vars
<1>5. CASE ObserveUsage
  <2>1. PICK confident \in BOOLEAN, level \in Levels :
          snapshot' \in {Sampled(FALSE),
                         AfterThresholds([Sampled(confident) EXCEPT !.conversation = TRUE], level)}
    BY <1>5 DEF ObserveUsage, Levels
  <2>2. snapshot.phase = "draining" => snapshot'.phase = snapshot.phase
    BY <1>1, <2>1, SnapshotOfSample
  <2>3. QED BY <1>2, <2>2
<1>6. CASE ReleaseDrain BY <1>6, Consumes DEF Commits, Releases
<1>7. CASE Gate
  <2>1. ~Releases BY <1>1, <1>7 DEF Gate, Releases, Snapshot
  <2>2. Commits => Consented /\ activity.idle BY <1>7 DEF Gate, Gates, Commits
  <2>3. QED BY <1>7, <2>1, <2>2
<1>8. CASE Rotate
  <2>1. snapshot'.phase = snapshot.phase \/ pc = "rotate" BY <1>8 DEF Rotate
  <2>2. QED BY <1>2, <2>1 DEF Inv, ReadFit
<1>9. CASE Succeed BY <1>2, <1>9 DEF Succeed
<1>10. CASE GraceEnds
  <2>1. snapshot'.phase = snapshot.phase BY <1>1, <1>10 DEF GraceEnds, Snapshot
  <2>2. QED BY <1>2, <2>1
<1>11. QED BY <1>3, <1>4, <1>5, <1>6, <1>7, <1>8, <1>9, <1>10 DEF Next, Tick

\* Every variable has its type, and what the supervisor remembers of the log is
\* in it (supervisor.py:301-419, ledger.py:102-147).
THEOREM TypeCorrect == Spec => []TypeOK
<1>1. Inv => TypeOK BY DEF Inv
<1>2. QED BY AlwaysInv, <1>1, PTL

\* A reader without a confident sample holds a rested, consenting session back for
\* fewer than Tolerance ticks in a row (supervisor.py:939-947).
THEOREM NoReaderPins == Spec => []ReaderCannotPin
<1>1. Inv => ReaderCannotPin BY DEF Inv, StreakFit, ReaderCannotPin
<1>2. QED BY AlwaysInv, <1>1, PTL

\* No rotation is committed over work that was under way when its tick read the
\* activity (ledger.py:152-200, supervisor.py:905-947).
THEOREM WorkIsNotCut == Spec => NothingReadIsCut
<1>1. Inv /\ [Next]_vars => [Commits => uncut = {}]_vars
  BY WhoCommits DEF Inv, ReadFit
<1>2. QED BY AlwaysInv, <1>1, PTL DEF Spec, NothingReadIsCut

\* The request behind a rotation was logged after the compaction that released the
\* last drain (supervisor.py:909-924, 1243-1291).
THEOREM ConsentIsRenewed == Spec => ConsentIsYounger
<1>1. ASSUME Inv, [Next]_vars, Commits PROVE Latest("request", activity.read) > released
  <2>1. Consented BY <1>1, WhoCommits
  <2>2. activity.read \in Nat /\ released \in Nat /\ snapshot.invalidated \in Nat
        /\ released <= snapshot.invalidated
    BY <1>1 DEF Inv, TypeOK, Activity, Snapshot, ConsumedFit
  <2>3. Latest("request", activity.read) \in 0 .. activity.read BY <2>2, LatestIsRead
  <2>4. QED BY <2>1, <2>2, <2>3 DEF Consented
<1>2. Inv /\ [Next]_vars => [Commits => Latest("request", activity.read) > released]_vars
  BY <1>1
<1>3. QED BY AlwaysInv, <1>2, PTL DEF Spec, ConsentIsYounger

\* One compaction releases one drain at most, and none that an earlier tick has
\* read of a known conversation does (supervisor.py:1200-1306).
THEOREM ReleaseIsOnce == Spec => ReleasesOnce
<1>1. ASSUME Inv, [Next]_vars, Releases PROVE LastCompaction > counted /\ released' > released
  <2>1. LastCompaction > snapshot.consumed /\ released' = LastCompaction BY <1>1, WhoCommits
  <2>2. activity.read \in Nat /\ {released, counted, snapshot.consumed} \subseteq Nat
        /\ released <= snapshot.consumed /\ counted <= snapshot.consumed
    BY <1>1 DEF Inv, TypeOK, Activity, Snapshot, ConsumedFit
  <2>3. LastCompaction \in 0 .. activity.read BY <2>2, LatestIsRead DEF LastCompaction
  <2>4. QED BY <2>1, <2>2, <2>3
<1>2. Inv /\ [Next]_vars => [Releases => LastCompaction > counted /\ released' > released]_vars
  BY <1>1
<1>3. QED BY AlwaysInv, <1>2, PTL DEF Spec, ReleasesOnce

\* While an announced compaction is awaited, no threshold is acted on
\* (supervisor.py:1353-1368).
THEOREM GraceIsKept == Spec => GraceHolds
<1>1. ASSUME Inv, [Next]_vars, snapshot.pending = "grace" PROVE snapshot'.phase = "running"
  <2>1. TypeOK /\ snapshot \in Snapshot /\ snapshot.phase = "running" /\ pc # "rotate"
    BY <1>1 DEF Inv, TypeOK, ConsumedFit, ReadFit
  <2>2. CASE Hooks
    <3>1. HooksLog BY <2>1, <2>2, HooksAppend
    <3>2. QED BY <2>1, <3>1 DEF HooksLog
  <2>3. CASE Materialize \/ ClearMarker \/ Crash \/ Gate \/ Rotate \/ UNCHANGED vars
    BY <2>1, <2>3 DEF Materialize, ClearMarker, Crash, Gate, Rotate, vars
  <2>4. CASE ObserveUsage
    <3>1. PICK confident \in BOOLEAN, level \in Levels :
            snapshot' \in {Sampled(FALSE),
                           AfterThresholds([Sampled(confident) EXCEPT !.conversation = TRUE], level)}
      BY <2>4 DEF ObserveUsage, Levels
    <3>2. QED BY <1>1, <2>1, <3>1, SnapshotOfSample
  <2>5. CASE ReleaseDrain BY <1>1, <2>1, <2>5, Consumes
  <2>6. CASE Succeed BY <2>1, <2>6 DEF Succeed
  <2>7. CASE GraceEnds BY <2>1, <2>7 DEF GraceEnds, Snapshot
  <2>8. QED BY <1>1, <2>2, <2>3, <2>4, <2>5, <2>6, <2>7 DEF Next, Tick
<1>2. Inv /\ [Next]_vars => [snapshot.pending = "grace" => snapshot'.phase = "running"]_vars
  BY <1>1
<1>3. QED BY AlwaysInv, <1>2, PTL DEF Spec, GraceHolds
=============================================================================
