----------------------------- MODULE HostProofs ------------------------------
(***************************************************************************)
(* What is proved of each part of the host holds of the host: its parts    *)
(* share nothing, and a step is one of one of them.  The latch is small    *)
(* enough to be proved here.                                               *)
(***************************************************************************)
EXTENDS MCHost, ResourceGuardianProofs

BP == INSTANCE BakeSpoolProofs
AP == INSTANCE AdvisoryProofs

-----------------------------------------------------------------------------
(* The parts                                                                 *)

\* A step of the host is one of each part, or leaves that part alone.
LEMMA HostStep ==
  ASSUME [HostNext]_hostVars
  PROVE  [Next]_vars /\ [B!Next]_(B!vars) /\ [A!Next]_(A!vars) /\ [F!Next]_(F!vars)
BY DEF HostNext, hostVars, bakeVars, advisoryVars, latchVars, vars, B!vars, A!vars, F!vars

\* The bake that is proved about is the one that runs.
LEMMA SameBake ==
  /\ B!SpoolBounds <=> BP!SpoolBounds
  /\ B!Init <=> BP!Init
  /\ [B!Next]_(B!vars) <=> [BP!Next]_(BP!vars)
<1>1. B!SpoolBounds <=> BP!SpoolBounds BY DEF B!SpoolBounds, BP!SpoolBounds
<1>2. B!Init <=> BP!Init
  BY Zenon DEF B!Init, BP!Init, B!Idle, BP!Idle, B!NoRecord, BP!NoRecord
<1>3. ASSUME NEW k \in Contents PROVE B!Report(k) <=> BP!Report(k)
  BY Zenon DEF B!Report, BP!Report, B!Repeats, BP!Repeats, B!Pending, BP!Pending,
    B!Evicted, BP!Evicted, B!NewId, BP!NewId, B!RemoveAt, BP!RemoveAt, B!Last, BP!Last
<1>4. ASSUME NEW c \in Sinks PROVE B!Drain(c) <=> BP!Drain(c)
  BY Zenon DEF B!Drain, BP!Drain, B!Begin, BP!Begin, B!Pick, BP!Pick, B!Look, BP!Look,
    B!Create, BP!Create, B!Verify, BP!Verify, B!Acknowledge, BP!Acknowledge,
    B!Fails, BP!Fails, B!Goes, BP!Goes, B!Seen, BP!Seen, B!Pending, BP!Pending,
    B!NoRecord, BP!NoRecord, B!ToSet, BP!ToSet
<1>5. B!Next <=> BP!Next
  BY <1>3, <1>4, Zenon DEF B!Next, BP!Next, B!IntervalEnds, BP!IntervalEnds,
    B!WindowEnds, BP!WindowEnds, B!ToSet, BP!ToSet
<1>6. B!vars = BP!vars BY DEF B!vars, BP!vars
<1>7. QED BY <1>1, <1>2, <1>5, <1>6, Zenon DEF B!vars, BP!vars

\* The advisory that is proved about is the one that runs.
LEMMA SameAdvisory ==
  /\ A!AdvisoryBounds <=> AP!AdvisoryBounds
  /\ A!Init <=> AP!Init
  /\ [A!Next]_(A!vars) <=> [AP!Next]_(AP!vars)
<1>1. A!AdvisoryBounds <=> AP!AdvisoryBounds
  BY Zenon DEF A!AdvisoryBounds, AP!AdvisoryBounds, A!Known, AP!Known, A!Windows, AP!Windows
<1>2. A!Init <=> AP!Init
  BY Zenon DEF A!Init, AP!Init, A!Empty, AP!Empty, A!NoEntry, AP!NoEntry, A!Idle, AP!Idle,
    A!Quiet, AP!Quiet, A!NoSession, AP!NoSession
<1>3. ASSUME NEW h, NEW s PROVE A!Reset(h, s) <=> AP!Reset(h, s)
  BY Zenon DEF A!Reset, AP!Reset, A!Starts, AP!Starts, A!NoEntry, AP!NoEntry, A!Idle, AP!Idle,
    A!Empty, AP!Empty, A!Quiet, AP!Quiet, A!NoSession, AP!NoSession
<1>4. ASSUME NEW h, NEW s, NEW m, NEW o, NEW r
      PROVE  A!Call(h, s, m, o, r) <=> AP!Call(h, s, m, o, r)
  <2>1. A!Decided(ledger[s], m, o, r) = AP!Decided(ledger[s], m, o, r)
    <3>1. A!Window(m, o) = AP!Window(m, o)
      BY Zenon DEF A!Window, AP!Window, A!Promoted, AP!Promoted, A!Least, AP!Least,
        A!Windows, AP!Windows
    <3>2. \A t, w : A!TierFor(t, w) = AP!TierFor(t, w) 
      BY Zenon DEF A!TierFor, AP!TierFor, A!Cardinality, AP!Cardinality
    <3>3. \A w : A!Warned(ledger[s], w) = AP!Warned(ledger[s], w)
      BY Zenon DEF A!Warned, AP!Warned
    <3>4. QED BY <3>1, <3>2, <3>3, Zenon DEF A!Decided, AP!Decided
  <2>2. A!Starts(h) <=> AP!Starts(h) BY Zenon DEF A!Starts, AP!Starts
  <2>3. QED BY <2>1, <2>2, Zenon DEF A!Call, AP!Call
<1>5. ASSUME NEW h
      PROVE  /\ A!Truncate(h) <=> AP!Truncate(h)
             /\ A!Write(h) <=> AP!Write(h)
             /\ A!Tell(h) <=> AP!Tell(h)
             /\ A!Unwritten(h) <=> AP!Unwritten(h)
             /\ A!Killed(h) <=> AP!Killed(h)
  BY Zenon DEF A!Truncate, AP!Truncate, A!Write, AP!Write, A!Tell, AP!Tell, A!Unwritten,
    AP!Unwritten, A!Killed, AP!Killed, A!Empty, AP!Empty, A!NoEntry, AP!NoEntry, A!Idle,
    AP!Idle, A!Quiet, AP!Quiet, A!NoSession, AP!NoSession
<1>6. A!Next <=> AP!Next BY <1>3, <1>4, <1>5, Zenon DEF A!Next, AP!Next
<1>7. A!vars = AP!vars BY DEF A!vars, AP!vars
<1>8. QED BY <1>1, <1>2, <1>6, Zenon DEF A!vars, AP!vars

-----------------------------------------------------------------------------
(* The latch                                                                 *)

\* The pending block is the one recorded last, until its own acknowledgement:
\* what a clear record says of the blocks that there were.
OnlyItsOwn ==
  /\ ~F!Exists => latest = Unset
  /\ record.block \in {latest, Unset}
  /\ record.block = Unset => latest \in cleared \cup {Unset}

LatchInv == F!TypeOK /\ OnlyItsOwn /\ FinalStands

\* The new file has neither record nor history.
LEMMA LatchStarts == ASSUME F!Init PROVE LatchInv
  BY HostAssumption
  DEF F!DispatchBounds, F!Init, LatchInv, F!TypeOK, OnlyItsOwn, FinalStands, F!FinalStands,
      F!Phases, F!NoFile, F!Exists

\* Each call keeps the link between the pending block and the last one, and none
\* takes a final record back.
LEMMA LatchStep == ASSUME LatchInv, [F!Next]_(F!vars) PROVE LatchInv'
<1> USE HostAssumption
    DEF F!DispatchBounds, LatchInv, F!TypeOK, OnlyItsOwn, FinalStands, F!FinalStands,
        F!Phases, F!NoFile, F!Exists
<1>1. CASE F!Begin
  BY <1>1 DEF F!Begin
<1>2. CASE F!Finalize
  BY <1>2 DEF F!Finalize
<1>3. ASSUME NEW d \in Dispatches, F!RecordBlock(d) PROVE LatchInv'
  BY <1>3 DEF F!RecordBlock
<1>4. ASSUME NEW d \in Dispatches, F!AcknowledgeBlock(d) PROVE LatchInv'
  <2>1. CASE record.block = d
    BY <1>4, <2>1 DEF F!AcknowledgeBlock
  <2>2. CASE record.block # d
    BY <1>4, <2>2 DEF F!AcknowledgeBlock
  <2>3. QED BY <2>1, <2>2
<1>5. ASSUME NEW what \in {"retro", "summary"}, F!Mark(what) PROVE LatchInv'
  <2>1. CASE what = "retro"
    BY <1>5, <2>1 DEF F!Mark
  <2>2. CASE what = "summary"
    BY <1>5, <2>2 DEF F!Mark
  <2>3. QED BY <1>5, <2>1, <2>2
<1>6. CASE UNCHANGED F!vars
  BY <1>6 DEF F!vars
<1>7. QED BY <1>1, <1>2, <1>3, <1>4, <1>5, <1>6 DEF F!Next

-----------------------------------------------------------------------------
(* The host                                                                  *)

HostInv == Inv /\ BP!Inv /\ AP!Inv /\ LatchInv

\* All parts start as they should.
LEMMA HostStarts == HostInit => HostInv
<1> SUFFICES ASSUME HostInit PROVE HostInv
  OBVIOUS
<1>1. Inv BY InitInv DEF HostInit
<1>2. BP!Inv
  <2>1. BP!SpoolBounds /\ BP!Init BY HostAssumption, SameBake DEF HostInit
  <2>2. QED BY <2>1, BP!InitInv
<1>3. AP!Inv
  <2>1. AP!AdvisoryBounds /\ AP!Init BY HostAssumption, SameAdvisory DEF HostInit
  <2>2. QED BY <2>1, AP!InitInv
<1>4. LatchInv BY LatchStarts DEF HostInit
<1>5. QED BY <1>1, <1>2, <1>3, <1>4 DEF HostInv

\* Every step keeps every part as it should be.
LEMMA HostKeeps == HostInv /\ [HostNext]_hostVars => HostInv' /\ AP!Tells
<1> SUFFICES ASSUME HostInv, [HostNext]_hostVars PROVE HostInv' /\ AP!Tells
  OBVIOUS
<1>1. Inv' BY HostStep, StepInv DEF HostInv
<1>2. BP!Inv'
  <2>1. BP!SpoolBounds /\ [BP!Next]_(BP!vars) BY HostAssumption, HostStep, SameBake
  <2>2. QED BY <2>1, BP!StepInv DEF HostInv
<1>3. AP!Inv' /\ AP!Tells
  <2>1. AP!AdvisoryBounds /\ [AP!Next]_(AP!vars) BY HostAssumption, HostStep, SameAdvisory
  <2>2. QED BY <2>1, AP!StepInv DEF HostInv
<1>4. LatchInv' BY HostStep, LatchStep DEF HostInv
<1>5. QED BY <1>1, <1>2, <1>3, <1>4 DEF HostInv

\* So they are for good.
LEMMA AlwaysHost == HostSpec => []HostInv
BY HostStarts, HostKeeps, PTL DEF HostSpec

-----------------------------------------------------------------------------
(* What holds of the host                                                    *)

\* Every part keeps to its types, whatever the others do (resource_registry.py,
\* guardian_bake_spool.py, context_advisory_hook.py, finalization.py).
THEOREM HostIsTyped == HostSpec => []HostTypeOK
<1>1. Inv => TypeOK BY GuardianTypes
<1>2. BP!Inv => B!TypeOK
  <2>1. BP!Inv => BP!TypeOK
    BY DEF BP!Inv, BP!Counted, BP!SpoolFit, BP!SinksFit, BP!Holds, BP!TypeOK, BP!NoRecord
  <2>2. B!TypeOK <=> BP!TypeOK
    BY Zenon DEF B!TypeOK, BP!TypeOK, B!Records, BP!Records, B!Deliveries, BP!Deliveries,
      B!NoRecord, BP!NoRecord
  <2>3. QED BY <2>1, <2>2
<1>3. AP!Inv => A!TypeOK
  BY DEF AP!Inv, AP!WorldFit, AP!HookFit, AP!Places, AP!Tidings, AP!Tiers, AP!Entries,
    A!TypeOK, A!Entries
<1>4. HostInv => HostTypeOK BY <1>1, <1>2, <1>3 DEF HostInv, HostTypeOK, LatchInv
<1>5. QED BY <1>4, AlwaysHost, PTL

\* The host loses no evidence of its bake (guardian_bake_spool.py:99-114).
THEOREM HostKeepsEvidence == HostSpec => []EvidenceKept
<1>1. BP!Inv => EvidenceKept
  BY DEF BP!Inv, BP!EvidenceKept, BP!Pending, EvidenceKept, B!EvidenceKept, B!Pending
<1>2. HostInv => EvidenceKept BY <1>1 DEF HostInv
<1>3. QED BY <1>2, AlwaysHost, PTL

\* It comments one content once, as long as it runs one drain at a time
\* (guardian_bake_linear.py:75-84).
THEOREM HostPostsOnce ==
  ASSUME \A c, d \in Sinks : c = d PROVE HostSpec => []PostedOnce
<1> DEFINE Once == BP!PostedOnce /\ BP!Unposted
<1>1. HostInit => Once
  <2>1. HostInit => BP!Init BY SameBake DEF HostInit
  <2>2. QED BY <2>1 DEF BP!Init, BP!PostedOnce, BP!Unposted, BP!Idle
<1>2. HostInv /\ Once /\ [HostNext]_hostVars => Once'
  <2> SUFFICES ASSUME HostInv, Once, [HostNext]_hostVars PROVE Once'
    OBVIOUS
  <2>1. BP!OneDrain BY DEF BP!OneDrain
  <2>2. [BP!Next]_(BP!vars) BY HostStep, SameBake
  <2>3. QED BY <2>1, <2>2, BP!PostedStep DEF HostInv
<1>3. Once => PostedOnce BY DEF BP!PostedOnce, PostedOnce, B!PostedOnce
<1> HIDE DEF Once
<1>4. QED BY <1>1, <1>2, <1>3, AlwaysHost, PTL DEF HostSpec

\* A session of the host is told of a tier exactly when it crosses it, as long as
\* no two hooks overlap and none is killed (context_advisory_hook.py:642-650).
THEOREM HostTellsOnce == HostSpec => ToldOfEachCrossingOnce
<1>1. AP!Tells =>
        \A h \in Hooks :
          hook[h].pc = "idle" /\ hook'[h].pc # "idle" /\ clean' =>
            hook'[h].told.tier =
              (IF hook'[h].reached > heard'[hook'[h].session].tier
               THEN hook'[h].reached ELSE 0)
  BY DEF AP!Tells
<1>2. HostInv /\ [HostNext]_hostVars => [AP!Tells]_(A!vars)
  BY HostKeeps
<1>3. QED
  BY <1>1, <1>2, AlwaysHost, PTL
  DEF HostSpec, ToldOfEachCrossingOnce, A!ToldOfEachCrossingOnce

\* A cleanup is authorised only of a registration whose process is over, and under
\* the lease of its proposal (resource_registry.py:365-441).
THEOREM HostReapsOnlyTheDead == HostSpec => [](ReapsOnlyTheDead /\ AuthorizedUnderItsLease)
<1>1. HostInv => ReapsOnlyTheDead /\ AuthorizedUnderItsLease BY GuardianIsSound DEF HostInv
<1>2. QED BY <1>1, AlwaysHost, PTL

\* A session is finalized for good, and over no block that was not acknowledged
\* by its own identifier, for any number of blocks (finalization.py:97-125).
THEOREM FinalIsForGood == HostSpec => []FinalStands
<1>1. HostInv => FinalStands BY DEF HostInv, LatchInv
<1>2. QED BY <1>1, AlwaysHost, PTL
=============================================================================
