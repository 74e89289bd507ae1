--------------------------- MODULE AdvisoryProofs ---------------------------
(***************************************************************************)
(* Every crossing is told once, for any number of sessions, hooks, models  *)
(* and levels, as long as no two hooks overlap and none is killed.         *)
(***************************************************************************)
EXTENDS Advisory, FiniteSetTheorems, WellFoundedInduction, TLAPS

-----------------------------------------------------------------------------
(* The inductive invariant                                                   *)

Tiers == 0 .. 2
Tidings == [tier : Tiers, window : Nat]
Places == {"idle", "truncate", "write", "tell"}

\* A hook that has decided holds what it will save and what it will tell.
HookFit(k) ==
  /\ k.pc \in Places
  /\ k.pc # "idle" =>
       /\ k.session \in Sessions /\ k.save \in [Sessions -> Entries]
       /\ k.told \in Tidings /\ k.reached \in Tiers
  /\ k.pc = "tell" => k.told.tier # 0

WorldFit ==
  /\ ledger \in [Sessions -> Entries]
  /\ hook = [h \in Hooks |-> hook[h]] /\ \A h \in Hooks : HookFit(hook[h])
  /\ heard \in [Sessions -> Tidings]
  /\ clean \in BOOLEAN

\* What is on record of a session, or about to be, is what it was told last.
InStep(e, s) == heard[s].tier = e.warned /\ heard[s].window = e.window

\* A hook under way leaves the other sessions alone, and its own as it was told
\* last or is about to be.
Keeps(k, entries) ==
  /\ \A s \in Sessions : s # k.session \/ k.told.tier = 0 => InStep(entries[s], s)
  /\ k.told.tier > 0 => /\ entries[k.session].warned = k.told.tier
                        /\ entries[k.session].window = k.told.window

Alone == \A g, h \in Hooks : hook[g].pc # "idle" /\ hook[h].pc # "idle" => g = h
Quietly ==
  (\A h \in Hooks : hook[h].pc = "idle") => \A s \in Sessions : InStep(ledger[s], s)
Steadily ==
  \A h \in Hooks :
    /\ hook[h].pc \in {"truncate", "write"} => Keeps(hook[h], hook[h].save)
    /\ hook[h].pc = "tell" => Keeps(hook[h], ledger)

Inv == WorldFit /\ (clean => Alone /\ Quietly /\ Steadily)

-----------------------------------------------------------------------------
(* The window and the tier                                                   *)

\* A non-empty set of numbers has a least one.
LEMMA LeastIsOne == ASSUME NEW S, S \subseteq Nat, S # {} PROVE Least(S) \in S
<1>1. IsWellFoundedOn(OpToRel(<, Nat), Nat) BY NatLessThanWellFounded
<1>2. PICK x \in S : \A y \in S : ~ (<<y, x>> \in OpToRel(<, Nat)) BY <1>1, WFMin
<1>3. \A y \in S : ~ (y < x) BY <1>2 DEF OpToRel
<1>4. \A y \in S : x <= y BY <1>3
<1>5. QED BY <1>4 DEF Least

\* Whatever occupancy disproves, the window is a number.
LEMMA WindowType ==
  ASSUME AdvisoryBounds, NEW m \in Models, NEW o \in Nat PROVE Window(m, o) \in Nat
<1>1. m.detected \in Windows /\ m.candidates \subseteq Windows BY DEF AdvisoryBounds, Known
<1>2. Windows \subseteq Nat BY DEF Windows
<1>3. PICK w \in Nat : w = m.detected BY <1>1, <1>2
<1>4. PICK C \in SUBSET Nat : C = m.candidates BY <1>1, <1>2
<1> DEFINE fit(S) == {v \in S : v >= o}
<1>5. Promoted(w, o, C) \in Nat
  <2>1. CASE o <= w BY <2>1 DEF Promoted
  <2>2. CASE o > w /\ fit(C) # {}
    <3>1. Least(fit(C)) \in Nat BY <2>2, LeastIsOne
    <3>2. QED BY <2>2, <3>1 DEF Promoted
  <2>3. CASE o > w /\ fit(C) = {} /\ fit(Windows) # {}
    <3>1. Least(fit(Windows)) \in Nat BY <1>2, <2>3, LeastIsOne
    <3>2. QED BY <2>3, <3>1 DEF Promoted
  <2>4. CASE o > w /\ fit(C) = {} /\ fit(Windows) = {}
    BY <2>4 DEF Promoted
  <2>5. QED BY <2>1, <2>2, <2>3, <2>4
<1>6. QED BY <1>3, <1>4, <1>5 DEF Window

\* There are two tiers.
LEMMA TierType == ASSUME NEW t, NEW w PROVE TierFor(t, w) \in Tiers
<1> DEFINE S == {65, 85}
           T == {percent \in S : 100 * t >= percent * w}
<1>1. IsFiniteSet(S) /\ Cardinality(S) = 2
  <2>1. IsFiniteSet({65}) /\ Cardinality({65}) = 1 BY FS_Singleton
  <2>2. S = {65} \cup {85} OBVIOUS
  <2>3. QED BY <2>1, <2>2, FS_AddElement
<1>2. IsFiniteSet(T) /\ Cardinality(T) <= 2 BY <1>1, FS_Subset
<1>3. Cardinality(T) \in Nat BY <1>2, FS_CardinalityType
<1>4. QED BY <1>2, <1>3 DEF TierFor, Tiers

\* What one call decides: an entry and news of its tier, if that is above what
\* the entry says of the same window.
LEMMA Decides ==
  ASSUME AdvisoryBounds, NEW e \in Entries, NEW m \in Models, NEW o \in Levels, NEW r \in Responses,
         NEW d, d = Decided(e, m, o, r)
  PROVE  /\ d.entry \in Entries /\ d.told \in Tidings /\ d.tier \in Tiers
         /\ d.entry.window = d.told.window
         /\ d.told.tier = IF d.tier > Warned(e, d.told.window) THEN d.tier ELSE 0
         /\ d.entry.warned = IF d.told.tier > 0 THEN d.told.tier ELSE Warned(e, d.told.window)
<1>1. o \in Nat /\ r \in Nat BY DEF AdvisoryBounds
<1>2. PICK w \in Nat : w = Window(m, o) BY <1>1, WindowType
<1>3. PICK n \in Nat : n = e.tokens + r BY <1>1 DEF Entries
<1>4. PICK u : u = IF o > 0 THEN o + r ELSE n OBVIOUS
<1>5. PICK t \in Tiers : t = TierFor(u, w) BY TierType
<1>6. PICK x \in Tiers : x = Warned(e, w) BY DEF Entries, Warned, Tiers
<1>7. d = [entry |-> [tokens |-> n, window |-> w, warned |-> IF t > x THEN t ELSE x],
           told |-> [tier |-> IF t > x THEN t ELSE 0, window |-> w], tier |-> t]
  BY <1>2, <1>3, <1>4, <1>5, <1>6 DEF Decided
<1>8. QED BY <1>6, <1>7 DEF Entries, Tidings, Tiers

-----------------------------------------------------------------------------
(* The steps                                                                 *)

\* Nobody has been told anything, and nothing is on record.
LEMMA InitInv == ASSUME AdvisoryBounds, Init PROVE Inv
<1> USE DEF Init
<1>1. NoEntry \in Entries /\ Quiet \in Tidings BY DEF NoEntry, Entries, Quiet, Tidings, Tiers
<1>2. WorldFit
  <2>1. \A h \in Hooks : hook[h].pc = "idle" BY DEF Idle
  <2>2. QED BY <1>1, <2>1 DEF WorldFit, HookFit, Places, Empty
<1>3. Alone /\ Steadily BY DEF Alone, Steadily, Idle
<1>4. Quietly BY DEF Quietly, InStep, Empty, NoEntry, Quiet
<1>5. QED BY <1>2, <1>3, <1>4 DEF Inv

\* The places of the hooks when one of them moves.
LEMMA OneMoves ==
  ASSUME WorldFit, NEW h \in Hooks, NEW k, HookFit(k), hook' = [hook EXCEPT ![h] = k]
  PROVE  /\ hook' = [g \in Hooks |-> hook'[g]] /\ \A g \in Hooks : HookFit(hook'[g])
         /\ hook'[h] = k /\ \A g \in Hooks \ {h} : hook'[g] = hook[g]
BY DEF WorldFit

\* A hook that starts after all the others have ended holds what it should.
LEMMA StartStep ==
  ASSUME Inv, NEW h \in Hooks, Starts(h), NEW k, HookFit(k), hook' = [hook EXCEPT ![h] = k],
         heard' \in [Sessions -> Tidings], UNCHANGED ledger, k.pc \in {"idle", "truncate"},
         clean' => /\ k.pc = "idle" => \A s \in Sessions : InStep(ledger[s], s)'
                   /\ k.pc = "truncate" => Keeps(k, k.save)'
  PROVE  Inv'
<1>1. /\ hook' = [g \in Hooks |-> hook'[g]] /\ \A g \in Hooks : HookFit(hook'[g])
      /\ hook'[h] = k /\ \A g \in Hooks \ {h} : hook'[g] = hook[g]
  BY OneMoves DEF Inv
<1>2. WorldFit' BY <1>1 DEF WorldFit, Inv, Starts
<1>3. ASSUME clean' PROVE Alone' /\ Quietly' /\ Steadily'
  <2>1. \A g \in Hooks : hook[g].pc = "idle" BY <1>3 DEF Starts
  <2>2. Alone' BY <1>1, <2>1 DEF Alone
  <2>3. Quietly' BY <1>1, <1>3 DEF Quietly
  <2>4. Steadily' BY <1>1, <1>3, <2>1 DEF Steadily
  <2>5. QED BY <2>2, <2>3, <2>4
<1>4. QED BY <1>2, <1>3 DEF Inv

\* A call holds what its decision will save, and its session has heard nothing of
\* a window it was not known to have.
LEMMA CallStep ==
  ASSUME AdvisoryBounds, Inv, NEW h \in Hooks, NEW s \in Sessions, NEW m \in Models,
         NEW o \in Levels, NEW r \in Responses, Call(h, s, m, o, r)
  PROVE  /\ Inv'
         /\ clean' => hook'[h].told.tier =
              IF hook'[h].reached > heard'[hook'[h].session].tier THEN hook'[h].reached ELSE 0
<1>1. PICK e : e = ledger[s] OBVIOUS
<1>2. PICK d : d = Decided(e, m, o, r) OBVIOUS
<1>3. e \in Entries BY <1>1 DEF Inv, WorldFit
<1>4. /\ d.entry \in Entries /\ d.told \in Tidings /\ d.tier \in Tiers
      /\ d.entry.window = d.told.window
      /\ d.told.tier = IF d.tier > Warned(e, d.told.window) THEN d.tier ELSE 0
      /\ d.entry.warned = IF d.told.tier > 0 THEN d.told.tier ELSE Warned(e, d.told.window)
  BY <1>2, <1>3, Decides
<1>5. PICK f : f = [ledger EXCEPT ![s] = d.entry] OBVIOUS
<1>6. PICK k : k = [pc |-> "truncate", session |-> s, told |-> d.told, reached |-> d.tier,
                   save |-> f]
  OBVIOUS
<1>7. f \in [Sessions -> Entries] /\ f[s] = d.entry /\ \A t \in Sessions \ {s} : f[t] = ledger[t]
  BY <1>4, <1>5 DEF Inv, WorldFit
<1>8. /\ Starts(h) /\ hook' = [hook EXCEPT ![h] = k] /\ UNCHANGED ledger
      /\ heard' = IF heard[s].window = d.told.window THEN heard
                  ELSE [heard EXCEPT ![s] = [tier |-> 0, window |-> d.told.window]]
  BY <1>1, <1>2, <1>5, <1>6 DEF Call
<1>9. heard' \in [Sessions -> Tidings]
  BY <1>4, <1>8 DEF Inv, WorldFit, Tidings, Tiers
<1>10. /\ \A t \in Sessions \ {s} : heard'[t] = heard[t]
       /\ heard'[s].window = d.told.window
       /\ heard'[s].tier = IF heard[s].window = d.told.window THEN heard[s].tier ELSE 0
  BY <1>8 DEF Inv, WorldFit, Tidings
<1>11. HookFit(k) BY <1>4, <1>6, <1>7 DEF HookFit, Places
<1>12. ASSUME clean' PROVE heard'[s].tier = Warned(e, d.told.window) /\ Keeps(k, k.save)'
  <2>1. \A t \in Sessions : InStep(ledger[t], t) BY <1>8, <1>12 DEF Inv, Quietly, Starts, WorldFit
  <2>2. heard[s].tier = e.warned /\ heard[s].window = e.window BY <1>1, <2>1 DEF InStep
  <2>3. heard'[s].tier = Warned(e, d.told.window) BY <1>10, <2>2 DEF Warned
  <2>4. ASSUME NEW t \in Sessions, t # s PROVE InStep(f[t], t)'
    BY <1>7, <1>10, <2>1, <2>4 DEF InStep
  <2>5. ASSUME d.told.tier = 0 PROVE InStep(f[s], s)'
    <3>1. PICK a : a = f[s] OBVIOUS
    <3>2. a.warned = Warned(e, d.told.window) /\ a.window = d.told.window
      BY <1>4, <1>7, <2>5, <3>1
    <3>3. InStep(a, s)' BY <1>10, <2>3, <3>2 DEF InStep
    <3>4. QED BY <3>1, <3>3
  <2>6. d.told.tier > 0 => f[s].warned = d.told.tier /\ f[s].window = d.told.window
    BY <1>4, <1>7
  <2>7. QED BY <1>6, <2>3, <2>4, <2>5, <2>6 DEF Keeps
<1>13. Inv' BY <1>6, <1>8, <1>9, <1>11, <1>12, StartStep
<1>14. hook'[h] = k BY <1>8 DEF Inv, WorldFit
<1>15. QED BY <1>4, <1>6, <1>12, <1>13, <1>14

\* A compaction forgets what the session was told, on record and in fact.
LEMMA ResetStep ==
  ASSUME Inv, NEW h \in Hooks, NEW s \in Sessions, Reset(h, s)
  PROVE  /\ Inv'
         /\ hook'[h].pc # "idle" => hook'[h].told.tier = 0 /\ hook'[h].reached = 0
<1>1. Quiet \in Tidings /\ NoEntry \in Entries /\ Quiet.tier = 0 /\ Quiet.window = 0
      /\ NoEntry.warned = 0 /\ NoEntry.window = 0
  BY DEF Quiet, NoEntry, Tidings, Tiers, Entries
<1>2. PICK f : f = [ledger EXCEPT ![s] = NoEntry] OBVIOUS
<1>3. f \in [Sessions -> Entries] /\ f[s] = NoEntry /\ \A t \in Sessions \ {s} : f[t] = ledger[t]
  BY <1>1, <1>2 DEF Inv, WorldFit
<1>4. PICK k : k = IF ledger[s] = NoEntry THEN Idle
                   ELSE [pc |-> "truncate", session |-> s, save |-> f, told |-> Quiet,
                         reached |-> 0]
  OBVIOUS
<1>5. /\ Starts(h) /\ hook' = [hook EXCEPT ![h] = k] /\ UNCHANGED ledger
      /\ heard' = [heard EXCEPT ![s] = Quiet]
  BY <1>2, <1>4 DEF Reset
<1>6. /\ heard' \in [Sessions -> Tidings] /\ heard'[s] = Quiet
      /\ \A t \in Sessions \ {s} : heard'[t] = heard[t]
  BY <1>1, <1>5 DEF Inv, WorldFit
<1>7. HookFit(k) BY <1>1, <1>3, <1>4 DEF HookFit, Places, Idle, Tiers
<1>8. k.pc \in {"idle", "truncate"} /\ (k.pc # "idle" => k.told.tier = 0 /\ k.reached = 0)
  BY <1>1, <1>4 DEF Idle
<1>9. ASSUME clean' PROVE /\ k.pc = "idle" => \A t \in Sessions : InStep(ledger[t], t)'
                          /\ k.pc = "truncate" => Keeps(k, k.save)'
  <2>1. \A t \in Sessions : InStep(ledger[t], t) BY <1>5, <1>9 DEF Inv, Quietly, Starts, WorldFit
  <2>2. \A t \in Sessions \ {s} : InStep(f[t], t)'
    BY <1>3, <1>6, <2>1 DEF InStep
  <2>3. InStep(f[s], s)' BY <1>1, <1>3, <1>6 DEF InStep
  <2>4. CASE ledger[s] = NoEntry
    <3>1. f = ledger BY <1>2, <2>4 DEF Inv, WorldFit
    <3>2. k.pc = "idle" BY <1>4, <2>4 DEF Idle
    <3>3. ledger' = ledger BY <1>5
    <3>4. QED BY <2>2, <2>3, <3>1, <3>2, <3>3
  <2>5. CASE ledger[s] # NoEntry
    <3>1. k.pc = "truncate" /\ k.save = f /\ k.told.tier = 0 BY <1>1, <1>4, <2>5
    <3>2. QED BY <2>2, <2>3, <3>1 DEF Keeps
  <2>6. QED BY <2>4, <2>5
<1>10. Inv' BY <1>5, <1>6, <1>7, <1>8, <1>9, StartStep
<1>11. hook'[h] = k BY <1>5 DEF Inv, WorldFit
<1>12. QED BY <1>8, <1>10, <1>11

\* A file that is truncated, and then written, becomes what its hook holds.
LEMMA FileStep ==
  ASSUME Inv, NEW h \in Hooks, Truncate(h) \/ Write(h) PROVE Inv'
<1>1. Empty \in [Sessions -> Entries] BY DEF Empty, NoEntry, Entries
<1>2. PICK k : k = hook[h] OBVIOUS
<1>3. HookFit(k) /\ k.pc \in {"truncate", "write"}
  BY <1>2 DEF Inv, WorldFit, Truncate, Write
<1>4. PICK n : n = IF k.pc = "truncate" THEN [k EXCEPT !.pc = "write"]
                   ELSE IF k.told.tier = 0 THEN Idle ELSE [k EXCEPT !.pc = "tell"]
  OBVIOUS
<1>5. HookFit(n) BY <1>3, <1>4 DEF HookFit, Places, Idle
<1>6. hook' = [hook EXCEPT ![h] = n] /\ UNCHANGED <<heard, clean, calls>>
  BY <1>2, <1>4 DEF Truncate, Write, Inv, WorldFit
<1>7. ledger' = IF k.pc = "truncate" THEN Empty ELSE k.save
  BY <1>2 DEF Truncate, Write
<1>8. /\ hook' = [g \in Hooks |-> hook'[g]] /\ \A g \in Hooks : HookFit(hook'[g])
      /\ hook'[h] = n /\ \A g \in Hooks \ {h} : hook'[g] = hook[g]
  BY <1>5, <1>6, OneMoves DEF Inv
<1>9. WorldFit' BY <1>1, <1>3, <1>6, <1>7, <1>8 DEF WorldFit, Inv, HookFit
<1>10. ASSUME clean' PROVE Alone' /\ Quietly' /\ Steadily'
  <2>1. Alone /\ Quietly /\ Steadily BY <1>6, <1>10 DEF Inv
  <2>2. \A g \in Hooks \ {h} : hook[g].pc = "idle" BY <1>2, <1>3, <2>1 DEF Alone
  <2>3. Alone' BY <1>8, <2>2 DEF Alone
  <2>4. Keeps(k, k.save) BY <1>2, <1>3, <2>1 DEF Steadily
  <2>5. CASE k.pc = "truncate"
    <3>1. n.pc = "write" /\ n.session = k.session /\ n.told = k.told /\ n.save = k.save
      BY <1>3, <1>4, <2>5 DEF HookFit
    <3>2. Keeps(n, n.save)' BY <1>6, <2>4, <3>1 DEF Keeps, InStep
    <3>3. Steadily' BY <1>8, <2>2, <3>1, <3>2 DEF Steadily
    <3>4. Quietly' BY <1>8, <3>1 DEF Quietly
    <3>5. QED BY <2>3, <3>3, <3>4
  <2>6. CASE k.pc = "write" /\ k.told.tier = 0
    <3>1. n = Idle /\ n.pc = "idle" BY <1>4, <2>6 DEF Idle
    <3>2. ledger' = k.save BY <1>7, <2>6
    <3>3. Quietly' BY <1>6, <2>4, <2>6, <3>2 DEF Quietly, Keeps, InStep
    <3>4. Steadily' BY <1>8, <2>2, <3>1 DEF Steadily
    <3>5. QED BY <2>3, <3>3, <3>4
  <2>7. CASE k.pc = "write" /\ k.told.tier # 0
    <3>1. n.pc = "tell" /\ n.session = k.session /\ n.told = k.told
      BY <1>3, <1>4, <2>7 DEF HookFit
    <3>2. ledger' = k.save BY <1>7, <2>7
    <3>3. Keeps(n, k.save)' BY <1>6, <2>4, <3>1 DEF Keeps, InStep
    <3>4. Keeps(n, ledger)' BY <3>2, <3>3 DEF Keeps, InStep
    <3>5. Steadily' BY <1>8, <2>2, <3>1, <3>4 DEF Steadily
    <3>6. Quietly' BY <1>8, <3>1 DEF Quietly
    <3>7. QED BY <2>3, <3>5, <3>6
  <2>8. QED BY <1>3, <2>5, <2>6, <2>7
<1>11. QED BY <1>9, <1>10 DEF Inv

\* A session has heard what its hook tells it.
LEMMA TellStep == ASSUME Inv, NEW h \in Hooks, Tell(h) PROVE Inv'
<1>1. PICK k : k = hook[h] OBVIOUS
<1>2. HookFit(k) /\ k.pc = "tell" BY <1>1 DEF Inv, WorldFit, Tell
<1>3. k.session \in Sessions /\ k.told \in Tidings BY <1>2 DEF HookFit
<1>4. /\ heard' = [heard EXCEPT ![k.session] = k.told] /\ UNCHANGED <<ledger, clean, calls>>
      /\ hook' = [hook EXCEPT ![h] = Idle]
  BY <1>1 DEF Tell
<1>5. HookFit(Idle) /\ Idle.pc = "idle" BY DEF Idle, HookFit, Places
<1>6. /\ hook' = [g \in Hooks |-> hook'[g]] /\ \A g \in Hooks : HookFit(hook'[g])
      /\ hook'[h] = Idle /\ \A g \in Hooks \ {h} : hook'[g] = hook[g]
  BY <1>4, <1>5, OneMoves DEF Inv
<1>7. /\ heard' \in [Sessions -> Tidings] /\ heard'[k.session] = k.told
      /\ \A s \in Sessions \ {k.session} : heard'[s] = heard[s]
  BY <1>3, <1>4 DEF Inv, WorldFit
<1>8. WorldFit' BY <1>4, <1>6, <1>7 DEF WorldFit, Inv
<1>9. ASSUME clean' PROVE Alone' /\ Quietly' /\ Steadily'
  <2>1. Alone /\ Steadily BY <1>4, <1>9 DEF Inv
  <2>2. \A g \in Hooks \ {h} : hook[g].pc = "idle" BY <1>1, <1>2, <2>1 DEF Alone
  <2>3. \A g \in Hooks : hook'[g].pc = "idle" BY <1>5, <1>6, <2>2
  <2>4. Keeps(k, ledger) BY <1>1, <1>2, <2>1 DEF Steadily
  <2>5. \A s \in Sessions \ {k.session} : InStep(ledger[s], s)'
    BY <1>4, <1>7, <2>4 DEF Keeps, InStep
  <2>6. InStep(ledger[k.session], k.session)'
    <3>1. k.told.tier > 0 BY <1>2, <1>3 DEF HookFit, Tidings, Tiers
    <3>2. QED BY <1>4, <1>7, <2>4, <3>1 DEF Keeps, InStep
  <2>7. Quietly' BY <2>5, <2>6 DEF Quietly
  <2>8. QED BY <2>3, <2>7 DEF Alone, Steadily
<1>10. QED BY <1>8, <1>9 DEF Inv

\* A hook that cannot write tells all the same; one that is killed does not.
LEMMA BrokenStep == ASSUME Inv, NEW h \in Hooks, Unwritten(h) \/ Killed(h) PROVE Inv'
<1>1. PICK k : k = hook[h] OBVIOUS
<1>2. HookFit(k) BY <1>1 DEF Inv, WorldFit
<1>3. PICK n : /\ hook' = [hook EXCEPT ![h] = n]
               /\ n = Idle \/ (k.pc = "truncate" /\ k.told.tier # 0 /\ n = [k EXCEPT !.pc = "tell"])
  BY <1>1 DEF Unwritten, Killed, Inv, WorldFit
<1>4. HookFit(n)
  <2>1. HookFit(Idle) BY DEF HookFit, Places, Idle
  <2>2. CASE k.pc = "truncate" /\ k.told.tier # 0 /\ n = [k EXCEPT !.pc = "tell"]
    <3>1. k.session \in Sessions /\ k.save \in [Sessions -> Entries] /\ k.told \in Tidings
          /\ k.reached \in Tiers
      BY <1>2, <2>2 DEF HookFit
    <3>2. n.session = k.session /\ n.save = k.save /\ n.told = k.told /\ n.reached = k.reached
      BY <2>2
    <3>3. n.pc \in Places /\ n.told.tier # 0 BY <1>2, <2>2, <3>2 DEF HookFit, Places
    <3>4. QED BY <3>1, <3>2, <3>3 DEF HookFit
  <2>3. QED BY <1>3, <2>1, <2>2
<1>5. /\ hook' = [g \in Hooks |-> hook'[g]] /\ \A g \in Hooks : HookFit(hook'[g])
  BY <1>3, <1>4, OneMoves DEF Inv
<1>6. clean' = FALSE /\ UNCHANGED <<ledger, heard>> BY DEF Unwritten, Killed
<1>7. QED BY <1>5, <1>6 DEF Inv, WorldFit

\* What a step tells, if it tells anything.
Tells ==
  \A h \in Hooks :
    hook[h].pc = "idle" /\ hook'[h].pc # "idle" /\ clean' =>
      hook'[h].told.tier =
        (IF hook'[h].reached > heard'[hook'[h].session].tier THEN hook'[h].reached ELSE 0)

\* Only the hook that moves leaves its place.
LEMMA OneLeaves ==
  ASSUME WorldFit, NEW h \in Hooks, NEW k, hook' = [hook EXCEPT ![h] = k], NEW g \in Hooks, g # h
  PROVE  hook'[g] = hook[g]
BY DEF WorldFit

\* Every step keeps the invariant, and tells a tier exactly when it is crossed.
LEMMA StepInv == ASSUME AdvisoryBounds, Inv, [Next]_vars PROVE Inv' /\ Tells
<1>1. CASE UNCHANGED vars
  <2>1. Tells BY <1>1 DEF Tells, vars
  <2>2. Inv'
    BY <1>1 DEF vars, Inv, WorldFit, HookFit, Alone, Quietly, Steadily, Keeps, InStep
  <2>3. QED BY <2>1, <2>2
<1>2. ASSUME NEW h \in Hooks, Truncate(h) \/ Write(h) \/ Tell(h) \/ Unwritten(h) \/ Killed(h)
      PROVE  Inv' /\ Tells
  <2>1. Inv' BY <1>2, FileStep, TellStep, BrokenStep
  <2>2. PICK k : hook' = [hook EXCEPT ![h] = k]
    BY <1>2 DEF Truncate, Write, Tell, Unwritten, Killed, Inv, WorldFit
  <2>3. hook[h].pc # "idle" BY <1>2 DEF Truncate, Write, Tell, Unwritten, Killed
  <2>4. \A g \in Hooks \ {h} : hook'[g] = hook[g] BY <2>2, OneLeaves DEF Inv
  <2>5. Tells BY <2>3, <2>4 DEF Tells
  <2>6. QED BY <2>1, <2>5
<1>3. ASSUME NEW h \in Hooks, NEW s \in Sessions, Reset(h, s) PROVE Inv' /\ Tells
  <2>1. Inv' /\ (hook'[h].pc # "idle" => hook'[h].told.tier = 0 /\ hook'[h].reached = 0)
    BY <1>3, ResetStep
  <2>2. PICK k : hook' = [hook EXCEPT ![h] = k] BY <1>3 DEF Reset
  <2>3. \A g \in Hooks \ {h} : hook'[g] = hook[g] BY <2>2, OneLeaves DEF Inv
  <2>4. Tells BY <2>1, <2>3 DEF Tells
  <2>5. QED BY <2>1, <2>4
<1>4. ASSUME NEW h \in Hooks, NEW s \in Sessions, NEW m \in Models, NEW o \in Levels,
             NEW r \in Responses, Call(h, s, m, o, r)
      PROVE  Inv' /\ Tells
  <2>1. /\ Inv'
        /\ clean' => hook'[h].told.tier =
             IF hook'[h].reached > heard'[hook'[h].session].tier THEN hook'[h].reached ELSE 0
    BY <1>4, CallStep
  <2>2. PICK k : hook' = [hook EXCEPT ![h] = k] BY <1>4 DEF Call
  <2>3. \A g \in Hooks \ {h} : hook'[g] = hook[g] BY <2>2, OneLeaves DEF Inv
  <2>4. Tells BY <2>1, <2>3 DEF Tells
  <2>5. QED BY <2>1, <2>4
<1>5. QED BY <1>1, <1>2, <1>3, <1>4 DEF Next

-----------------------------------------------------------------------------
(* The theorems                                                              *)

\* Ledger, hooks and what was heard are well typed, whatever overlaps, fails or
\* is killed (context_advisory_hook.py:60-99).
THEOREM TypeCorrect == ASSUME AdvisoryBounds PROVE Spec => []TypeOK
<1>1. Init => Inv BY InitInv
<1>2. Inv /\ [Next]_vars => Inv' BY StepInv
<1>3. Inv => TypeOK
  BY DEF Inv, WorldFit, HookFit, Places, Tidings, Tiers, TypeOK
<1>4. QED BY <1>1, <1>2, <1>3, PTL DEF Spec

\* While no two hooks overlap and none is killed, a tier is told exactly when it
\* is crossed (context_advisory_hook.py:65-68, 642-650).
THEOREM EachCrossingIsTold == ASSUME AdvisoryBounds PROVE Spec => ToldOfEachCrossingOnce
<1>1. Init => Inv BY InitInv
<1>2. Inv /\ [Next]_vars => Inv' BY StepInv
<1>3. Inv /\ [Next]_vars => [Tells]_vars BY StepInv
<1>4. QED BY <1>1, <1>2, <1>3, PTL DEF Spec, ToldOfEachCrossingOnce, Tells
=============================================================================
