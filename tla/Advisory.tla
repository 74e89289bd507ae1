------------------------------ MODULE Advisory ------------------------------
(***************************************************************************)
(* The context advisory: a hook runs after every tool call, loads a ledger *)
(* that all sessions of a project share, decides whether the conversation  *)
(* has crossed a tier of its window, saves the ledger and tells the agent. *)
(* Nothing locks the ledger, and it is truncated before it is written.     *)
(***************************************************************************)
EXTENDS Naturals, FiniteSets

CONSTANTS
  Sessions,    \* sessions of one project
  Hooks,       \* hook processes that may run at the same time
  Models,      \* what may be known of the model: records of Known
  Levels,      \* what a transcript may say is resident (0: nothing)
  Responses,   \* what a tool's response may be estimated at
  MaxCalls     \* bound: hooks ever started

Windows == {128, 200, 400, 1000}     \* KNOWN_WINDOW_TIERS, in thousands
Known   == [detected : Windows, candidates : SUBSET Windows]

\* Assumed of the constants, wherever they are given values.
AdvisoryBounds ==
  Models \subseteq Known /\ Levels \subseteq Nat /\ Responses \subseteq Nat /\ MaxCalls \in Nat

VARIABLES
  ledger,   \* what the file says of each session
  hook,     \* what each hook process is doing
  heard,    \* history: the tier a session was told last, and of which window
  clean,    \* history: no two hooks have overlapped, and none was killed
  calls     \* bound: hooks left to start

vars == <<ledger, hook, heard, clean, calls>>

-----------------------------------------------------------------------------
NoEntry == [tokens |-> 0, warned |-> 0, window |-> 0]
Entries == [tokens : Nat, warned : 0 .. 2, window : Nat]
Quiet   == [tier |-> 0, window |-> 0]
NoSession == "none"
Empty == [s \in Sessions |-> NoEntry]
Idle == [pc |-> "idle", session |-> NoSession, save |-> Empty, told |-> Quiet, reached |-> 0]

Init ==
  /\ ledger = Empty
  /\ hook = [h \in Hooks |-> Idle]
  /\ heard = [s \in Sessions |-> Quiet]
  /\ clean = TRUE /\ calls = MaxCalls

-----------------------------------------------------------------------------
(* The window and the tier                                                   *)

Least(S) == CHOOSE w \in S : \A v \in S : w <= v

\* _promote_window_to_fit: a window that occupancy disproves gives way to the
\* next that the model offers, or else any that fits.
Promoted(window, observed, candidates) ==
  LET fitting(S) == {w \in S : w >= observed} IN
  CASE observed <= window -> window
    [] observed > window /\ fitting(candidates) # {} -> Least(fitting(candidates))
    [] observed > window /\ fitting(candidates) = {} /\ fitting(Windows) # {} ->
         Least(fitting(Windows))
    [] OTHER -> observed

Window(m, observed) == Promoted(m.detected, observed, m.candidates)

TierFor(tokens, window) ==
  Cardinality({percent \in {65, 85} : 100 * tokens >= percent * window})

\* Faulty variant: a tier of another window still gags.
WarnedEver(entry, window) == entry.warned

\* A tier recorded against another window is forgotten, for good.
Warned(entry, window) == IF entry.window = window THEN entry.warned ELSE 0

\* What one call makes of the session's entry, and what it tells.
Decided(entry, m, observed, response) ==
  LET window == Window(m, observed)
      tokens == entry.tokens + response
      occupancy == IF observed > 0 THEN observed + response ELSE tokens
      tier == TierFor(occupancy, window)
      warned == Warned(entry, window)
      emit == tier > warned
  IN [entry |-> [tokens |-> tokens, window |-> window,
                 warned |-> IF emit THEN tier ELSE warned],
      told |-> [tier |-> IF emit THEN tier ELSE 0, window |-> window],
      tier |-> tier]

-----------------------------------------------------------------------------
(* One hook process: main and _reset                                         *)

Starts(h) ==
  /\ hook[h].pc = "idle" /\ calls > 0 /\ calls' = calls - 1
  /\ clean' = (clean /\ \A g \in Hooks : hook[g].pc = "idle")

\* PostToolUse: the ledger is loaded and the decision taken.
Call(h, s, m, observed, response) ==
  LET d == Decided(ledger[s], m, observed, response) IN
  /\ Starts(h)
  /\ hook' = [hook EXCEPT ![h] = [pc |-> "truncate", session |-> s,
                                  told |-> d.told, reached |-> d.tier,
                                  save |-> [ledger EXCEPT ![s] = d.entry]]]
  /\ heard' = IF heard[s].window = d.told.window THEN heard
              ELSE [heard EXCEPT ![s] = [tier |-> 0, window |-> d.told.window]]
  /\ UNCHANGED ledger

\* PreCompact: the session's entry is dropped.
Reset(h, s) ==
  /\ Starts(h)
  /\ hook' = [hook EXCEPT ![h] =
       IF ledger[s] = NoEntry THEN Idle
       ELSE [pc |-> "truncate", session |-> s, told |-> Quiet, reached |-> 0,
             save |-> [ledger EXCEPT ![s] = NoEntry]]]
  /\ heard' = [heard EXCEPT ![s] = Quiet]
  /\ UNCHANGED ledger

\* A file that is truncated reads as empty, whatever it held of other sessions.
Truncate(h) ==
  /\ hook[h].pc = "truncate" /\ ledger' = Empty
  /\ hook' = [hook EXCEPT ![h].pc = "write"] /\ UNCHANGED <<heard, clean, calls>>

Write(h) ==
  /\ hook[h].pc = "write" /\ ledger' = hook[h].save
  /\ hook' = [hook EXCEPT ![h] = IF @.told.tier = 0 THEN Idle ELSE [@ EXCEPT !.pc = "tell"]]
  /\ UNCHANGED <<heard, clean, calls>>

Tell(h) ==
  /\ hook[h].pc = "tell"
  /\ heard' = [heard EXCEPT ![hook[h].session] = hook[h].told]
  /\ hook' = [hook EXCEPT ![h] = Idle] /\ UNCHANGED <<ledger, clean, calls>>

\* The file cannot be written: the hook tells all the same.
Unwritten(h) ==
  /\ hook[h].pc = "truncate" /\ clean' = FALSE
  /\ hook' = [hook EXCEPT ![h] = IF @.told.tier = 0 THEN Idle ELSE [@ EXCEPT !.pc = "tell"]]
  /\ UNCHANGED <<ledger, heard, calls>>

\* The runtime gives up on a hook that takes too long.
Killed(h) ==
  /\ hook[h].pc # "idle" /\ hook' = [hook EXCEPT ![h] = Idle]
  /\ clean' = FALSE /\ UNCHANGED <<ledger, heard, calls>>

Next ==
  \E h \in Hooks :
    \/ Truncate(h) \/ Write(h) \/ Tell(h) \/ Unwritten(h) \/ Killed(h)
    \/ \E s \in Sessions :
         \/ Reset(h, s)
         \/ \E m \in Models, o \in Levels, r \in Responses : Call(h, s, m, o, r)

Spec == Init /\ [][Next]_vars

-----------------------------------------------------------------------------
TypeOK ==
  /\ ledger \in [Sessions -> Entries]
  /\ \A h \in Hooks : hook[h].pc \in {"idle", "truncate", "write", "tell"}
  /\ heard \in [Sessions -> [tier : 0 .. 2, window : Nat]]

\* While hooks run one after the other and none is killed, a session is told of
\* a tier exactly when it crosses it: once in a window and a compaction, and
\* again when the window has been found to be another
\* (context_advisory_hook.py:65-68, 642-650).
ToldOfEachCrossingOnce ==
  [][\A h \in Hooks :
       hook[h].pc = "idle" /\ hook'[h].pc # "idle" /\ clean' =>
         hook'[h].told.tier =
           (IF hook'[h].reached > heard'[hook'[h].session].tier THEN hook'[h].reached ELSE 0)]_vars
=============================================================================
