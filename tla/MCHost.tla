------------------------------- MODULE MCHost -------------------------------
(***************************************************************************)
(* What the host runs beside the rotation: the resource guardian, the      *)
(* evidence of its bake, the context advisory and the finalization latch.  *)
(* They share no state, so a behaviour is one of one of them, chosen at    *)
(* the start.                                                              *)
(***************************************************************************)
EXTENDS ResourceGuardian, TLC

CONSTANTS Contents, Sinks, MaxRecords, MaxReports
CONSTANTS Sessions, Hooks, Levels, Responses, MaxCalls
CONSTANTS Dispatches, Unset

VARIABLES part
VARIABLES active, spool, sink, posted, recorded
VARIABLES ledger, hook, heard, clean, calls
VARIABLES record, latest, cleared, final

\* A model known by its plain name, and one known to have the long window.
Models ==
  {[detected |-> 200, candidates |-> {200, 1000}], [detected |-> 1000, candidates |-> {1000}]}

B == INSTANCE BakeSpool
A == INSTANCE Advisory
F == INSTANCE Finalization

ASSUME HostAssumption == B!SpoolBounds /\ A!AdvisoryBounds /\ F!DispatchBounds

bakeVars     == <<active, spool, sink, posted, recorded>>
advisoryVars == <<ledger, hook, heard, clean, calls>>
latchVars    == <<record, latest, cleared, final>>
hostVars     == <<part, vars, bakeVars, advisoryVars, latchVars>>

HostInit ==
  /\ part \in {"guardian", "bake", "advisory", "latch"}
  /\ Init /\ B!Init /\ A!Init /\ F!Init

HostNext ==
  \/ part = "guardian" /\ Next /\ UNCHANGED <<part, bakeVars, advisoryVars, latchVars>>
  \/ part = "bake" /\ B!Next /\ UNCHANGED <<part, vars, advisoryVars, latchVars>>
  \/ part = "advisory" /\ A!Next /\ UNCHANGED <<part, vars, bakeVars, latchVars>>
  \/ part = "latch" /\ F!Next /\ UNCHANGED <<part, vars, bakeVars, advisoryVars>>

HostSpec == HostInit /\ [][HostNext]_hostVars

Alike == Permutations(Guardians) \cup Permutations(Keys)

-----------------------------------------------------------------------------
\* Each part keeps to its types (resource_registry.py, guardian_bake_spool.py,
\* context_advisory_hook.py, finalization.py).
HostTypeOK == TypeOK /\ B!TypeOK /\ A!TypeOK /\ F!TypeOK

\* What was recorded waits in the spool or is a comment of the issue
\* (guardian_bake_spool.py:99-114).
EvidenceKept == B!EvidenceKept

\* One content is commented once, however often a drain is retried
\* (guardian_bake_linear.py:75-84).
PostedOnce == B!PostedOnce

\* Sessions are told of each crossing once, while no two hooks overlap
\* (context_advisory_hook.py:642-650).
ToldOfEachCrossingOnce == A!ToldOfEachCrossingOnce

\* A session is finalized once and for good, and over no block that was not
\* acknowledged (finalization.py:97-125).
FinalStands == F!FinalStands
=============================================================================
