---------------------------- MODULE Finalization ----------------------------
(***************************************************************************)
(* The finalization latch: one record, changed under a lock and replaced   *)
(* in one write, by whoever finishes a session and by whoever is told to   *)
(* block that.  Runtimes are replaced in between, so every call may be     *)
(* repeated or come late; only the acknowledgement names what it is about. *)
(***************************************************************************)
CONSTANTS
  Dispatches,   \* identifiers of blocks
  Unset         \* none of them

\* Assumed of the constants, wherever they are given values.
DispatchBounds == Unset \notin Dispatches

VARIABLES
  record,   \* the file
  latest,   \* history: the block recorded last
  cleared,  \* history: blocks somebody has acknowledged
  final     \* history: finalize has succeeded

vars == <<record, latest, cleared, final>>

-----------------------------------------------------------------------------
Phases == {"active", "blocked", "finalized"}
NoFile == [phase |-> "none", block |-> Unset, retro |-> FALSE, summary |-> FALSE]
Exists == record.phase # "none"

Init == record = NoFile /\ latest = Unset /\ cleared = {} /\ final = FALSE

\* The first request makes the record; it is returned to the same request, and
\* refused to another.
Begin ==
  /\ ~Exists /\ record' = [NoFile EXCEPT !.phase = "active"]
  /\ UNCHANGED <<latest, cleared, final>>

\* A block replaces the one that is pending; after the end it is refused.
RecordBlock(d) ==
  /\ Exists /\ record.phase # "finalized"
  /\ record' = [record EXCEPT !.phase = "blocked", !.block = d]
  /\ latest' = d /\ UNCHANGED <<cleared, final>>

\* Faulty variant: an acknowledgement is taken to be about what is pending.
AcknowledgeAnyBlock(d) ==
  /\ Exists
  /\ record' = [record EXCEPT !.phase = "active", !.block = Unset]
  /\ cleared' = cleared \cup {d} /\ UNCHANGED <<latest, final>>

\* An acknowledgement of another block than the pending one changes nothing.
AcknowledgeBlock(d) ==
  /\ Exists
  /\ record' = IF record.block = d
               THEN [record EXCEPT !.phase = "active", !.block = Unset] ELSE record
  /\ cleared' = cleared \cup {d} /\ UNCHANGED <<latest, final>>

\* The retrospective was submitted, or the summary shown.
Mark(what) ==
  /\ Exists /\ record' = [record EXCEPT ![what] = TRUE]
  /\ UNCHANGED <<latest, cleared, final>>

Finalize ==
  /\ Exists /\ record.block = Unset /\ record.retro /\ record.summary
  /\ record' = [record EXCEPT !.phase = "finalized"]
  /\ final' = TRUE /\ UNCHANGED <<latest, cleared>>

Next ==
  \/ Begin \/ Finalize
  \/ \E d \in Dispatches : RecordBlock(d) \/ AcknowledgeBlock(d)
  \/ \E what \in {"retro", "summary"} : Mark(what)

Spec == Init /\ [][Next]_vars

-----------------------------------------------------------------------------
TypeOK ==
  /\ record \in [phase : Phases \cup {"none"}, block : Dispatches \cup {Unset},
                 retro : BOOLEAN, summary : BOOLEAN]
  /\ (record.phase = "blocked") = (record.block # Unset)
  /\ latest \in Dispatches \cup {Unset} /\ cleared \subseteq Dispatches
  /\ final \in BOOLEAN

\* What was finalized stays so, and only without a block: the last one recorded
\* was acknowledged by its own identifier, however late or repeated the calls
\* were that came before and after (finalization.py:97-125).
FinalStands ==
  final => /\ record.phase = "finalized" /\ record.retro /\ record.summary
           /\ latest \in cleared \cup {Unset}
=============================================================================
