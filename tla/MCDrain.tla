------------------------------- MODULE MCDrain -------------------------------
(***************************************************************************)
(* Statements of the repository about a drain that the code does not keep, *)
(* each checked alone.                                                     *)
(***************************************************************************)
EXTENDS Drain

\* The ledger's counts balance: when the runtime is at rest no turn is open in
\* it.  A turn left open keeps the session busy for good.
TurnsBalance == working = {} => ledger.open["turn"] = 0

\* A drained session can still be rotated: its consent is on record, or a turn is
\* open whose Stop will ask for it, or a prompt that starts one is let through.
DrainCanEnd ==
  snapshot.phase = "draining" =>
    \/ Latest("request", Len(ledger.log)) > snapshot.invalidated
    \/ "turn" \in working \/ prompt \/ PromptLetThrough
=============================================================================
