------------------------------ MODULE MCOutbox ------------------------------
(***************************************************************************)
(* Two mirrors, of which the operator's command serves one, and entries    *)
(* that share a claim lock with the next but one.                          *)
(***************************************************************************)
EXTENDS Outbox

CONSTANTS beads, linear

BeadsFirst == <<beads, linear>>
TwoStripes(id) == id % 2
EitherWay(m)   == IF m = beads THEN {"down", "gone"} ELSE {"down"}
=============================================================================
