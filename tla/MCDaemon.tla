------------------------------ MODULE MCDaemon ------------------------------
(***************************************************************************)
(* Two controllers and two definitions; nothing tells one of either from   *)
(* the other, and nothing checked is about fairness.                       *)
(***************************************************************************)
EXTENDS Daemon, TLC

Alike == Permutations(Controllers) \cup Permutations(Definitions)
=============================================================================
