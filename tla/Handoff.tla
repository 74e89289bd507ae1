------------------------------- MODULE Handoff ------------------------------
(***************************************************************************)
(* What a rotating chain promises, without supervisor processes, files,    *)
(* leases or retries of single effects: one seat, taken by one runtime at  *)
(* a time.  A session is saved before it is ended, its runtime is gone     *)
(* before the task is given up, the task is acquired again only after it   *)
(* was given up, and the seat is taken only by a runtime of the generation *)
(* that acquired the task.  A chain that halts or finishes stays so.       *)
(***************************************************************************)
EXTENDS Naturals

CONSTANT RetryLimit   \* successors of one generation that may be withdrawn

VARIABLES
  stage,        \* how far the chain has come
  generation,   \* the generation the seat belongs to
  attempt,      \* successors of this generation withdrawn so far
  holding,      \* the chain holds the task
  runtimes      \* who sits in the seat

vars == <<stage, generation, attempt, holding, runtimes>>

Stages == {"open", "serving", "saved", "ended", "released", "granted",
           "offered", "halted", "done"}
Final  == {"halted", "done"}

Init ==
  /\ stage = "open" /\ generation = 0 /\ attempt = 0
  /\ holding = FALSE /\ runtimes = {}

\* The chain moves to another stage, its runtime and the task staying as is.
Move(from, to) ==
  /\ stage \in from /\ stage' = to
  /\ UNCHANGED <<generation, attempt, holding, runtimes>>

Serve   == Move({"open", "offered"}, "serving")
Save    == Move({"serving"}, "saved")
End     == runtimes = {} /\ Move({"saved"}, "ended")
Release == ~holding /\ Move({"ended"}, "released")
Offer   == Move({"granted"}, "offered")
Halt    == Move(Stages \ Final, "halted")
Finish  == runtimes = {} /\ Move({"serving"}, "done")

\* The task was acquired for the next generation.
Grant ==
  /\ stage = "released" /\ stage' = "granted"
  /\ generation' = generation + 1 /\ attempt' = 0
  /\ UNCHANGED <<holding, runtimes>>

\* A successor that was offered the task and did not accept is gone before
\* another attempt; a launch that failed may still have seated one late.
Withdraw ==
  /\ stage = "granted" \/ (stage = "offered" /\ runtimes = {})
  /\ attempt < RetryLimit
  /\ stage' = "granted" /\ attempt' = attempt + 1
  /\ UNCHANGED <<generation, holding, runtimes>>

Acquire ==
  /\ stage \in {"open", "released"} /\ holding' = TRUE
  /\ UNCHANGED <<stage, generation, attempt, runtimes>>
Lose ==
  /\ holding' = FALSE
  /\ UNCHANGED <<stage, generation, attempt, runtimes>>

Sit ==
  /\ stage \in {"open", "granted"} /\ runtimes = {}
  /\ \E r \in runtimes' : r.gen = generation /\ runtimes' = {r}
  /\ UNCHANGED <<stage, generation, attempt, holding>>
Leave ==
  /\ runtimes # {} /\ runtimes' = {}
  /\ UNCHANGED <<stage, generation, attempt, holding>>

Next ==
  \/ Serve \/ Save \/ End \/ Release \/ Grant \/ Offer \/ Withdraw
  \/ Acquire \/ Lose \/ Sit \/ Leave \/ Halt \/ Finish

Spec == Init /\ [][Next]_vars
=============================================================================
