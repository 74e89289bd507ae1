------------------------------- MODULE Mailbox ------------------------------
(***************************************************************************)
(* What a durable retry queue promises, without workers, batches, locks or *)
(* files: a letter that was accepted waits until it has been delivered or  *)
(* refused, several times perhaps, and one that was settled never waits    *)
(* again.                                                                  *)
(***************************************************************************)
CONSTANT Letters

VARIABLES
  accepted,    \* letters the queue has taken responsibility for
  waiting,     \* those it will try again
  delivered,   \* those whose addressee holds what they say
  refused      \* those on the list of the undeliverable

vars == <<accepted, waiting, delivered, refused>>

Init == accepted = {} /\ waiting = {} /\ delivered = {} /\ refused = {}

Accept(l) ==
  /\ l \notin accepted
  /\ accepted' = accepted \cup {l} /\ waiting' = waiting \cup {l}
  /\ delivered' \in {delivered, delivered \cup {l}}
  /\ UNCHANGED refused

\* An addressee learns something; letters that say it count as delivered.
Deliver ==
  /\ delivered \subseteq delivered' /\ delivered' \subseteq accepted
  /\ UNCHANGED <<accepted, waiting, refused>>

Refuse(l) ==
  /\ l \in waiting /\ refused' = refused \cup {l}
  /\ UNCHANGED <<accepted, waiting, delivered>>

Settle ==
  /\ waiting' \subseteq waiting
  /\ waiting \ waiting' \subseteq delivered \cup refused
  /\ UNCHANGED <<accepted, delivered, refused>>

Next == Deliver \/ Settle \/ \E l \in Letters : Accept(l) \/ Refuse(l)

Spec == Init /\ [][Next]_vars
=============================================================================
