-------------------------- MODULE ResourceGuardian --------------------------
(***************************************************************************)
(* Guardians that take turns at one lease per user, a registry in which    *)
(* every registration is an incarnation of its own, and the cleanup that a *)
(* pass of the service proposes and an executor authorises later.  Between *)
(* any two of their steps resources are replaced, processes end, the lease *)
(* expires and another guardian takes it.                                  *)
(***************************************************************************)
EXTENDS Naturals, Sequences, FiniteSets

CONSTANTS
  Guardians,          \* processes that may hold the lease
  Keys,               \* logical keys of resources
  Shapes,             \* what resources are registered with: sets of identities
  EnabledReasons,     \* the reap reasons the host has enabled
  MaxRegistrations,   \* bound: registrations ever made
  MaxEpoch,           \* bound: claims ever granted
  MaxProposals        \* bound: reap publications kept for the executor

ASSUME ShapesAssumption ==
  Shapes \subseteq (SUBSET {"process", "worktree", "lease"}) \ {{}}
ASSUME GuardianBounds == {MaxRegistrations, MaxEpoch, MaxProposals} \subseteq Nat
ASSUME KeysAssumption == IsFiniteSet(Keys)

VARIABLES
  lease,       \* the coordinator's record of the singleton task
  guardian,    \* what each guardian is doing
  resource,    \* the registrations ever made; their index is the registration id
  registry,    \* for each key the registration that is current
  proposed,    \* reap publications
  authorized   \* history: authorisations given

vars == <<lease, guardian, resource, registry, proposed, authorized>>

-----------------------------------------------------------------------------
None  == 0
NoOne == "no one"

\* The identities a resource is registered with, and the truth about its process:
\* what the registered lifetime has come to.
Lives      == {"running", "zombie", "missing"}
Resources  == [key : Keys, has : Shapes, process : Lives]
Registered == DOMAIN resource

\* `handle' is the epoch of the claim a guardian was given, `queue' the
\* registrations its pass has yet to evaluate and `asked' the publication its
\* executor is deciding.
NoPublication == [registration |-> None, epoch |-> None]
Idle(h) == [pc |-> "idle", handle |-> h, queue |-> <<>>, asked |-> NoPublication]
Pass    == {"list", "evaluate", "recheck", "propose"}

Init ==
  /\ lease = [epoch |-> 0, owner |-> NoOne, expired |-> FALSE]
  /\ guardian = [g \in Guardians |-> Idle(None)]
  /\ resource = <<>> /\ registry = [k \in Keys |-> None]
  /\ proposed = {} /\ authorized = {}

-----------------------------------------------------------------------------
(* GuardianSingleton over the coordinator's claim                            *)

\* A lease past its time counts until the coordinator finds it expired.
Current(g) == guardian[g].handle # None /\ lease.epoch = guardian[g].handle /\ lease.owner = g
Stale(g)   == ~Current(g) \/ lease.expired

\* Every acquisition is a new incarnation of the owner, so also a guardian that
\* holds the lease is refused until the lease ends.
Acquire(g) ==
  /\ guardian[g].pc = "idle" /\ lease.epoch < MaxEpoch
  /\ lease.owner = NoOne \/ lease.expired
  /\ lease' = [epoch |-> lease.epoch + 1, owner |-> g, expired |-> FALSE]
  /\ guardian' = [guardian EXCEPT ![g] = Idle(lease.epoch + 1)]
  /\ UNCHANGED <<resource, registry, proposed, authorized>>

Heartbeat(g) ==
  /\ guardian[g].pc = "idle" /\ Current(g) /\ lease.expired
  /\ lease' = [lease EXCEPT !.expired = FALSE]
  /\ UNCHANGED <<guardian, resource, registry, proposed, authorized>>

Release(g) ==
  /\ guardian[g].pc = "idle" /\ Current(g)
  /\ lease' = [lease EXCEPT !.owner = NoOne, !.expired = FALSE]
  /\ UNCHANGED <<guardian, resource, registry, proposed, authorized>>

Expire ==
  /\ lease.owner # NoOne /\ ~lease.expired
  /\ lease' = [lease EXCEPT !.expired = TRUE]
  /\ UNCHANGED <<guardian, resource, registry, proposed, authorized>>

-----------------------------------------------------------------------------
(* ResourceRegistry                                                          *)

IsCurrent(r) == registry[resource[r].key] = r

Register(k, has) ==
  /\ Len(resource) < MaxRegistrations
  /\ resource' = Append(resource, [key |-> k, has |-> has, process |-> "running"])
  /\ registry' = [registry EXCEPT ![k] = Len(resource) + 1]
  /\ UNCHANGED <<lease, guardian, proposed, authorized>>

\* Only the current incarnation is removed; its predecessors are refused.
Unregister(r) ==
  /\ IsCurrent(r)
  /\ registry' = [registry EXCEPT ![resource[r].key] = None]
  /\ UNCHANGED <<lease, guardian, resource, proposed, authorized>>

ProcessEnds(r, to) ==
  /\ <<resource[r].process, to>> \in
       {<<"running", "zombie">>, <<"running", "missing">>, <<"zombie", "missing">>}
  /\ resource' = [resource EXCEPT ![r].process = to]
  /\ UNCHANGED <<lease, guardian, registry, proposed, authorized>>

-----------------------------------------------------------------------------
(* decide_guardian_action                                                    *)

\* What the host's observer may report of a resource: of its process the truth,
\* nothing, or that it is unknown; of the rest anything.
Observations(process) ==
  [failed : BOOLEAN,
   process : {process, "unknown", "none"},
   identity : {"not_applicable", "exact", "missing", "mismatch", "unknown"},
   worktree : {"not_applicable", "present", "deleted", "unknown"},
   owner : {"not_applicable", "live", "missing", "unknown"},
   lease : {"not_applicable", "active", "expired", "unknown"}]

Ambiguous(o) == "unknown" \in {o.process, o.identity, o.worktree, o.owner, o.lease}

Mismatched(has, o) ==
  \/ "process" \in has /\ (o.process = "none" \/ o.identity = "not_applicable")
  \/ o.process = "missing" /\ o.identity = "exact"
  \/ "process" \notin has /\ (o.process # "none" \/ o.identity # "not_applicable")
  \/ ("worktree" \notin has) # (o.worktree = "not_applicable")
  \/ ("lease" \notin has) # (o.lease = "not_applicable")

Dead(o) == o.process \in {"missing", "zombie"}

ExpiredIdentity(has, o) ==
  o.lease = "expired" /\ o.process # "running" /\ o.identity = "mismatch"
Deleted(has, o) ==
  o.worktree = "deleted" /\ o.owner = "missing" /\ ("process" \notin has \/ Dead(o))
Terminal(has, o) == "process" \in has /\ Dead(o)

\* The reason to reap, if any: the first that fits, once nothing speaks against.
Reasons(has, o) ==
  IF \/ o.failed \/ Ambiguous(o) \/ Mismatched(has, o) \/ o.owner = "live"
     \/ o.process = "running" /\ o.identity = "exact"
    THEN {}
  ELSE IF ExpiredIdentity(has, o) THEN {"expired_fenced_identity"}
  ELSE IF o.identity = "mismatch" \/ o.lease = "active" THEN {}
  ELSE IF Deleted(has, o) THEN {"deleted_worktree_without_live_owner"}
  ELSE IF Terminal(has, o) THEN {"terminal_managed_child"}
  ELSE {}

\* What an evaluation may come to: a reason to reap, or none.
Outcomes(has, process) ==
  {Reasons(has, o) \cap EnabledReasons :
     o \in Observations(process)}
Evaluations == [has \in Shapes |-> [process \in Lives |-> Outcomes(has, process)]]

-----------------------------------------------------------------------------
(* GuardianService.run_once                                                  *)

Moves(g, k) == guardian' = [guardian EXCEPT ![g] = k]
Quiet       == UNCHANGED <<lease, resource, registry, authorized>>

\* current_proof, on which the pass or the executor goes on, or is refused.
Proves(g, k) ==
  \/ Current(g) /\ Moves(g, k)
  \/ Stale(g) /\ Moves(g, Idle(guardian[g].handle))

RunOnce(g) ==
  /\ guardian[g].pc = "idle" /\ guardian[g].handle # None
  /\ Proves(g, [guardian[g] EXCEPT !.pc = "list"])
  /\ Quiet /\ UNCHANGED proposed

\* The registrations that are current now, in some order.
List(g) ==
  /\ guardian[g].pc = "list"
  /\ \E queue \in [1 .. Cardinality({k \in Keys : registry[k] # None}) -> Registered] :
       /\ {queue[i] : i \in DOMAIN queue} = {registry[k] : k \in Keys} \ {None}
       /\ Moves(g, [guardian[g] EXCEPT !.pc = "evaluate", !.queue = queue])
  /\ Quiet /\ UNCHANGED proposed

Onwards(g) == [guardian[g] EXCEPT !.pc = "evaluate", !.queue = Tail(@)]

\* Alerts and retentions are published and authorise nothing.
Evaluate(g) ==
  LET k == guardian[g] IN
  /\ k.pc = "evaluate"
  /\ \/ k.queue = <<>> /\ Moves(g, Idle(k.handle))
     \/ /\ k.queue # <<>>
        /\ LET r == resource[Head(k.queue)] IN
           \E reason \in Evaluations[r.has][r.process] :
             Moves(g, IF reason = {} THEN Onwards(g) ELSE [k EXCEPT !.pc = "recheck"])
  /\ Quiet /\ UNCHANGED proposed

Recheck(g) ==
  LET k == guardian[g] IN
  /\ k.pc = "recheck"
  /\ Moves(g, IF IsCurrent(Head(k.queue)) THEN [k EXCEPT !.pc = "propose"] ELSE Onwards(g))
  /\ Quiet /\ UNCHANGED proposed

\* A pass that has lost the lease ends here, and proposes nothing more.
Propose(g) ==
  LET k == guardian[g] IN
  /\ k.pc = "propose" /\ Cardinality(proposed) < MaxProposals
  /\ Proves(g, Onwards(g))
  /\ proposed' = IF guardian'[g].pc = "idle" THEN proposed
                 ELSE proposed \cup {[registration |-> Head(k.queue), epoch |-> k.handle]}
  /\ Quiet

-----------------------------------------------------------------------------
(* GuardianExecutor.authorize: the lease first, then the registration        *)

\* Faulty variant: the executor's own lease is enough, whoever proposed.
AskOwnLease(g, p) ==
  /\ guardian[g].pc = "idle"
  /\ Proves(g, [guardian[g] EXCEPT !.pc = "resolve", !.asked = p])
  /\ Quiet /\ UNCHANGED proposed

Ask(g, p) ==
  /\ guardian[g].pc = "idle"
  /\ \/ /\ guardian[g].handle = p.epoch
        /\ Proves(g, [guardian[g] EXCEPT !.pc = "resolve", !.asked = p])
     \/ guardian[g].handle # p.epoch /\ UNCHANGED guardian
  /\ Quiet /\ UNCHANGED proposed

\* Faulty variant: whatever is registered under the key is resolved.
ResolvedByKey(r) == registry[resource[r].key]

\* The registration that a publication names, if it is current.
Resolved(r) == IF IsCurrent(r) THEN r ELSE None

Resolve(g) ==
  LET p == guardian[g].asked  r == Resolved(p.registration) IN
  /\ guardian[g].pc = "resolve"
  /\ authorized' = IF r = None THEN authorized
                   ELSE authorized \cup
                          {[registration |-> r, proposed |-> p.registration,
                            epoch |-> guardian[g].handle, published |-> p.epoch]}
  /\ Moves(g, Idle(guardian[g].handle))
  /\ UNCHANGED <<lease, resource, registry, proposed>>

\* A guardian dies and forgets its handle.
Crash(g) ==
  /\ guardian[g] # Idle(None) /\ Moves(g, Idle(None))
  /\ Quiet /\ UNCHANGED proposed

Next ==
  \/ \E g \in Guardians :
       \/ Acquire(g) \/ Heartbeat(g) \/ Release(g) \/ Crash(g)
       \/ RunOnce(g) \/ List(g) \/ Evaluate(g) \/ Recheck(g) \/ Propose(g)
       \/ (\E p \in proposed : Ask(g, p)) \/ Resolve(g)
  \/ \E k \in Keys, has \in Shapes : Register(k, has)
  \/ \E r \in Registered : Unregister(r) \/ \E to \in Lives : ProcessEnds(r, to)
  \/ Expire

Spec == Init /\ [][Next]_vars

-----------------------------------------------------------------------------
TypeOK ==
  /\ lease \in [epoch : Nat, owner : Guardians \cup {NoOne}, expired : BOOLEAN]
  /\ \A g \in Guardians :
       /\ guardian[g].pc \in {"idle", "resolve"} \cup Pass
       /\ guardian[g].handle <= lease.epoch
       /\ guardian[g].queue \in Seq(Registered)
       /\ guardian[g].asked \in {NoPublication} \cup proposed
  /\ resource \in Seq(Resources)
  /\ \A k \in Keys : registry[k] # None => resource[registry[k]].key = k
  /\ proposed \subseteq [registration : Registered, epoch : Nat]

\* A cleanup is authorised only of a registration whose own process is over,
\* however long ago it was proposed and whatever was registered since
\* (guardian_executor.py:70-89, resource_guardian.py:145-251).
ReapsOnlyTheDead ==
  \A a \in authorized :
    "process" \in resource[a.registration].has => resource[a.registration].process # "running"

\* It is authorised under the lease under which it was proposed: a guardian that
\* took over authorises nothing its predecessor proposed.
AuthorizedUnderItsLease == \A a \in authorized : a.epoch = a.published
=============================================================================
