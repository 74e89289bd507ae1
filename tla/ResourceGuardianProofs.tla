----------------------- MODULE ResourceGuardianProofs -----------------------
(***************************************************************************)
(* What the executor of the resource guardian authorises, for any number   *)
(* of guardians, keys and registrations.                                   *)
(***************************************************************************)
EXTENDS ResourceGuardian, FiniteSetTheorems, SequenceTheorems, TLAPS

-----------------------------------------------------------------------------
(* The inductive invariant                                                   *)

\* The process of a registration, if it has one, is over.
Over(r) == "process" \in resource[r].has => resource[r].process # "running"

\* What a guardian holds was given to it, what its pass is about to propose has
\* been observed to be over, and its executor decides what was proposed under
\* the lease that it holds itself.
Holdings == [pc : {"idle", "resolve"} \cup Pass, handle : Nat, queue : Seq(Registered),
             asked : {NoPublication} \cup proposed]
Sound(k) ==
  /\ k \in Holdings /\ k.handle <= lease.epoch
  /\ k.pc \in {"recheck", "propose"} => k.queue # <<>> /\ Over(Head(k.queue))
  /\ k.pc = "resolve" => k.asked \in proposed /\ k.asked.epoch = k.handle

LeaseFit == lease \in [epoch : Nat, owner : Guardians \cup {NoOne}, expired : BOOLEAN]
RegistryFit ==
  /\ resource \in Seq(Resources) /\ registry \in [Keys -> {None} \cup Registered]
  /\ \A k \in Keys : registry[k] # None => resource[registry[k]].key = k
PublicationsFit ==
  /\ proposed \subseteq [registration : Registered, epoch : Nat]
  /\ authorized \subseteq [registration : Registered, proposed : Registered,
                           epoch : Nat, published : Nat]
  /\ \A p \in proposed : Over(p.registration)
  /\ \A a \in authorized : Over(a.registration) /\ a.epoch = a.published
GuardiansFit ==
  /\ guardian = [g \in Guardians |-> guardian[g]]
  /\ \A g \in Guardians : Sound(guardian[g])

Inv == LeaseFit /\ RegistryFit /\ PublicationsFit /\ GuardiansFit

-----------------------------------------------------------------------------
(* Facts about the decision and the registry                                 *)

\* No observation of a running process with a registered identity is a reason.
LEMMA NoReasonToReapTheLiving ==
  ASSUME NEW has \in Shapes, NEW p \in Lives, "process" \in has,
         NEW reason \in Evaluations[has][p], reason # {}
  PROVE  p # "running"
<1>1. SUFFICES ASSUME p = "running" PROVE FALSE OBVIOUS
<1>2. PICK o \in Observations(p) : reason = Reasons(has, o) \cap EnabledReasons
  <2>1. Evaluations[has][p] = Outcomes(has, p) BY DEF Evaluations
  <2>2. QED BY <2>1, Zenon DEF Outcomes
<1>3. Reasons(has, o) # {} BY <1>2
<1>4. o.process \in {"running", "unknown", "none"} BY <1>1, <1>2 DEF Observations
<1>5. CASE o.process = "running"
  BY <1>3, <1>5 DEF Reasons, ExpiredIdentity, Deleted, Terminal, Dead
<1>6. CASE o.process = "unknown"
  BY <1>3, <1>6 DEF Reasons, Ambiguous
<1>7. CASE o.process = "none"
  BY <1>3, <1>7 DEF Reasons, Mismatched
<1>8. QED BY <1>4, <1>5, <1>6, <1>7

\* The registry changes under whoever holds a registration: what was over stays so.
LEMMA WhatIsOverStaysOver ==
  ASSUME resource \in Seq(Resources), resource' \in Seq(Resources), Len(resource) <= Len(resource'),
         \A r \in Registered : resource'[r].has = resource[r].has
                               /\ (resource[r].process # "running" => resource'[r].process # "running")
  PROVE  Registered \subseteq Registered' /\ \A r \in Registered : Over(r) => Over(r)'
BY DEF Over, Registered

\* A change of the lease or the registry keeps what guardians and publications know.
LEMMA OthersKeep ==
  ASSUME Inv, RegistryFit', LeaseFit', UNCHANGED <<guardian, proposed, authorized>>,
         lease.epoch <= lease'.epoch,
         Registered \subseteq Registered', \A r \in Registered : Over(r) => Over(r)'
  PROVE  Inv'
<1>1. PublicationsFit'
  <2>1. proposed \subseteq [registration : Registered', epoch : Nat]
    BY DEF Inv, PublicationsFit
  <2>2. authorized \subseteq [registration : Registered', proposed : Registered',
                              epoch : Nat, published : Nat]
    BY DEF Inv, PublicationsFit
  <2>3. \A p \in proposed : Over(p.registration)'
    BY DEF Inv, PublicationsFit
  <2>4. \A a \in authorized : Over(a.registration)' /\ a.epoch = a.published
    BY DEF Inv, PublicationsFit
  <2>5. QED BY <2>1, <2>2, <2>3, <2>4 DEF PublicationsFit
<1>2. ASSUME NEW g \in Guardians PROVE Sound(guardian[g])'
  BY DEF Inv, GuardiansFit, Sound, Holdings, LeaseFit
<1>3. QED BY <1>1, <1>2 DEF Inv, GuardiansFit

\* A move of one guardian needs to be sound only for that one.
LEMMA OneMoves ==
  ASSUME Inv, NEW g \in Guardians, guardian' = [guardian EXCEPT ![g] = guardian'[g]],
         Sound(guardian[g])', UNCHANGED <<resource, registry>>, LeaseFit',
         lease.epoch <= lease'.epoch, PublicationsFit', proposed \subseteq proposed'
  PROVE  Inv'
<1>1. RegistryFit' BY DEF Inv, RegistryFit, Registered
<1>2. ASSUME NEW x \in Guardians PROVE Sound(guardian[x])'
  <2>1. CASE x = g BY <2>1
  <2>2. CASE x # g
    <3>1. guardian'[x] = guardian[x] /\ Sound(guardian[x])
      BY <2>2 DEF Inv, GuardiansFit
    <3>2. QED BY <3>1 DEF Inv, LeaseFit, Sound, Holdings, Over, Registered
  <2>3. QED BY <2>1, <2>2
<1>3. guardian' = [x \in Guardians |-> guardian'[x]]
  BY DEF Inv, GuardiansFit
<1>4. QED BY <1>1, <1>2, <1>3 DEF Inv, GuardiansFit

\* A guardian that proves its lease goes on, or is idle with what it holds.
LEMMA ProvesOrRests ==
  ASSUME Inv, NEW g \in Guardians, NEW k, Proves(g, k)
  PROVE  \/ guardian' = [guardian EXCEPT ![g] = k] /\ guardian'[g] = k
         \/ guardian' = [guardian EXCEPT ![g] = Idle(guardian[g].handle)]
            /\ guardian'[g] = Idle(guardian[g].handle)
BY DEF Proves, Moves, Inv, GuardiansFit

\* An idle guardian is sound with whatever epoch was granted.
LEMMA IdleIsSound ==
  ASSUME NEW n \in Nat, n <= lease'.epoch PROVE Sound(Idle(n))'
BY DEF Sound, Idle, Holdings

-----------------------------------------------------------------------------
(* The steps                                                                 *)

\* Nothing is claimed, registered or published yet.
LEMMA InitInv == Init => Inv
<1> SUFFICES ASSUME Init PROVE Inv OBVIOUS
<1> USE DEF Init
<1>1. LeaseFit BY DEF LeaseFit
<1>2. RegistryFit BY DEF RegistryFit, Registered
<1>3. PublicationsFit BY DEF PublicationsFit
<1>4. ASSUME NEW g \in Guardians PROVE Sound(guardian[g])
  <2>1. guardian[g] = Idle(0) BY DEF None
  <2>2. <<>> \in Seq(Registered) OBVIOUS
  <2>3. QED BY <2>1, <2>2 DEF Sound, Holdings, Idle
<1>5. QED BY <1>1, <1>2, <1>3, <1>4 DEF Inv, GuardiansFit

\* A claim, a renewal, a release or an expiry: the epoch never falls.
LEMMA LeaseStep ==
  ASSUME Inv, Expire \/ \E g \in Guardians : Acquire(g) \/ Heartbeat(g) \/ Release(g)
  PROVE  Inv'
<1>1. ASSUME NEW g \in Guardians, Acquire(g) PROVE Inv'
  <2>1. LeaseFit' /\ lease.epoch <= lease'.epoch /\ lease.epoch + 1 <= lease'.epoch
    BY <1>1 DEF Acquire, Inv, LeaseFit
  <2>2. guardian' = [guardian EXCEPT ![g] = guardian'[g]] /\ guardian'[g] = Idle(lease.epoch + 1)
    BY <1>1 DEF Acquire, Inv, GuardiansFit
  <2>3. lease.epoch + 1 \in Nat BY DEF Inv, LeaseFit
  <2>4. Sound(guardian[g])' BY <2>1, <2>2, <2>3, IdleIsSound DEF Sound
  <2>5. PublicationsFit'
    BY <1>1 DEF Acquire, Inv, PublicationsFit, Registered, Over
  <2>6. QED BY <1>1, <2>1, <2>2, <2>4, <2>5, OneMoves DEF Acquire
<1>2. lease \in [epoch : Nat, owner : Guardians \cup {NoOne}, expired : BOOLEAN]
  BY DEF Inv, LeaseFit
<1>3. ASSUME /\ lease' \in [epoch : Nat, owner : Guardians \cup {NoOne}, expired : BOOLEAN]
             /\ lease'.epoch = lease.epoch
             /\ UNCHANGED <<guardian, resource, registry, proposed, authorized>>
      PROVE  Inv'
  <2>1. LeaseFit' /\ lease.epoch <= lease'.epoch BY <1>2, <1>3 DEF LeaseFit
  <2>2. RegistryFit' BY <1>3 DEF Inv, RegistryFit, Registered
  <2>3. QED BY <1>3, <2>1, <2>2, OthersKeep DEF Registered, Over
<1>4. ASSUME NEW g \in Guardians, Heartbeat(g) PROVE Inv'
  <2>1. lease' \in [epoch : Nat, owner : Guardians \cup {NoOne}, expired : BOOLEAN]
    BY <1>2, <1>4, Zenon DEF Heartbeat
  <2>2. QED BY <1>2, <1>3, <1>4, <2>1 DEF Heartbeat
<1>5. ASSUME NEW g \in Guardians, Release(g) PROVE Inv'
  <2>1. lease' \in [epoch : Nat, owner : Guardians \cup {NoOne}, expired : BOOLEAN]
    BY <1>2, <1>5, Zenon DEF Release
  <2>2. QED BY <1>2, <1>3, <1>5, <2>1 DEF Release
<1>6. CASE Expire
  <2>1. lease' \in [epoch : Nat, owner : Guardians \cup {NoOne}, expired : BOOLEAN]
    BY <1>2, <1>6, Zenon DEF Expire
  <2>2. QED BY <1>2, <1>3, <1>6, <2>1 DEF Expire
<1>7. QED BY <1>1, <1>4, <1>5, <1>6

\* A registration, its removal, or the end of a process.
LEMMA RegistryStep ==
  ASSUME Inv,
         \/ \E k \in Keys, has \in Shapes : Register(k, has)
         \/ \E r \in Registered : Unregister(r) \/ \E to \in Lives : ProcessEnds(r, to)
  PROVE  Inv'
<1>1. ASSUME NEW k \in Keys, NEW has \in Shapes, Register(k, has) PROVE Inv'
  <2>1. [key |-> k, has |-> has, process |-> "running"] \in Resources
    BY DEF Resources, Lives
  <2>2. /\ resource' \in Seq(Resources) /\ Len(resource') = Len(resource) + 1
        /\ \A r \in Registered : resource'[r] = resource[r]
        /\ resource'[Len(resource) + 1].key = k
    BY <1>1, <2>1 DEF Register, Inv, RegistryFit, Registered
  <2>3. RegistryFit'
    BY <1>1, <2>2 DEF Register, Inv, RegistryFit, Registered, None
  <2>4. LeaseFit' /\ lease.epoch <= lease'.epoch
    BY <1>1 DEF Register, Inv, LeaseFit
  <2>5. Registered \subseteq Registered' /\ \A r \in Registered : Over(r) => Over(r)'
    BY <2>2, WhatIsOverStaysOver DEF Inv, RegistryFit
  <2>6. QED BY <1>1, <2>3, <2>4, <2>5, OthersKeep DEF Register
<1>2. ASSUME NEW r \in Registered, Unregister(r) PROVE Inv'
  <2>1. RegistryFit'
    BY <1>2 DEF Unregister, Inv, RegistryFit, Registered, None
  <2>2. LeaseFit' /\ lease.epoch <= lease'.epoch
    BY <1>2 DEF Unregister, Inv, LeaseFit
  <2>3. QED BY <1>2, <2>1, <2>2, OthersKeep DEF Unregister, Registered, Over
<1>3. ASSUME NEW r \in Registered, NEW to \in Lives, ProcessEnds(r, to) PROVE Inv'
  <2>1. to # "running" /\ resource[r].process # to
    BY <1>3 DEF ProcessEnds
  <2>2. /\ resource' \in Seq(Resources) /\ Len(resource') = Len(resource)
        /\ \A x \in Registered :
             /\ resource'[x].has = resource[x].has /\ resource'[x].key = resource[x].key
             /\ resource[x].process # "running" => resource'[x].process # "running"
    <3>1. resource \in Seq(Resources) /\ resource[r] \in Resources
      BY DEF Inv, RegistryFit, Registered
    <3>2. resource' = [resource EXCEPT ![r] = [resource[r] EXCEPT !.process = to]]
      BY <1>3 DEF ProcessEnds
    <3>3. [resource[r] EXCEPT !.process = to] \in Resources
      BY <3>1 DEF Resources
    <3>4. resource' \in Seq(Resources) /\ Len(resource') = Len(resource)
      BY <3>1, <3>2, <3>3 DEF Registered
    <3>5. \A x \in Registered : resource'[x] = IF x = r THEN [resource[r] EXCEPT !.process = to]
                                               ELSE resource[x]
      BY <3>2 DEF Registered
    <3>6. QED BY <2>1, <3>1, <3>4, <3>5 DEF Resources
  <2>3. RegistryFit'
    BY <1>3, <2>2 DEF ProcessEnds, Inv, RegistryFit, Registered, None
  <2>4. LeaseFit' /\ lease.epoch <= lease'.epoch
    BY <1>3 DEF ProcessEnds, Inv, LeaseFit
  <2>5. Registered \subseteq Registered' /\ \A x \in Registered : Over(x) => Over(x)'
    BY <2>2, WhatIsOverStaysOver DEF Inv, RegistryFit
  <2>6. QED BY <1>3, <2>3, <2>4, <2>5, OthersKeep DEF ProcessEnds
<1>4. QED BY <1>1, <1>2, <1>3

\* A step of a guardian that publishes and authorises nothing is sound if the
\* guardian itself is.
LEMMA SilentMove ==
  ASSUME Inv, NEW g \in Guardians, Quiet, UNCHANGED proposed,
         guardian' = [guardian EXCEPT ![g] = guardian'[g]], Sound(guardian'[g])
  PROVE  Inv'
<1>1. LeaseFit' /\ lease.epoch <= lease'.epoch BY DEF Quiet, Inv, LeaseFit
<1>2. PublicationsFit' BY DEF Quiet, Inv, PublicationsFit, Registered, Over
<1>3. Sound(guardian[g])' BY DEF Quiet, Sound, Holdings, Registered, Over
<1>4. QED BY <1>1, <1>2, <1>3, OneMoves DEF Quiet

\* A guardian that gives up or ends its pass keeps its handle and nothing else.
LEMMA Rests ==
  ASSUME Inv, NEW g \in Guardians PROVE Sound(Idle(guardian[g].handle)) /\ Sound(Idle(None))
<1>1. guardian[g].handle \in Nat /\ guardian[g].handle <= lease.epoch /\ lease.epoch \in Nat
  BY DEF Inv, GuardiansFit, Sound, Holdings, LeaseFit
<1>2. <<>> \in Seq(Registered) OBVIOUS
<1>3. QED BY <1>1, <1>2 DEF Sound, Idle, Holdings, None

\* A pass lists what is registered, evaluates it, and looks again.
LEMMA PassStep ==
  ASSUME Inv, NEW g \in Guardians,
         RunOnce(g) \/ List(g) \/ Evaluate(g) \/ Recheck(g) \/ Crash(g)
  PROVE  Inv'
<1> DEFINE k == guardian[g]
<1>0. /\ Sound(k) /\ Sound(Idle(k.handle)) /\ Sound(Idle(None))
      /\ \A h : Moves(g, h) => /\ guardian' = [guardian EXCEPT ![g] = guardian'[g]]
                               /\ guardian'[g] = h
  <2>1. Sound(k) /\ Sound(Idle(k.handle)) /\ Sound(Idle(None)) BY Rests DEF Inv, GuardiansFit
  <2>2. QED BY <2>1 DEF Moves, Inv, GuardiansFit
<1>1. CASE RunOnce(g)
  <2>1. Sound([k EXCEPT !.pc = "list"])
    BY <1>0 DEF Sound, Holdings, Pass
  <2>2. Quiet /\ UNCHANGED proposed
        /\ (Moves(g, [k EXCEPT !.pc = "list"]) \/ Moves(g, Idle(k.handle)))
    BY <1>1 DEF RunOnce, Proves
  <2>3. QED BY <1>0, <2>1, <2>2, SilentMove
<1>2. CASE List(g)
  <2>1. Cardinality({x \in Keys : registry[x] # None}) \in Nat
    BY KeysAssumption, FS_Subset, FS_CardinalityType
  <2>2. PICK q \in [1 .. Cardinality({x \in Keys : registry[x] # None}) -> Registered] :
          Moves(g, [k EXCEPT !.pc = "evaluate", !.queue = q])
    BY <1>2 DEF List
  <2>3. q \in Seq(Registered) BY <2>1, SeqDef
  <2>4. Sound([k EXCEPT !.pc = "evaluate", !.queue = q])
    BY <1>0, <2>3 DEF Sound, Holdings, Pass
  <2>5. QED BY <1>0, <1>2, <2>2, <2>4, SilentMove DEF List
<1>3. Sound(Onwards(g)) \/ k.queue = <<>>
  <2>1. k.queue # <<>> => Tail(k.queue) \in Seq(Registered)
    BY <1>0 DEF Sound, Holdings
  <2>2. QED BY <1>0, <2>1 DEF Sound, Holdings, Pass, Onwards
<1>4. CASE Evaluate(g)
  <2>1. CASE k.queue = <<>>
    BY <1>0, <1>4, <2>1, SilentMove DEF Evaluate
  <2>2. CASE k.queue # <<>>
    <3> DEFINE r == resource[Head(k.queue)]
    <3>1. PICK reason \in Evaluations[r.has][r.process] :
            Moves(g, IF reason = {} THEN Onwards(g) ELSE [k EXCEPT !.pc = "recheck"])
      BY <1>4, <2>2 DEF Evaluate
    <3>2. Head(k.queue) \in Registered /\ r \in Resources
      <4>1. Head(k.queue) \in Registered BY <1>0, <2>2 DEF Sound, Holdings
      <4>2. QED BY <4>1 DEF Inv, RegistryFit, Registered
    <3>3. CASE reason = {}
      <4>1. Moves(g, Onwards(g)) BY <3>1, <3>3
      <4>2. Quiet /\ UNCHANGED proposed BY <1>4 DEF Evaluate
      <4>3. QED BY <1>0, <1>3, <2>2, <4>1, <4>2, SilentMove
    <3>4. CASE reason # {}
      <4>1. r.has \in Shapes /\ r.process \in Lives BY <3>2 DEF Resources
      <4>2. Over(Head(k.queue))
        BY <3>1, <3>4, <4>1, NoReasonToReapTheLiving DEF Over
      <4>3. Sound([k EXCEPT !.pc = "recheck"])
        BY <1>0, <2>2, <4>2 DEF Sound, Holdings, Pass
      <4>4. QED BY <1>0, <1>4, <3>1, <3>4, <4>3, SilentMove DEF Evaluate
    <3>5. QED BY <3>3, <3>4
  <2>3. QED BY <2>1, <2>2
<1>5. CASE Recheck(g)
  <2>1. k.queue # <<>> /\ Over(Head(k.queue)) BY <1>0, <1>5 DEF Recheck, Sound
  <2>2. Sound([k EXCEPT !.pc = "propose"])
    BY <1>0, <2>1 DEF Sound, Holdings, Pass
  <2>3. Moves(g, [k EXCEPT !.pc = "propose"]) \/ Moves(g, Onwards(g))
    BY <1>5 DEF Recheck
  <2>4. QED BY <1>0, <1>3, <1>5, <2>1, <2>2, <2>3, SilentMove DEF Recheck
<1>6. CASE Crash(g)
  BY <1>0, <1>6, SilentMove DEF Crash
<1>7. QED BY <1>1, <1>2, <1>4, <1>5, <1>6

\* A proposal is of a registration whose process is over, under the proposer's lease.
LEMMA ProposeStep ==
  ASSUME Inv, NEW g \in Guardians, Propose(g) PROVE Inv'
<1> DEFINE k == guardian[g]
           p == [registration |-> Head(k.queue), epoch |-> k.handle]
<1>1. Sound(k) /\ Sound(Idle(k.handle)) BY Rests DEF Inv, GuardiansFit
<1>2. k.queue # <<>> /\ Over(Head(k.queue)) /\ Head(k.queue) \in Registered /\ k.handle \in Nat
  BY <1>1 DEF Propose, Sound, Holdings
<1>3. Sound(Onwards(g))
  <2>1. Tail(k.queue) \in Seq(Registered) BY <1>1, <1>2 DEF Sound, Holdings
  <2>2. QED BY <1>1, <2>1 DEF Sound, Holdings, Pass, Onwards
<1>4. proposed' = proposed \/ proposed' = proposed \cup {p}
  BY DEF Propose
<1>5. Quiet BY DEF Propose
<1>6. LeaseFit' /\ lease.epoch <= lease'.epoch BY <1>5 DEF Quiet, Inv, LeaseFit
<1>7. PublicationsFit'
  BY <1>2, <1>4, <1>5 DEF Quiet, Inv, PublicationsFit, Registered, Over
<1>8. /\ guardian' = [guardian EXCEPT ![g] = guardian'[g]]
      /\ guardian'[g] \in {Onwards(g), Idle(k.handle)}
  BY DEF Propose, Proves, Moves, Inv, GuardiansFit
<1>9. Sound(guardian'[g]) BY <1>1, <1>3, <1>8
<1>10. Sound(guardian[g])'
  BY <1>4, <1>5, <1>9 DEF Quiet, Sound, Holdings, Registered, Over
<1>11. QED BY <1>4, <1>5, <1>6, <1>7, <1>8, <1>10, OneMoves DEF Quiet

\* The executor takes up what was proposed under the lease that its guardian holds.
LEMMA AskStep ==
  ASSUME Inv, NEW g \in Guardians, NEW p \in proposed, Ask(g, p) PROVE Inv'
<1>1. Sound(guardian[g]) /\ Sound(Idle(guardian[g].handle)) BY Rests DEF Inv, GuardiansFit
<1>2. CASE UNCHANGED guardian
  BY <1>1, <1>2, SilentMove DEF Ask, Inv, GuardiansFit
<1>3. CASE ~UNCHANGED guardian
  <2>1. /\ guardian[g].handle = p.epoch
        /\ guardian' = [guardian EXCEPT ![g] = guardian'[g]]
        /\ guardian'[g] \in {[guardian[g] EXCEPT !.pc = "resolve", !.asked = p],
                             Idle(guardian[g].handle)}
    BY <1>3 DEF Ask, Proves, Moves, Inv, GuardiansFit
  <2>2. Sound([guardian[g] EXCEPT !.pc = "resolve", !.asked = p])
    BY <1>1, <2>1 DEF Sound, Holdings
  <2>3. QED BY <1>1, <2>1, <2>2, SilentMove DEF Ask
<1>4. QED BY <1>2, <1>3

\* What is authorised is the registration that was proposed, or nothing.
LEMMA ResolveStep ==
  ASSUME Inv, NEW g \in Guardians, Resolve(g) PROVE Inv'
<1> DEFINE p == guardian[g].asked
           a == [registration |-> p.registration, proposed |-> p.registration,
                 epoch |-> guardian[g].handle, published |-> p.epoch]
<1>1. Sound(guardian[g]) /\ Sound(Idle(guardian[g].handle)) BY Rests DEF Inv, GuardiansFit
<1>2. p \in proposed /\ p.epoch = guardian[g].handle /\ guardian[g].handle \in Nat
  BY <1>1 DEF Resolve, Sound, Holdings
<1>3. p.registration \in Registered /\ Over(p.registration)
  BY <1>2 DEF Inv, PublicationsFit
<1>4. authorized' \in {authorized, authorized \cup {a}}
  BY DEF Resolve, Resolved
<1>5. UNCHANGED <<lease, resource, registry, proposed>> BY DEF Resolve
<1>6. LeaseFit' /\ lease.epoch <= lease'.epoch BY <1>5 DEF Inv, LeaseFit
<1>7. PublicationsFit'
  BY <1>2, <1>3, <1>4, <1>5 DEF Inv, PublicationsFit, Registered, Over
<1>8. guardian' = [guardian EXCEPT ![g] = guardian'[g]] /\ guardian'[g] = Idle(guardian[g].handle)
  BY DEF Resolve, Moves, Inv, GuardiansFit
<1>9. Sound(guardian[g])'
  BY <1>1, <1>5, <1>8 DEF Sound, Holdings, Registered, Over
<1>10. QED BY <1>5, <1>6, <1>7, <1>8, <1>9, OneMoves

\* Every step keeps the invariant.
LEMMA StepInv == ASSUME Inv, [Next]_vars PROVE Inv'
<1>1. CASE Expire \/ \E g \in Guardians : Acquire(g) \/ Heartbeat(g) \/ Release(g)
  BY <1>1, LeaseStep
<1>2. ASSUME NEW g \in Guardians,
             RunOnce(g) \/ List(g) \/ Evaluate(g) \/ Recheck(g) \/ Crash(g)
      PROVE  Inv'
  BY <1>2, PassStep
<1>3. ASSUME NEW g \in Guardians, Propose(g) PROVE Inv' BY <1>3, ProposeStep
<1>4. ASSUME NEW g \in Guardians, NEW p \in proposed, Ask(g, p) PROVE Inv' BY <1>4, AskStep
<1>5. ASSUME NEW g \in Guardians, Resolve(g) PROVE Inv' BY <1>5, ResolveStep
<1>6. CASE \/ \E k \in Keys, has \in Shapes : Register(k, has)
           \/ \E r \in Registered : Unregister(r) \/ \E to \in Lives : ProcessEnds(r, to)
  BY <1>6, RegistryStep
<1>7. CASE UNCHANGED vars
  BY <1>7 DEF vars, Inv, LeaseFit, RegistryFit, PublicationsFit, GuardiansFit, Sound, Holdings,
     Over, Registered
<1>8. QED BY <1>1, <1>2, <1>3, <1>4, <1>5, <1>6, <1>7 DEF Next

-----------------------------------------------------------------------------
(* What the invariant says                                                   *)

\* It is stronger than the types.
LEMMA GuardianTypes == Inv => TypeOK
<1> SUFFICES ASSUME Inv PROVE TypeOK OBVIOUS
<1>1. \A g \in Guardians :
        /\ guardian[g].pc \in {"idle", "resolve"} \cup Pass
        /\ guardian[g].handle <= lease.epoch
        /\ guardian[g].queue \in Seq(Registered)
        /\ guardian[g].asked \in {NoPublication} \cup proposed
  BY DEF Inv, GuardiansFit, Sound, Holdings
<1>2. QED BY <1>1 DEF Inv, LeaseFit, RegistryFit, PublicationsFit, TypeOK

\* It says what may be published.
LEMMA GuardianIsSound == Inv => ReapsOnlyTheDead /\ AuthorizedUnderItsLease
BY DEF Inv, PublicationsFit, Over, ReapsOnlyTheDead, AuthorizedUnderItsLease

\* Every reachable state of the lease, the registry, the guardians and what they
\* publish is well typed (resource_registry.py, guardian_service.py).
THEOREM TypeCorrect == Spec => []TypeOK
<1>1. Inv /\ [Next]_vars => Inv' BY StepInv
<1>2. QED BY InitInv, GuardianTypes, <1>1, PTL DEF Spec

\* A cleanup is authorised only of a registration whose process is over, however
\* many guardians, leases and registrations came in between
\* (guardian_executor.py:70-89, resource_guardian.py:145-251).
THEOREM OnlyTheDeadAreReaped == Spec => []ReapsOnlyTheDead
<1>1. Inv => ReapsOnlyTheDead BY GuardianIsSound
<1>2. Inv /\ [Next]_vars => Inv' BY StepInv
<1>3. QED BY InitInv, <1>1, <1>2, PTL DEF Spec

\* It is authorised by the guardian that proposed it, under the same lease
\* (guardian_executor.py:44-89).
THEOREM OneLeaseForBoth == Spec => []AuthorizedUnderItsLease
<1>1. Inv => AuthorizedUnderItsLease BY GuardianIsSound
<1>2. Inv /\ [Next]_vars => Inv' BY StepInv
<1>3. QED BY InitInv, <1>1, <1>2, PTL DEF Spec
=============================================================================
