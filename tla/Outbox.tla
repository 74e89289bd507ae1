------------------------------- MODULE Outbox -------------------------------
(***************************************************************************)
(* The checkpoint manager and its mirror outbox.  What the required stores *)
(* have been asked is offered to the mirrors as well; what a mirror does   *)
(* not take is queued in a file and replayed, by the supervisor, one entry *)
(* after a tick, and by an operator's command, a batch at a time.  A       *)
(* replay holds the file's lock while it reads its batch and while it      *)
(* reconciles, not while the mirrors answer.  What the required stores     *)
(* hold is module Supervisor's; here their verdict is a choice.            *)
(***************************************************************************)
EXTENDS Naturals, Sequences, FiniteSets, Functions

CONSTANTS
  Supervisor, Operator,  \* the two processes that replay
  MirrorAdapters,        \* the mirrors, in the order of the configuration
  Served,                \* the mirrors the operator's command names
  Stripe(_),             \* the claim lock an entry hashes to
  Failures(_),           \* bound: how a mirror can fail, of Health
  QueueMax, DeadMax,     \* max_queue_bytes, in entries, of both files
  MaxEntries,            \* bound: entries ever queued
  MaxVersion, MaxGen,    \* bound: capsules and generations
  MaxAttempts,           \* successor_retry_limit + 1
  MaxCommands,           \* bound: runs of the operator's command
  MaxCrashes, MaxFailures \* bound: crashes, failures of mirrors

Mirrors == Range(MirrorAdapters)

\* A mirror answers, or it fails for now (an outage, a time-out, a scan over its
\* limit, a read-back that finds nothing), or for good (its record is not found,
\* the request is rejected).
Health == {"up", "down", "gone"}

Workers == {Supervisor, Operator}
NoOne   == "no one"

ASSUME BoundsAssumption ==
  /\ Supervisor # Operator /\ NoOne \notin Workers
  /\ \A m \in Mirrors : Failures(m) \subseteq Health
  /\ Served \subseteq Mirrors
  /\ QueueMax \in Nat \ {0} /\ DeadMax \in Nat \ {0}
  /\ {MaxEntries, MaxVersion, MaxGen, MaxAttempts,
      MaxCommands, MaxCrashes, MaxFailures} \subseteq Nat

\* Without a mirror nothing is ever queued.
ASSUME MirrorsAssumption == MirrorAdapters \in Seq(Mirrors) /\ MirrorAdapters # <<>>

VARIABLES
  queue,     \* the outbox file
  dead,      \* the dead-letter file
  lock,      \* who holds the queue lock
  worker,    \* where each process is
  chain,     \* generation, capsule and receipt of the supervisor's snapshot
  holds,     \* what each mirror holds
  health,    \* what a mirror answers now
  issued,    \* history: every entry that was queued
  budget     \* bound: crashes, failures and commands that are left

vars == <<queue, dead, lock, worker, chain, holds, health, issued, budget>>

-----------------------------------------------------------------------------
\* The requests of one chain; a WRITE and an ACKNOWLEDGE of a generation have
\* idempotency keys of their own, two capsules of a generation share one.
Requests == [op : {"write", "acknowledge"}, gen : 1..MaxGen, ver : 1..MaxVersion]
Key(r)   == <<r.op, r.gen>>
Entries  == [id : 1..MaxEntries, mirror : Mirrors, request : Requests]
Verdicts == {"success", "retain", "dead-letter"}

Nothing == [pc |-> "idle", batch |-> <<>>, outcomes |-> <<>>, letters |-> <<>>,
            rest |-> <<>>, todo |-> <<>>, request |-> <<>>, answered |-> FALSE]

Init ==
  /\ queue = <<>> /\ dead = <<>> /\ lock = NoOne
  /\ worker = [w \in Workers |-> Nothing]
  /\ chain = [gen |-> 1, ver |-> 0, verified |-> FALSE, attempts |-> 0]
  /\ holds = [m \in Mirrors |-> {}] /\ health = [m \in Mirrors |-> "up"]
  /\ issued = {} /\ budget = [crashes |-> MaxCrashes, failures |-> MaxFailures, commands |-> MaxCommands]

-----------------------------------------------------------------------------
(* A mirror's command, behind CommandAdapter.  It looks for the marker of    *)
(* the request and appends it if it is not there, so it may be run again.    *)

\* A time-out or a non-zero exit is retryable, whether or not the marker was
\* written; an adapter that cannot be run or whose answer is no answer is not.
Answers(m) ==
  CASE health[m] = "up"   -> {[verdict |-> "success", taken |-> TRUE]}
    [] health[m] = "down" -> [verdict : {"retain"}, taken : BOOLEAN]
    [] health[m] = "gone" -> {[verdict |-> "dead-letter", taken |-> FALSE]}

\* The marker of a request is looked for before it is appended.
Executed(m, request, answer) ==
  holds' = [holds EXCEPT ![m] = IF answer.taken THEN @ \cup {request} ELSE @]

HealthChanges(m, h) ==
  /\ h # health[m] /\ (h # "up" => budget.failures > 0)
  /\ health' = [health EXCEPT ![m] = h]
  /\ budget' = IF h = "up" THEN budget ELSE [budget EXCEPT !.failures = @ - 1]
  /\ UNCHANGED <<queue, dead, lock, worker, chain, holds, issued>>

-----------------------------------------------------------------------------
(* CheckpointManager: the required stores decide, the mirrors follow         *)

WithinBounds == Cardinality(issued) + Len(MirrorAdapters) <= MaxEntries

\* The stores answer before any mirror is asked: one step for all of them, and a
\* step for each mirror, in order, before the receipt is there.
Mirroring(request, answered) ==
  worker' = [worker EXCEPT ![Supervisor] =
               [Nothing EXCEPT !.pc = "mirror", !.todo = MirrorAdapters,
                               !.request = request, !.answered = answered]]

\* A rotation that is tried again makes a new capsule under the same key.
Checkpoint ==
  LET request == [op |-> "write", gen |-> chain.gen, ver |-> chain.ver + 1] IN
  /\ worker[Supervisor].pc = "idle" /\ WithinBounds
  /\ chain.gen <= MaxGen /\ chain.ver < MaxVersion
  /\ \E verified \in BOOLEAN : Mirroring(request, verified)
  /\ chain' = [chain EXCEPT !.ver = @ + 1, !.verified = FALSE]
  /\ UNCHANGED <<queue, dead, lock, holds, health, issued, budget>>

Acknowledge ==
  LET request == [op |-> "acknowledge", gen |-> chain.gen, ver |-> chain.ver] IN
  /\ worker[Supervisor].pc = "idle" /\ WithinBounds
  /\ chain.verified /\ chain.attempts < MaxAttempts
  /\ \E answered \in BOOLEAN : Mirroring(request, answered)
  /\ chain' = [chain EXCEPT !.attempts = @ + 1]
  /\ UNCHANGED <<queue, dead, lock, holds, health, issued, budget>>

\* An acknowledgement every required store has answered ends the generation.
Receipt ==
  LET w == worker[Supervisor] IN
  IF w.request.op = "write" THEN [chain EXCEPT !.verified = w.answered]
  ELSE IF w.answered
       THEN [chain EXCEPT !.gen = @ + 1, !.verified = FALSE, !.attempts = 0]
       ELSE chain

\* The manager is done with the first of the mirrors that are left.
Mirrored ==
  IF Len(worker[Supervisor].todo) = 1
  THEN worker' = [worker EXCEPT ![Supervisor] = Nothing] /\ chain' = Receipt
  ELSE /\ worker' = [worker EXCEPT ![Supervisor].pc = "mirror", ![Supervisor].todo = Tail(@)]
       /\ UNCHANGED chain

\* A mirror is run at once; what it does not confirm is to be queued.
MirrorNow ==
  LET w == worker[Supervisor] IN
  /\ w.pc = "mirror"
  /\ \E a \in Answers(Head(w.todo)) :
       /\ Executed(Head(w.todo), w.request, a)
       /\ IF a.verdict = "success" THEN Mirrored
          ELSE worker' = [worker EXCEPT ![Supervisor].pc = "enqueue"] /\ UNCHANGED chain
  /\ UNCHANGED <<queue, dead, lock, health, issued, budget>>

Queued(m, request) ==
  \E e \in Range(queue) : e.mirror = m /\ Key(e.request) = Key(request)

\* A request whose adapter and key are queued already is dropped, and so is one
\* the file has no room for: the manager keeps the error and goes on.
Enqueue ==
  LET w == worker[Supervisor]
      m == Head(w.todo)
      e == [id |-> Cardinality(issued) + 1, mirror |-> m, request |-> w.request]
  IN
  /\ w.pc = "enqueue" /\ lock = NoOne
  /\ IF Queued(m, w.request) \/ Len(queue) >= QueueMax
     THEN UNCHANGED <<queue, issued>>
     ELSE queue' = Append(queue, e) /\ issued' = issued \cup {e}
  /\ Mirrored
  /\ UNCHANGED <<dead, lock, holds, health, budget>>

-----------------------------------------------------------------------------
(* MirrorOutbox.replay                                                       *)

\* The supervisor replays one entry, the command up to a hundred.
Limit(w)   == IF w = Supervisor THEN 1 ELSE 100
Adapters(w) == IF w = Supervisor THEN Mirrors ELSE Served

\* The batch is read under the lock.  An empty replay changes nothing.
ReadBatch(w) ==
  /\ worker[w].pc = "idle" /\ lock = NoOne /\ queue # <<>>
  /\ LET n == IF Len(queue) < Limit(w) THEN Len(queue) ELSE Limit(w)
     IN  worker' = [worker EXCEPT ![w] =
                      [Nothing EXCEPT !.pc = "replay", !.batch = SubSeq(queue, 1, n)]]
  /\ w = Operator => budget.commands > 0
  /\ budget' = IF w = Operator THEN [budget EXCEPT !.commands = @ - 1] ELSE budget
  /\ UNCHANGED <<queue, dead, lock, chain, holds, health, issued>>

\* The entry a worker is at, until every entry of the batch has an outcome.
AtEntry(w) == worker[w].pc = "replay" /\ Len(worker[w].outcomes) < Len(worker[w].batch)
Entry(w)   == worker[w].batch[Len(worker[w].outcomes) + 1]

\* Faulty variant: an entry is claimed although its lock is held.
ClaimedAnyway(w) == TRUE

Claimed(w) == \A v \in Workers \ {w} :
                worker[v].pc = "execute" => Stripe(Entry(v).id) # Stripe(Entry(w).id)

\* An entry another worker has claimed, or whose adapter this one does not know,
\* is retained.
Skip(w) ==
  /\ AtEntry(w) /\ ~(Claimed(w) /\ Entry(w).mirror \in Adapters(w))
  /\ worker' = [worker EXCEPT ![w].outcomes = Append(@, "retain")]
  /\ UNCHANGED <<queue, dead, lock, chain, holds, health, issued, budget>>

Claim(w) ==
  /\ AtEntry(w) /\ Claimed(w) /\ Entry(w).mirror \in Adapters(w)
  /\ worker' = [worker EXCEPT ![w].pc = "execute"]
  /\ UNCHANGED <<queue, dead, lock, chain, holds, health, issued, budget>>

Execute(w) ==
  /\ worker[w].pc = "execute"
  /\ \E a \in Answers(Entry(w).mirror) :
       /\ Executed(Entry(w).mirror, Entry(w).request, a)
       /\ worker' = [worker EXCEPT ![w].pc = "replay",
                                   ![w].outcomes = Append(@, a.verdict)]
  /\ UNCHANGED <<queue, dead, lock, chain, health, issued, budget>>

\* The entries of a file that are in a set, in their order.
Of(s, E) ==
  LET taken[n \in 0 .. Len(s)] ==
        IF n = 0 THEN <<>>
        ELSE IF s[n] \in E THEN Append(taken[n - 1], s[n]) ELSE taken[n - 1]
  IN  taken[Len(s)]

\* The entries of the batch with one outcome.
With(w, verdict) ==
  {worker[w].batch[i] : i \in {j \in DOMAIN worker[w].outcomes :
                                 worker[w].outcomes[j] = verdict}}
\* Faulty variant: an entry counts as settled once it was tried.
Tried(w) == Range(worker[w].batch)

Settled(w) == With(w, "success") \cup With(w, "dead-letter")

\* Faulty variant: the queue is rewritten from the batch that was read.
RestOfBatch(w) == Of(worker[w].batch, Range(worker[w].batch) \ Settled(w))

\* The queue is read again; an entry that is not there any more was reconciled
\* by the other worker, and one with its key that was queued since stays.
Rest(w) == Of(queue, Range(queue) \ Settled(w))

\* Faulty variant: every refused entry of the batch is a dead letter, also one
\* the other worker has reconciled.
RefusedOfBatch(w) == Of(worker[w].batch, With(w, "dead-letter"))

Refused(w) == Of(queue, With(w, "dead-letter"))

\* Faulty variant: the outcomes are reconciled without the lock.
ReconcileUnlocked(w) ==
  /\ worker[w].pc = "replay" /\ ~AtEntry(w)
  /\ worker' = [worker EXCEPT ![w] = [Nothing EXCEPT !.pc = "append",
                                        !.letters = Refused(w), !.rest = Rest(w)]]
  /\ UNCHANGED <<queue, dead, lock, chain, holds, health, issued, budget>>

\* The size of the dead-letter file is checked before anything is written: when
\* it is full the replay raises, and no outcome of the batch counts.
Reconcile(w) ==
  /\ worker[w].pc = "replay" /\ ~AtEntry(w) /\ lock = NoOne
  /\ IF Len(dead) + Len(Refused(w)) > DeadMax
     THEN worker' = [worker EXCEPT ![w] = Nothing] /\ UNCHANGED lock
     ELSE /\ worker' = [worker EXCEPT ![w] = [Nothing EXCEPT !.pc = "append",
                                                !.letters = Refused(w), !.rest = Rest(w)]]
          /\ lock' = w
  /\ UNCHANGED <<queue, dead, chain, holds, health, issued, budget>>

\* Dead letters are appended one by one, then the queue is replaced.
AppendLetter(w) ==
  /\ worker[w].pc = "append" /\ worker[w].letters # <<>>
  /\ dead' = Append(dead, Head(worker[w].letters))
  /\ worker' = [worker EXCEPT ![w].letters = Tail(@)]
  /\ UNCHANGED <<queue, lock, chain, holds, health, issued, budget>>

Replace(w) ==
  /\ worker[w].pc = "append" /\ worker[w].letters = <<>>
  /\ queue' = worker[w].rest /\ lock' = NoOne
  /\ worker' = [worker EXCEPT ![w] = Nothing]
  /\ UNCHANGED <<dead, chain, holds, health, issued, budget>>

\* Faulty variant: the lock outlives the process.
CrashKeepingLock(w) ==
  /\ worker[w].pc # "idle" /\ budget.crashes > 0
  /\ worker' = [worker EXCEPT ![w] = Nothing]
  /\ budget' = [budget EXCEPT !.crashes = @ - 1]
  /\ UNCHANGED <<queue, dead, lock, chain, holds, health, issued>>

\* A process dies anywhere; the system gives back its locks.
Crash(w) ==
  /\ worker[w].pc # "idle" /\ budget.crashes > 0
  /\ worker' = [worker EXCEPT ![w] = Nothing]
  /\ lock' = IF lock = w THEN NoOne ELSE lock
  /\ budget' = [budget EXCEPT !.crashes = @ - 1]
  /\ UNCHANGED <<queue, dead, chain, holds, health, issued>>

-----------------------------------------------------------------------------
Manage == Checkpoint \/ Acknowledge \/ MirrorNow \/ Enqueue
Replay(w) == \/ Skip(w) \/ Claim(w) \/ Execute(w)
             \/ Reconcile(w) \/ AppendLetter(w) \/ Replace(w)

Next ==
  \/ Manage
  \/ \E w \in Workers : ReadBatch(w) \/ Replay(w) \/ Crash(w)
  \/ \E m \in Mirrors : \E h \in {"up"} \cup Failures(m) : HealthChanges(m, h)

\* The supervisor keeps ticking, a replay that was begun goes on, adapters
\* answer within their time-out, and flock serves who waits for the queue lock.
\* Nobody has to run the operator's command.
Fairness ==
  /\ WF_vars(MirrorNow) /\ SF_vars(Enqueue)
  /\ SF_vars(ReadBatch(Supervisor))
  /\ \A w \in Workers : WF_vars(Replay(w)) /\ SF_vars(Reconcile(w))

Spec == Init /\ [][Next]_vars /\ Fairness

-----------------------------------------------------------------------------
TypeOK ==
  /\ queue \in Seq(Entries) /\ dead \in Seq(Entries)
  /\ lock \in Workers \cup {NoOne}
  /\ \A w \in Workers :
       /\ worker[w].pc \in {"idle", "mirror", "enqueue", "replay", "execute", "append"}
       /\ worker[w].batch \in Seq(Entries) /\ worker[w].rest \in Seq(Entries)
       /\ worker[w].outcomes \in Seq(Verdicts) /\ worker[w].letters \in Seq(Entries)
       /\ worker[w].todo \in Seq(Mirrors)
       /\ (worker[w].pc = "append") = (lock = w)
  /\ chain \in [gen : 1..MaxGen + 1, ver : 0..MaxVersion, verified : BOOLEAN,
                attempts : 0..MaxAttempts]
  /\ holds \in [Mirrors -> SUBSET Requests]
  /\ health \in [Mirrors -> Health] /\ issued \subseteq Entries

\* An entry that was queued is never lost: it is in the queue, or its mirror
\* holds what it says, or it is on the list of dead letters (outbox.py:201-249:
\* the queue is read again before it is replaced).
NothingLost ==
  \A e \in issued :
    e \in Range(queue) \/ e.request \in holds[e.mirror] \/ e \in Range(dead)

\* The same entry is executed by one replay at a time (outbox.py:270-275).
ClaimedOnce ==
  \A v, w \in Workers :
    v # w /\ worker[v].pc = "execute" /\ worker[w].pc = "execute" => Entry(v) # Entry(w)

\* Two replays that were both refused leave one dead letter; only a crash after
\* it was appended and before the queue is replaced leaves another.
DeadLetteredOnce ==
  \A e \in issued :
    Cardinality({i \in DOMAIN dead : dead[i] = e}) <= 1 + MaxCrashes - budget.crashes

\* Once every mirror is back for good, the queue empties: neither a crash in a
\* replay, nor the operator's batch, nor a claim lock holds an entry for ever.
QueueDrains == <>[](\A m \in Mirrors : health[m] = "up") => []<>(queue = <<>>)

\* The outbox is a queue that settles what it accepted.
Promise == INSTANCE Mailbox WITH
  Letters <- Entries, accepted <- issued, waiting <- Range(queue),
  delivered <- {e \in issued : e.request \in holds[e.mirror]},
  refused <- {e \in issued : e \in Range(dead)}
ImplementsMailbox == Promise!Spec
=============================================================================
