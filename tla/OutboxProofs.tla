----------------------------- MODULE OutboxProofs ----------------------------
(***************************************************************************)
(* What the mirror outbox keeps, for any mirrors, any number of entries,   *)
(* any limits of the files, any claim locks, and any crashes and failures. *)
(***************************************************************************)
EXTENDS Outbox, FiniteSetTheorems, SequenceTheorems, WellFoundedInduction, TLAPS

-----------------------------------------------------------------------------
(* The entries of a file that are in a set                                   *)

\* A property that fails for some number fails for a least one.
LEMMA LeastNumber ==
  ASSUME NEW S \in SUBSET Nat, S # {}
  PROVE  \E n \in S : \A m \in Nat : m < n => m \notin S
<1>1. IsWellFoundedOn(OpToRel(<, Nat), Nat) BY NatLessThanWellFounded
<1>2. PICK n \in S : \A m \in S : ~ (<<m, n>> \in OpToRel(<, Nat)) BY <1>1, WFMin
<1>3. QED BY <1>2 DEF OpToRel

\* What is taken of the first entries, as far as n.
Takes(f, s, E, n) ==
  f = [i \in 0 .. n |-> IF i = 0 THEN <<>>
                        ELSE IF s[i] \in E THEN Append(f[i - 1], s[i]) ELSE f[i - 1]]

\* One can always take the entries one after the other.
LEMMA TakesExists ==
  ASSUME NEW s, NEW E, NEW k \in Nat
  PROVE  \E f : Takes(f, s, E, k)
<1> DEFINE Bad == {n \in Nat : ~ \E f : Takes(f, s, E, n)}
<1>1. SUFFICES ASSUME Bad # {} PROVE FALSE OBVIOUS
<1>2. PICK n \in Bad : \A m \in Nat : m < n => m \notin Bad BY <1>1, LeastNumber
<1>3. n # 0
  <2> DEFINE f == [i \in 0 .. 0 |-> <<>>]
  <2>1. Takes(f, s, E, 0) BY DEF Takes
  <2>2. QED BY <2>1
<1>4. n - 1 \in Nat /\ n - 1 \notin Bad BY <1>2, <1>3
<1>5. PICK g : Takes(g, s, E, n - 1) BY <1>4
<1> DEFINE f == [i \in 0 .. n |->
                   IF i = n THEN IF s[n] \in E THEN Append(g[n - 1], s[n]) ELSE g[n - 1]
                            ELSE g[i]]
<1>6. \A i \in 0 .. n : i # 0 => i - 1 \in 0 .. n /\ f[i - 1] = g[i - 1]
  BY <1>4
<1>7. \A i \in 0 .. n : f[i] = IF i = 0 THEN <<>>
                        ELSE IF s[i] \in E THEN Append(f[i - 1], s[i]) ELSE f[i - 1]
  <2>1. TAKE i \in 0 .. n
  <2>2. CASE i = n BY <1>3, <1>6, <2>2
  <2>3. CASE i # n
    <3>1. i \in 0 .. n - 1 /\ f[i] = g[i] BY <1>4, <2>3
    <3>2. g[i] = IF i = 0 THEN <<>>
                 ELSE IF s[i] \in E THEN Append(g[i - 1], s[i]) ELSE g[i - 1]
      BY <1>5, <3>1 DEF Takes
    <3>3. QED BY <1>6, <3>1, <3>2
  <2>4. QED BY <2>2, <2>3
<1>8. Takes(f, s, E, n)
  <2> HIDE DEF f
  <2>1. f = [i \in 0 .. n |-> f[i]] BY DEF f
  <2>2. QED BY <1>7, <2>1 DEF Takes
<1>9. QED BY <1>2, <1>8

\* The operator of the model takes them one after the other.
LEMMA OfTakes ==
  ASSUME NEW T, NEW s \in Seq(T), NEW E
  PROVE  \E f : Takes(f, s, E, Len(s)) /\ Of(s, E) = f[Len(s)]
<1> DEFINE f == CHOOSE h : Takes(h, s, E, Len(s))
<1>1. Len(s) \in Nat /\ \E h : Takes(h, s, E, Len(s)) BY TakesExists
<1>2. Takes(f, s, E, Len(s)) BY <1>1
<1>3. Of(s, E) = f[Len(s)] BY DEF Of, Takes
<1>4. QED BY <1>2, <1>3

\* One more of its elements at the end leaves a sequence without repetitions so.
LEMMA OneMore ==
  ASSUME NEW T, NEW s \in Seq(T), NEW e \in T
  PROVE  /\ Append(s, e) \in Seq(T) /\ Range(Append(s, e)) = Range(s) \cup {e}
         /\ e \notin Range(s) /\ IsInjective(s) => IsInjective(Append(s, e))
<1> DEFINE a == Append(s, e)
<1>1. a \in Seq(T) /\ DOMAIN a = 1 .. Len(s) + 1 /\ DOMAIN s = 1 .. Len(s)
      /\ a[Len(s) + 1] = e /\ \A i \in 1 .. Len(s) : a[i] = s[i] /\ Len(s) \in Nat
  OBVIOUS
<1> HIDE DEF a
<1>2. Range(a) = Range(s) \cup {e}
  <2>1. \A x \in Range(a) : x \in Range(s) \cup {e} BY <1>1 DEF Range
  <2>2. \A x \in Range(s) \cup {e} : x \in Range(a)
    <3>1. TAKE x \in Range(s) \cup {e}
    <3>2. CASE x = e BY <1>1, <3>2 DEF Range
    <3>3. CASE x \in Range(s)
      <4>1. PICK i \in 1 .. Len(s) : x = s[i] BY <1>1, <3>3 DEF Range
      <4>2. i \in DOMAIN a /\ a[i] = x BY <1>1, <4>1
      <4>3. QED BY <4>2 DEF Range
    <3>4. QED BY <3>2, <3>3
  <2>3. QED BY <2>1, <2>2
<1>3. ASSUME e \notin Range(s), IsInjective(s) PROVE IsInjective(a)
  <2>1. \A i \in 1 .. Len(s) : s[i] # e BY <1>1, <1>3 DEF Range
  <2>2. \A i, j \in 1 .. Len(s) : s[i] = s[j] => i = j BY <1>1, <1>3 DEF IsInjective
  <2>3. \A i, j \in DOMAIN a : a[i] = a[j] => i = j
    <3>1. TAKE i, j \in DOMAIN a
    <3>2. HAVE a[i] = a[j]
    <3>3. CASE i = Len(s) + 1 BY <1>1, <2>1, <3>2, <3>3
    <3>4. CASE j = Len(s) + 1 BY <1>1, <2>1, <3>2, <3>4
    <3>5. CASE i \in 1 .. Len(s) /\ j \in 1 .. Len(s) BY <1>1, <2>2, <3>2, <3>5
    <3>6. QED BY <1>1, <3>3, <3>4, <3>5
  <2>4. QED BY <2>3 DEF IsInjective
<1>4. QED BY <1>1, <1>2, <1>3 DEF a

\* What is taken of a file: those of its entries that are in the set, and none
\* of them twice when none is in the file twice.
LEMMA OfKeeps ==
  ASSUME NEW T, NEW s \in Seq(T), NEW E
  PROVE  /\ Of(s, E) \in Seq(T) /\ Range(Of(s, E)) = Range(s) \cap E
         /\ IsInjective(s) => IsInjective(Of(s, E))
<1> DEFINE First(i) == {s[j] : j \in 1 .. i}
           Good(g, i) == /\ g \in Seq(T) /\ Range(g) = First(i) \cap E
                         /\ IsInjective(s) => IsInjective(g)
<1>1. Len(s) \in Nat /\ DOMAIN s = 1 .. Len(s) /\ \A i \in 1 .. Len(s) : s[i] \in T
  OBVIOUS
<1>2. PICK f : Takes(f, s, E, Len(s)) /\ Of(s, E) = f[Len(s)] BY OfTakes
<1> DEFINE Bad == {n \in 0 .. Len(s) : ~ Good(f[n], n)}
<1>3. Bad = {}
  <2>1. SUFFICES ASSUME Bad # {} PROVE FALSE OBVIOUS
  <2>2. PICK n \in Bad : \A m \in Nat : m < n => m \notin Bad
    <3>1. Bad \in SUBSET Nat BY <1>1
    <3>2. QED BY <2>1, <3>1, LeastNumber
  <2>3. n # 0
    <3>1. 0 \in 0 .. Len(s) /\ f[0] = <<>> BY <1>1, <1>2 DEF Takes
    <3>2. <<>> \in Seq(T) /\ Range(<<>>) = {} /\ IsInjective(<<>>) /\ First(0) = {}
      BY DEF Range, IsInjective
    <3>3. Good(f[0], 0) BY <3>1, <3>2
    <3>4. QED BY <3>3
  <2>4. n \in 1 .. Len(s) /\ n - 1 \in 0 .. Len(s) /\ n - 1 \in Nat /\ n - 1 < n BY <1>1, <2>3
  <2>5. Good(f[n - 1], n - 1) BY <2>2, <2>4
  <2>6. f[n] = IF s[n] \in E THEN Append(f[n - 1], s[n]) ELSE f[n - 1]
    <3>1. n \in 0 .. Len(s) /\ n # 0 BY <2>4
    <3> HIDE DEF Bad
    <3>2. QED BY <1>2, <3>1 DEF Takes
  <2>7. First(n) = First(n - 1) \cup {s[n]}
    <3>1. 1 .. n = (1 .. n - 1) \cup {n} BY <2>4
    <3>2. QED BY <3>1
  <2>8. Good(f[n], n)
    <3>1. CASE s[n] \notin E
      <4>1. First(n) \cap E = First(n - 1) \cap E BY <2>7, <3>1
      <4>2. QED BY <2>5, <2>6, <3>1, <4>1
    <3>2. CASE s[n] \in E
      <4> DEFINE g == f[n - 1]
      <4>1. g \in Seq(T) /\ s[n] \in T /\ f[n] = Append(g, s[n])
        BY <1>1, <2>4, <2>5, <2>6, <3>2
      <4>2. Range(g) = First(n - 1) \cap E BY <2>5
      <4>3. IsInjective(s) => s[n] \notin First(n - 1) BY <1>1, <2>4 DEF IsInjective
      <4>4. First(n) \cap E = (First(n - 1) \cap E) \cup {s[n]} BY <2>7, <3>2
      <4>5. IsInjective(s) => IsInjective(g) BY <2>5
      <4> HIDE DEF g, First
      <4>6. QED BY <4>1, <4>2, <4>3, <4>4, <4>5, OneMore
    <3>3. QED BY <3>1, <3>2
  <2>9. QED BY <2>2, <2>8
<1>4. Good(f[Len(s)], Len(s))
  <2>1. Len(s) \in 0 .. Len(s) BY <1>1
  <2> HIDE DEF Good
  <2>2. QED BY <1>3, <2>1
<1>5. First(Len(s)) = Range(s) BY <1>1 DEF Range
<1>6. QED BY <1>2, <1>4, <1>5

-----------------------------------------------------------------------------
(* The inductive invariant                                                   *)

Held(e) == e.request \in holds[e.mirror]

Works == [pc : {"idle", "mirror", "enqueue", "replay", "execute", "append"},
          batch : Seq(Entries), outcomes : Seq(Verdicts), letters : Seq(Entries),
          rest : Seq(Entries), todo : Seq(Mirrors), request : Requests \cup {<<>>},
          answered : BOOLEAN]

\* The manager is at a mirror, with a request of the supervisor's chain, and what
\* it may still queue has a number of its own.
Mirrorings(k) ==
  /\ k.todo # <<>> /\ k.request \in Requests
  /\ chain.gen = k.request.gen /\ chain.ver = k.request.ver
  /\ Cardinality(issued) + Len(k.todo) <= MaxEntries

\* An outcome says what a mirror answered, and what was taken is held.
Replaying(k) ==
  /\ Len(k.outcomes) <= Len(k.batch)
  /\ k.pc = "execute" => Len(k.outcomes) < Len(k.batch)
  /\ \A i \in DOMAIN k.outcomes : k.outcomes[i] = "success" => Held(k.batch[i])

\* The queue is about to be replaced: what is not kept of it is settled.
Appending(k) ==
  /\ Range(k.rest) \subseteq Range(queue) /\ Range(k.letters) \subseteq Range(queue)
  /\ IsInjective(k.rest) /\ IsInjective(k.letters)
  /\ Range(k.rest) \cap Range(k.letters) = {}
  /\ \A e \in Range(queue) :
       e \in Range(k.rest) \cup Range(k.letters) \/ Held(e) \/ e \in Range(dead)

Fit(v) ==
  LET k == worker[v] IN
  /\ (k.pc = "append") = (lock = v)
  /\ k.pc \in {"mirror", "enqueue"} => v = Supervisor /\ Mirrorings(k)
  /\ k.pc \in {"replay", "execute"} => Replaying(k)
  /\ k.pc = "append" => Appending(k)

WorkerFit == worker \in [Workers -> Works] /\ \A v \in Workers : Fit(v)

ChainFit ==
  /\ chain \in [gen : 1 .. MaxGen + 1, ver : 0 .. MaxVersion, verified : BOOLEAN,
                attempts : 0 .. MaxAttempts]
  /\ chain.verified => chain.gen <= MaxGen /\ chain.ver > 0

WorldFit ==
  /\ lock \in Workers \cup {NoOne}
  /\ holds \in [Mirrors -> SUBSET Requests] /\ health \in [Mirrors -> Health]
  /\ budget \in [crashes : 0 .. MaxCrashes, failures : Nat, commands : Nat]

\* An entry is in the queue once, and its number tells it from those to come.
FilesFit ==
  /\ queue \in Seq(Entries) /\ IsInjective(queue) /\ Range(queue) \subseteq issued
  /\ dead \in Seq(Entries) /\ Range(dead) \subseteq issued
  /\ issued \subseteq Entries /\ IsFiniteSet(issued)
  /\ \A e \in issued : e.id <= Cardinality(issued)

ClaimFit ==
  \A v, w \in Workers :
    v # w /\ worker[v].pc = "execute" /\ worker[w].pc = "execute"
      => Stripe(Entry(v).id) # Stripe(Entry(w).id)

\* Entries that may become dead letters still: the queue, or what a reconciliation
\* has not written of it.
Owed(e) == IF lock = NoOne THEN e \in Range(queue)
           ELSE e \in Range(worker[lock].letters) \cup Range(worker[lock].rest)

Copies(e) == {i \in DOMAIN dead : dead[i] = e}
LettersFit ==
  \A e \in issued :
    Cardinality(Copies(e)) <= (MaxCrashes - budget.crashes) + (IF Owed(e) THEN 0 ELSE 1)

Inv == WorldFit /\ ChainFit /\ WorkerFit /\ FilesFit /\ NothingLost /\ ClaimFit /\ LettersFit

-----------------------------------------------------------------------------
(* The workers                                                               *)

Work(p, b, o, l, r, t, q, a) ==
  [pc |-> p, batch |-> b, outcomes |-> o, letters |-> l, rest |-> r, todo |-> t,
   request |-> q, answered |-> a]

\* A worker is what its fields are.
LEMMA WorkIsItsFields ==
  ASSUME NEW k \in Works
  PROVE  k = Work(k.pc, k.batch, k.outcomes, k.letters, k.rest, k.todo, k.request, k.answered)
BY DEF Work, Works

\* An idle worker holds nothing.
LEMMA NothingIsWork == Nothing \in Works /\ Nothing.pc = "idle"
  /\ Nothing = Work("idle", <<>>, <<>>, <<>>, <<>>, <<>>, <<>>, FALSE)
<1>1. <<>> \in Seq(Entries) /\ <<>> \in Seq(Verdicts) /\ <<>> \in Seq(Mirrors) OBVIOUS
<1>2. QED BY <1>1 DEF Nothing, Works, Work

\* A step of one worker leaves the other where it is.
Turn(w, k) ==
  /\ worker' \in [Workers -> Works] /\ worker'[w] = k
  /\ \A v \in Workers \ {w} : worker'[v] = worker[v]

\* A worker's turn gives it what was said, and leaves the others alone.
LEMMA TurnOf ==
  ASSUME WorkerFit, NEW w \in Workers, NEW k \in Works, worker' = [worker EXCEPT ![w] = k]
  PROVE  Turn(w, k)
BY DEF WorkerFit, Turn

\* What a step of w owes to the other worker: mirrors forget nothing, dead letters
\* stay, the queue belongs to who holds its lock, the chain to the supervisor.
Apart(w) ==
  /\ \A v \in Workers \ {w} : worker'[v] = worker[v] /\ (lock' = v) = (lock = v)
  /\ \A m \in Mirrors : holds[m] \subseteq holds'[m]
  /\ Range(dead) \subseteq Range(dead')
  /\ w # Supervisor => UNCHANGED <<chain, issued>>
  /\ \A v \in Workers \ {w} : lock = v => UNCHANGED queue

\* Whatever one worker does within Apart, the others still fit.
LEMMA OthersFit ==
  ASSUME Inv, NEW w \in Workers, Apart(w)
  PROVE  \A v \in Workers \ {w} : Fit(v)'
<1> TAKE v \in Workers \ {w}
<1> DEFINE k == worker[v]
<1>1. Fit(v) /\ k \in Works /\ worker'[v] = k /\ (lock' = v) = (lock = v)
  BY DEF Inv, WorkerFit, Apart
<1>2. \A e \in Entries : Held(e) => Held(e)' BY DEF Held, Apart, Entries
<1>3. ((k.pc = "append") = (lock = v))' BY <1>1 DEF Fit
<1>4. k.pc \in {"mirror", "enqueue"} => v = Supervisor /\ Mirrorings(k)'
  <2>1. HAVE k.pc \in {"mirror", "enqueue"}
  <2>2. v = Supervisor /\ w # Supervisor /\ Mirrorings(k) BY <1>1, <2>1 DEF Fit
  <2>3. UNCHANGED <<chain, issued>> BY <2>2 DEF Apart
  <2>4. Mirrorings(k)' BY <1>1, <2>2, <2>3 DEF Mirrorings
  <2>5. QED BY <2>2, <2>4
<1>5. k.pc \in {"replay", "execute"} => Replaying(k)'
  <2>1. HAVE k.pc \in {"replay", "execute"}
  <2>2. Replaying(k) BY <1>1, <2>1 DEF Fit
  <2>3. \A i \in DOMAIN k.outcomes : k.batch[i] \in Entries
    <3>1. k.batch \in Seq(Entries) /\ k.outcomes \in Seq(Verdicts) BY <1>1 DEF Works
    <3>2. Len(k.outcomes) <= Len(k.batch) BY <2>2 DEF Replaying
    <3>3. QED BY <3>1, <3>2
  <2>4. QED BY <1>1, <1>2, <2>2, <2>3 DEF Replaying
<1>6. k.pc = "append" => Appending(k)'
  <2>1. HAVE k.pc = "append"
  <2>2. Appending(k) /\ lock = v BY <1>1, <2>1 DEF Fit
  <2>3. queue' = queue /\ Range(dead) \subseteq Range(dead') BY <2>2 DEF Apart
  <2>4. Range(queue) \subseteq Entries BY DEF Inv, FilesFit
  <2>5. \A e \in Range(queue) : Held(e) => Held(e)' BY <1>2, <2>4
  <2>6. QED BY <1>1, <2>2, <2>3, <2>5 DEF Appending
<1>7. QED BY <1>1, <1>3, <1>4, <1>5, <1>6 DEF Fit

\* What is left behind the first element.
LEMMA TailFits ==
  ASSUME NEW T, NEW s \in Seq(T), s # <<>>
  PROVE  /\ Head(s) \in T /\ Tail(s) \in Seq(T) /\ Len(Tail(s)) = Len(s) - 1
         /\ Len(s) \in Nat \ {0} /\ Range(s) = {Head(s)} \cup Range(Tail(s))
         /\ Len(s) # 1 => Tail(s) # <<>>
         /\ IsInjective(s) => IsInjective(Tail(s)) /\ Head(s) \notin Range(Tail(s))
<1> DEFINE r == Tail(s)
<1>1. Len(s) \in Nat \ {0} /\ DOMAIN s = 1 .. Len(s) /\ Head(s) = s[1] /\ s[1] \in T
  OBVIOUS
<1>2. r \in Seq(T) /\ DOMAIN r = 1 .. Len(s) - 1 /\ Len(r) = Len(s) - 1
      /\ \A i \in 1 .. Len(s) - 1 : r[i] = s[i + 1]
  OBVIOUS
<1> HIDE DEF r
<1>3. Range(s) = {Head(s)} \cup Range(r)
  <2>1. \A x \in Range(s) : x \in {Head(s)} \cup Range(r)
    <3>1. TAKE x \in Range(s)
    <3>2. PICK i \in 1 .. Len(s) : x = s[i] BY <1>1 DEF Range
    <3>3. CASE i = 1 BY <1>1, <3>2, <3>3
    <3>4. CASE i # 1
      <4>1. i - 1 \in 1 .. Len(s) - 1 /\ x = s[(i - 1) + 1] BY <1>1, <3>2, <3>4
      <4>2. x = r[i - 1] BY <1>2, <4>1
      <4>3. QED BY <1>2, <4>1, <4>2 DEF Range
    <3>5. QED BY <3>3, <3>4
  <2>2. \A x \in {Head(s)} \cup Range(r) : x \in Range(s)
    <3>1. Head(s) \in Range(s) BY <1>1 DEF Range
    <3>2. \A i \in 1 .. Len(s) - 1 : r[i] = s[i + 1] /\ i + 1 \in 1 .. Len(s) BY <1>1, <1>2
    <3>3. \A x \in Range(r) : x \in Range(s) BY <1>1, <1>2, <3>2 DEF Range
    <3>4. QED BY <3>1, <3>3
  <2>3. QED BY <2>1, <2>2
<1>4. ASSUME IsInjective(s) PROVE IsInjective(r) /\ Head(s) \notin Range(r)
  <2>1. \A i, j \in 1 .. Len(s) : s[i] = s[j] => i = j BY <1>1, <1>4 DEF IsInjective
  <2>2. \A i \in 1 .. Len(s) - 1 : r[i] = s[i + 1] /\ i + 1 \in 1 .. Len(s) BY <1>1, <1>2
  <2>3. \A i, j \in DOMAIN r : r[i] = r[j] => i = j BY <1>2, <2>1, <2>2
  <2>4. \A i \in DOMAIN r : r[i] # Head(s)
    <3>1. 1 \in 1 .. Len(s) BY <1>1
    <3>2. \A i \in DOMAIN r : i + 1 # 1 /\ i + 1 \in 1 .. Len(s) /\ r[i] = s[i + 1]
      BY <1>2, <2>2
    <3>3. QED BY <1>1, <2>1, <3>1, <3>2
  <2>5. IsInjective(r) BY <2>3 DEF IsInjective
  <2>6. Head(s) \notin Range(r) BY <2>4 DEF Range
  <2>7. QED BY <2>5, <2>6
<1>5. Len(s) # 1 => r # <<>> BY <1>1, <1>2
<1>6. QED BY <1>1, <1>2, <1>3, <1>4, <1>5 DEF r

\* What a step changes of the workers: one takes its turn and fits, apart from the
\* other.
Moves(w) == /\ worker' \in [Workers -> Works] /\ Fit(w)' /\ Apart(w)

\* A step of one worker keeps all workers fit.
LEMMA MovesFit ==
  ASSUME Inv, NEW w \in Workers, Moves(w) PROVE WorkerFit'
<1>1. \A v \in Workers : Fit(v)' BY OthersFit DEF Moves
<1>2. QED BY <1>1 DEF Moves, WorkerFit

\* A verdict, and a mirror that confirms has what it was asked to take.
LEMMA AnswersFit ==
  ASSUME WorldFit, NEW m \in Mirrors, NEW a \in Answers(m)
  PROVE  /\ a.verdict \in Verdicts /\ a.taken \in BOOLEAN
         /\ a.verdict = "success" => a.taken
<1>1. health[m] \in {"up", "down", "gone"} BY DEF WorldFit, Health
<1>2. CASE health[m] = "up"
  <2>1. Answers(m) = {[verdict |-> "success", taken |-> TRUE]} BY <1>2 DEF Answers
  <2>2. a = [verdict |-> "success", taken |-> TRUE] BY <2>1
  <2>3. QED BY <2>2 DEF Verdicts
<1>3. CASE health[m] = "down" BY <1>3 DEF Answers, Verdicts
<1>4. CASE health[m] = "gone"
  <2>1. Answers(m) = {[verdict |-> "dead-letter", taken |-> FALSE]} BY <1>4 DEF Answers
  <2>2. a = [verdict |-> "dead-letter", taken |-> FALSE] BY <2>1
  <2>3. QED BY <2>2 DEF Verdicts
<1>5. QED BY <1>1, <1>2, <1>3, <1>4

\* Mirrors forget nothing.
LEMMA ExecutedHolds ==
  ASSUME WorldFit, NEW m \in Mirrors, NEW r \in Requests, NEW a, a.taken \in BOOLEAN,
         Executed(m, r, a)
  PROVE  /\ holds' \in [Mirrors -> SUBSET Requests]
         /\ \A n \in Mirrors : holds[n] \subseteq holds'[n]
         /\ a.taken => r \in holds'[m]
         /\ \A n \in Mirrors : n # m => holds'[n] = holds[n]
BY DEF WorldFit, Executed

\* Of a worker that waits, or was never there, nothing is asked.
LEMMA IdleFits ==
  ASSUME NEW w \in Workers, worker'[w] = Nothing, lock' # w PROVE Fit(w)'
<1>1. Nothing.pc = "idle" BY NothingIsWork
<1>2. QED BY <1>1 DEF Fit

\* A receipt is one of the supervisor's chain.
LEMMA ReceiptFits ==
  ASSUME ChainFit, Mirrorings(worker[Supervisor]), worker[Supervisor].answered \in BOOLEAN,
         chain' \in {chain, Receipt}
  PROVE  ChainFit'
<1> DEFINE r == worker[Supervisor].request
           b == worker[Supervisor].answered
<1>1. r \in Requests /\ chain.gen = r.gen /\ chain.ver = r.ver BY DEF Mirrorings
<1>2. chain.gen \in 1 .. MaxGen /\ chain.ver \in 1 .. MaxVersion BY <1>1 DEF Requests
<1>3. MaxGen \in Nat /\ MaxAttempts \in Nat BY BoundsAssumption
<1>4. chain = [gen |-> chain.gen, ver |-> chain.ver, verified |-> chain.verified,
               attempts |-> chain.attempts]
  BY DEF ChainFit
<1>5. CASE r.op = "write"
  <2>1. [chain EXCEPT !.verified = b] =
          [gen |-> chain.gen, ver |-> chain.ver, verified |-> b, attempts |-> chain.attempts]
    BY <1>4
  <2>2. chain' = chain \/ chain' = [chain EXCEPT !.verified = b] BY <1>5 DEF Receipt
  <2>3. QED BY <1>2, <1>3, <2>1, <2>2 DEF ChainFit
<1>6. CASE r.op # "write"
  <2>1. PICK g \in 1 .. MaxGen + 1 : g = chain.gen + 1 BY <1>2, <1>3
  <2>2. chain' = chain \/ chain' = [chain EXCEPT !.gen = g, !.verified = FALSE, !.attempts = 0]
    BY <1>6, <2>1 DEF Receipt
  <2>3. CASE chain' = chain BY <2>3 DEF ChainFit
  <2>4. CASE chain' = [chain EXCEPT !.gen = g, !.verified = FALSE, !.attempts = 0]
    <3>1. chain' \in [gen : 1 .. MaxGen + 1, ver : 0 .. MaxVersion, verified : BOOLEAN,
                      attempts : 0 .. MaxAttempts]
      <4>1. ASSUME NEW G, NEW V, NEW A, NEW n \in G, NEW z \in A,
                   NEW c \in [gen : G, ver : V, verified : BOOLEAN, attempts : A]
            PROVE  [c EXCEPT !.gen = n, !.verified = FALSE, !.attempts = z]
                     \in [gen : G, ver : V, verified : BOOLEAN, attempts : A]
        OBVIOUS
      <4>2. 0 \in 0 .. MaxAttempts BY <1>3
      <4>3. QED BY <2>4, <4>1, <4>2 DEF ChainFit
    <3>2. chain'.verified = FALSE BY <1>4, <2>4
    <3>3. QED BY <3>1, <3>2 DEF ChainFit
  <2>5. QED BY <2>2, <2>3, <2>4
<1>7. QED BY <1>5, <1>6

\* The manager goes on with the mirrors that are left, or it is done.
LEMMA MirroredFits ==
  ASSUME WorkerFit, ChainFit, worker[Supervisor].pc \in {"mirror", "enqueue"}, Mirrored,
         UNCHANGED lock, Cardinality(issued) \in Nat,
         Cardinality(issued') \in {Cardinality(issued), Cardinality(issued) + 1}
  PROVE  /\ ChainFit' /\ Fit(Supervisor)' /\ \E k : Turn(Supervisor, k)
         /\ worker'[Supervisor].pc # "execute"
<1> DEFINE w == worker[Supervisor]
<1>1. Supervisor \in Workers BY DEF Workers
<1>2. w \in Works /\ Mirrorings(w) /\ lock # Supervisor BY <1>1 DEF WorkerFit, Fit
<1>3. chain' \in {chain, Receipt} BY DEF Mirrored
<1>4. ChainFit' BY <1>2, <1>3, ReceiptFits DEF Works
<1>5. w.todo \in Seq(Mirrors) /\ w.todo # <<>> BY <1>2 DEF Works, Mirrorings
<1>6. CASE Len(w.todo) = 1
  <2>1. worker' = [worker EXCEPT ![Supervisor] = Nothing] BY <1>6 DEF Mirrored
  <2>2. Turn(Supervisor, Nothing) BY <1>1, <2>1, TurnOf, NothingIsWork
  <2>3. Fit(Supervisor)' BY <1>1, <1>2, <2>2, IdleFits DEF Turn
  <2>4. QED BY <1>4, <2>2, <2>3, NothingIsWork DEF Turn
<1>7. CASE Len(w.todo) # 1
  <2>1. PICK t \in Seq(Mirrors) : /\ t = Tail(w.todo) /\ t # <<>>
                                  /\ Len(t) = Len(w.todo) - 1 /\ Len(w.todo) \in Nat
    BY <1>5, <1>7, TailFits
  <2>0. PICK k : k = [w EXCEPT !.pc = "mirror", !.todo = t] OBVIOUS
  <2>2. k \in Works /\ k.pc = "mirror" /\ k.todo = t /\ k.request = w.request
    BY <1>2, <2>0 DEF Works
  <2>3. worker' = [worker EXCEPT ![Supervisor] = k] /\ UNCHANGED chain
    BY <1>1, <1>7, <2>0, <2>1 DEF Mirrored, WorkerFit
  <2>4. Turn(Supervisor, k) BY <1>1, <2>2, <2>3, TurnOf
  <2>6. Mirrorings(k)'
    <3>1. Cardinality(issued') + Len(k.todo) <= MaxEntries
      BY <1>2, <2>1, <2>2, BoundsAssumption DEF Mirrorings
    <3>2. w.request \in Requests /\ chain'.gen = w.request.gen /\ chain'.ver = w.request.ver
      BY <1>2, <2>3 DEF Mirrorings
    <3>4. QED BY <2>1, <2>2, <3>1, <3>2 DEF Mirrorings
  <2>7. Fit(Supervisor)' BY <1>2, <2>2, <2>4, <2>6 DEF Fit, Turn
  <2>8. QED BY <1>4, <2>2, <2>4, <2>7 DEF Turn
<1>8. QED BY <1>6, <1>7

\* The identities issued so far are finitely many.
LEMMA IssuedCounts == ASSUME Inv PROVE Cardinality(issued) \in Nat
BY FS_CardinalityType DEF Inv, FilesFit

\* A request sets out for all of the mirrors.
LEMMA MirroringFits ==
  ASSUME Inv, worker[Supervisor].pc = "idle", WithinBounds,
         NEW q \in Requests, NEW b \in BOOLEAN, Mirroring(q, b),
         chain'.gen = q.gen, chain'.ver = q.ver, UNCHANGED <<queue, dead, lock, holds, issued>>
  PROVE  Moves(Supervisor) /\ worker'[Supervisor].pc # "execute"
<1>1. Supervisor \in Workers BY DEF Workers
<1>2. MirrorAdapters \in Seq(Mirrors) /\ MirrorAdapters # <<>> BY MirrorsAssumption
<1>3. PICK k : k = [Nothing EXCEPT !.pc = "mirror", !.todo = MirrorAdapters,
                                   !.request = q, !.answered = b]
  OBVIOUS
<1>4. k \in Works /\ k.pc = "mirror" /\ k.todo = MirrorAdapters /\ k.request = q
  BY <1>2, <1>3, NothingIsWork DEF Works
<1>5. worker' = [worker EXCEPT ![Supervisor] = k] BY <1>3 DEF Mirroring
<1>6. Turn(Supervisor, k) BY <1>1, <1>4, <1>5, TurnOf DEF Inv
<1>7. Mirrorings(k)' BY <1>2, <1>4 DEF Mirrorings, WithinBounds
<1>8. lock # Supervisor BY <1>1 DEF Inv, WorkerFit, Fit
<1>9. Fit(Supervisor)' BY <1>4, <1>6, <1>7, <1>8 DEF Fit, Turn
<1>10. Apart(Supervisor) BY <1>6 DEF Apart, Turn
<1>11. QED BY <1>4, <1>6, <1>9, <1>10 DEF Moves, Turn

\* checkpoint makes a request of the next capsule and sets out for the mirrors.
LEMMA CheckpointMoves ==
  ASSUME Inv, Checkpoint
  PROVE  Moves(Supervisor) /\ ChainFit' /\ worker'[Supervisor].pc # "execute"
<1> DEFINE q == [op |-> "write", gen |-> chain.gen, ver |-> chain.ver + 1]
<1>1. chain \in [gen : 1 .. MaxGen + 1, ver : 0 .. MaxVersion, verified : BOOLEAN,
                 attempts : 0 .. MaxAttempts]
  BY DEF Inv, ChainFit
<1>2. MaxGen \in Nat /\ MaxVersion \in Nat BY BoundsAssumption
<1>3. chain.gen \in 1 .. MaxGen /\ chain.ver + 1 \in 1 .. MaxVersion
  BY <1>1, <1>2 DEF Checkpoint
<1>4. q \in Requests BY <1>3 DEF Requests
<1>5. chain' = [chain EXCEPT !.ver = @ + 1, !.verified = FALSE] BY DEF Checkpoint
<1>6. PICK n \in 1 .. MaxVersion : n = chain.ver + 1 BY <1>3
<1>7. chain' = [chain EXCEPT !.ver = n, !.verified = FALSE] BY <1>5, <1>6
<1>8. n \in 0 .. MaxVersion BY <1>2, <1>6
<1>9. chain' \in [gen : 1 .. MaxGen + 1, ver : 0 .. MaxVersion, verified : BOOLEAN,
                  attempts : 0 .. MaxAttempts]
  BY <1>1, <1>7, <1>8
<1>10. chain'.gen = chain.gen /\ chain'.ver = n /\ ~ chain'.verified BY <1>1, <1>7
<1>11. ChainFit' BY <1>9, <1>10 DEF ChainFit
<1>12. PICK b \in BOOLEAN : Mirroring(q, b) BY DEF Checkpoint
<1>13. worker[Supervisor].pc = "idle" /\ WithinBounds
       /\ UNCHANGED <<queue, dead, lock, holds, issued>>
  BY DEF Checkpoint
<1>14. chain'.gen = q.gen /\ chain'.ver = q.ver BY <1>6, <1>10
<1> HIDE DEF q
<1>15. Moves(Supervisor) /\ worker'[Supervisor].pc # "execute"
  BY <1>4, <1>12, <1>13, <1>14, MirroringFits
<1>16. QED BY <1>11, <1>15

\* acknowledge makes a request of the capsule that was verified.
LEMMA AcknowledgeMoves ==
  ASSUME Inv, Acknowledge
  PROVE  Moves(Supervisor) /\ ChainFit' /\ worker'[Supervisor].pc # "execute"
<1> DEFINE q == [op |-> "acknowledge", gen |-> chain.gen, ver |-> chain.ver]
<1>1. /\ chain \in [gen : 1 .. MaxGen + 1, ver : 0 .. MaxVersion, verified : BOOLEAN,
                    attempts : 0 .. MaxAttempts]
      /\ chain.verified => chain.gen <= MaxGen /\ chain.ver > 0
  BY DEF Inv, ChainFit
<1>2. MaxGen \in Nat /\ MaxVersion \in Nat /\ MaxAttempts \in Nat BY BoundsAssumption
<1>3. chain.verified /\ chain.attempts < MaxAttempts BY DEF Acknowledge
<1>4. chain.gen \in 1 .. MaxGen /\ chain.ver \in 1 .. MaxVersion BY <1>1, <1>2, <1>3
<1>5. q \in Requests BY <1>4 DEF Requests
<1>6. PICK n \in 0 .. MaxAttempts : n = chain.attempts + 1 BY <1>1, <1>2, <1>3
<1>7. chain' = [chain EXCEPT !.attempts = n] BY <1>6 DEF Acknowledge
<1>8. chain'.gen = chain.gen /\ chain'.ver = chain.ver /\ chain'.verified = chain.verified
  BY <1>1, <1>7
<1>9. chain' \in [gen : 1 .. MaxGen + 1, ver : 0 .. MaxVersion, verified : BOOLEAN,
                  attempts : 0 .. MaxAttempts]
  BY <1>1, <1>7
<1>10. ChainFit' BY <1>1, <1>8, <1>9 DEF ChainFit
<1>11. PICK b \in BOOLEAN : Mirroring(q, b) BY DEF Acknowledge
<1>12. worker[Supervisor].pc = "idle" /\ WithinBounds
       /\ UNCHANGED <<queue, dead, lock, holds, issued>>
  BY DEF Acknowledge
<1>13. chain'.gen = q.gen /\ chain'.ver = q.ver BY <1>8
<1> HIDE DEF q
<1>14. Moves(Supervisor) /\ worker'[Supervisor].pc # "execute"
  BY <1>5, <1>11, <1>12, <1>13, MirroringFits
<1>15. QED BY <1>10, <1>14

\* A mirror that confirms is done with; one that does not is queued next.
LEMMA MirrorNowMoves ==
  ASSUME Inv, MirrorNow
  PROVE  /\ Moves(Supervisor) /\ ChainFit' /\ holds' \in [Mirrors -> SUBSET Requests]
         /\ worker'[Supervisor].pc # "execute"
<1> DEFINE w == worker[Supervisor]
<1>1. Supervisor \in Workers BY DEF Workers
<1>2. w \in Works /\ Mirrorings(w) /\ w.pc = "mirror" /\ lock # Supervisor
  BY <1>1 DEF Inv, WorkerFit, Fit, MirrorNow
<1>3. Head(w.todo) \in Mirrors /\ w.request \in Requests
  BY <1>2, TailFits DEF Works, Mirrorings
<1>4. PICK a \in Answers(Head(w.todo)) :
        /\ Executed(Head(w.todo), w.request, a)
        /\ IF a.verdict = "success" THEN Mirrored
           ELSE worker' = [worker EXCEPT ![Supervisor].pc = "enqueue"] /\ UNCHANGED chain
  BY DEF MirrorNow
<1>5. UNCHANGED <<queue, dead, lock, issued>> BY DEF MirrorNow
<1>6. /\ holds' \in [Mirrors -> SUBSET Requests]
      /\ \A n \in Mirrors : holds[n] \subseteq holds'[n]
  BY <1>3, <1>4, AnswersFit, ExecutedHolds DEF Inv
<1>7. \A k : Turn(Supervisor, k) => Apart(Supervisor) BY <1>5, <1>6 DEF Apart, Turn
<1>8. CASE a.verdict = "success"
  <2>1. Cardinality(issued') = Cardinality(issued) /\ Cardinality(issued) \in Nat
    BY <1>5, IssuedCounts
  <2>2. /\ ChainFit' /\ Fit(Supervisor)' /\ \E k : Turn(Supervisor, k)
        /\ worker'[Supervisor].pc # "execute"
    BY <1>2, <1>4, <1>5, <1>8, <2>1, MirroredFits DEF Inv
  <2>3. QED BY <1>6, <1>7, <2>2 DEF Moves, Turn
<1>9. CASE a.verdict # "success"
  <2>1. PICK k : k = [w EXCEPT !.pc = "enqueue"] OBVIOUS
  <2>2. /\ k \in Works /\ k.pc = "enqueue" /\ k.todo = w.todo /\ k.request = w.request
        /\ worker' = [worker EXCEPT ![Supervisor] = k] /\ UNCHANGED chain
    BY <1>2, <1>4, <1>9, <2>1 DEF Works
  <2>3. Turn(Supervisor, k) BY <1>1, <2>2, TurnOf DEF Inv
  <2>4. Mirrorings(k)' BY <1>2, <1>5, <2>2 DEF Mirrorings
  <2>5. Fit(Supervisor)' BY <1>2, <1>5, <2>2, <2>3, <2>4 DEF Fit, Turn
  <2>6. ChainFit' BY <2>2 DEF Inv, ChainFit
  <2>7. QED BY <1>6, <1>7, <2>2, <2>3, <2>5, <2>6 DEF Moves, Turn
<1>10. QED BY <1>8, <1>9

\* The entry that is queued is a new one.
EnqueuedNow == [id |-> Cardinality(issued) + 1, mirror |-> Head(worker[Supervisor].todo),
                request |-> worker[Supervisor].request]

\* enqueue appends an entry that nobody issued before, or leaves the file alone.
LEMMA EnqueueFiles ==
  ASSUME Inv, Enqueue
  PROVE  /\ EnqueuedNow \in Entries /\ EnqueuedNow \notin issued
         /\ \/ UNCHANGED <<queue, issued>> /\ Cardinality(issued') = Cardinality(issued)
            \/ /\ queue' = Append(queue, EnqueuedNow) /\ issued' = issued \cup {EnqueuedNow}
               /\ IsFiniteSet(issued') /\ Cardinality(issued') = Cardinality(issued) + 1
<1> DEFINE w == worker[Supervisor]
           e == EnqueuedNow
<1>1. Supervisor \in Workers BY DEF Workers
<1>2. w \in Works /\ Mirrorings(w) BY <1>1 DEF Inv, WorkerFit, Fit, Enqueue
<1>3. /\ Head(w.todo) \in Mirrors /\ w.request \in Requests /\ Len(w.todo) \in Nat \ {0}
      /\ Cardinality(issued) + Len(w.todo) <= MaxEntries
  BY <1>2, TailFits DEF Works, Mirrorings
<1>4. Cardinality(issued) + 1 \in 1 .. MaxEntries BY <1>3, IssuedCounts, BoundsAssumption
<1>5. e \in Entries /\ e.id = Cardinality(issued) + 1
  BY <1>3, <1>4 DEF Entries, EnqueuedNow
<1>6. e \notin issued BY <1>5, IssuedCounts DEF Inv, FilesFit
<1>7. \/ UNCHANGED <<queue, issued>>
      \/ queue' = Append(queue, e) /\ issued' = issued \cup {e}
  BY DEF Enqueue, EnqueuedNow
<1>8. IsFiniteSet(issued) BY DEF Inv, FilesFit
<1> HIDE DEF e
<1>9. IsFiniteSet(issued \cup {e}) /\ Cardinality(issued \cup {e}) = Cardinality(issued) + 1
  BY <1>6, <1>8, FS_AddElement DEF e
<1>10. QED BY <1>5, <1>6, <1>7, <1>9 DEF e

\* After either the next mirror is due.
LEMMA EnqueueMoves ==
  ASSUME Inv, Enqueue
  PROVE  Moves(Supervisor) /\ ChainFit' /\ worker'[Supervisor].pc # "execute"
<1>1. worker[Supervisor].pc = "enqueue" /\ Mirrored /\ UNCHANGED <<dead, lock, holds>>
      /\ lock = NoOne
  BY DEF Enqueue
<1>2. Cardinality(issued) \in Nat
      /\ Cardinality(issued') \in {Cardinality(issued), Cardinality(issued) + 1}
  BY EnqueueFiles, IssuedCounts
<1>3. /\ ChainFit' /\ Fit(Supervisor)' /\ \E k : Turn(Supervisor, k)
      /\ worker'[Supervisor].pc # "execute"
  BY <1>1, <1>2, MirroredFits DEF Inv
<1>4. \A v \in Workers : lock # v BY <1>1, BoundsAssumption
<1>5. Apart(Supervisor) BY <1>1, <1>3, <1>4 DEF Apart, Turn
<1>6. QED BY <1>3, <1>5 DEF Moves, Turn

\* A replay reads the first entries of the queue.
LEMMA ReadBatchMoves ==
  ASSUME Inv, NEW w \in Workers, ReadBatch(w)
  PROVE  Moves(w) /\ worker'[w].pc # "execute"
<1>1. UNCHANGED <<queue, dead, lock, chain, holds, issued>> /\ lock = NoOne /\ lock # w
  BY BoundsAssumption DEF ReadBatch
<1> DEFINE n == IF Len(queue) < Limit(w) THEN Len(queue) ELSE Limit(w)
<1>2. queue \in Seq(Entries) /\ Len(queue) \in Nat BY DEF Inv, FilesFit
<1>3. n \in 0 .. Len(queue) BY <1>2 DEF Limit
<1>4. PICK s \in Seq(Entries) : s = SubSeq(queue, 1, n)
  <2>1. \A i \in 1 .. n : queue[i] \in Entries BY <1>2, <1>3
  <2>2. SubSeq(queue, 1, n) \in Seq(Entries) BY <1>2, <1>3, <2>1, SubSeqProperties
  <2>3. QED BY <2>2
<1>5. PICK k : k = [Nothing EXCEPT !.pc = "replay", !.batch = s] OBVIOUS
<1>6. k \in Works /\ k.pc = "replay" /\ k.batch = s /\ k.outcomes = <<>>
  BY <1>4, <1>5, NothingIsWork DEF Works, Work
<1>7. worker' = [worker EXCEPT ![w] = k] BY <1>4, <1>5 DEF ReadBatch
<1>8. Turn(w, k) BY <1>6, <1>7, TurnOf DEF Inv
<1>9. Replaying(k)'
  <2>1. Len(k.outcomes) = 0 /\ DOMAIN k.outcomes = {} /\ Len(k.batch) \in Nat BY <1>4, <1>6
  <2>2. QED BY <1>6, <2>1 DEF Replaying
<1>10. Fit(w)' BY <1>1, <1>6, <1>8, <1>9 DEF Fit, Turn
<1>11. Apart(w) BY <1>1, <1>8 DEF Apart, Turn
<1>12. QED BY <1>6, <1>8, <1>10, <1>11 DEF Moves, Turn

\* Where a replay is, and one more outcome of it.
LEMMA AtEntryIs ==
  ASSUME Inv, NEW w \in Workers, AtEntry(w) \/ worker[w].pc = "execute"
  PROVE  /\ worker[w] \in Works /\ Replaying(worker[w]) /\ lock # w
         /\ Len(worker[w].outcomes) < Len(worker[w].batch) /\ Len(worker[w].outcomes) \in Nat
         /\ Entry(w) \in Entries /\ Entry(w).mirror \in Mirrors /\ Entry(w).request \in Requests
<1> DEFINE k == worker[w]
<1>1. k \in Works /\ Replaying(k) /\ lock # w /\ Len(k.outcomes) < Len(k.batch)
  BY DEF Inv, WorkerFit, Fit, AtEntry, Replaying
<1>2. k.batch \in Seq(Entries) /\ k.outcomes \in Seq(Verdicts) BY <1>1 DEF Works
<1>3. Len(k.outcomes) + 1 \in 1 .. Len(k.batch) /\ Len(k.outcomes) \in Nat BY <1>1, <1>2
<1>4. Entry(w) \in Entries BY <1>2, <1>3 DEF Entry
<1>5. Entry(w).mirror \in Mirrors /\ Entry(w).request \in Requests BY <1>4 DEF Entries
<1>6. QED BY <1>1, <1>3, <1>4, <1>5

\* A replay notes one more outcome, and a success only of what the mirror has taken.
LEMMA OneOutcome ==
  ASSUME Inv, NEW w \in Workers, AtEntry(w) \/ worker[w].pc = "execute",
         NEW verdict \in Verdicts,
         verdict = "success" => Entry(w).request \in holds'[Entry(w).mirror],
         worker' = [worker EXCEPT ![w].pc = "replay", ![w].outcomes = Append(@, verdict)],
         UNCHANGED <<queue, dead, lock, chain, issued>>,
         \A m \in Mirrors : holds[m] \subseteq holds'[m]
  PROVE  Moves(w) /\ worker'[w].pc # "execute"
<1>1. PICK k : k = worker[w] OBVIOUS
<1>2. /\ k \in Works /\ Replaying(k) /\ lock # w /\ Len(k.outcomes) < Len(k.batch)
      /\ Len(k.outcomes) \in Nat
  BY <1>1, AtEntryIs
<1>3. k.batch \in Seq(Entries) /\ k.outcomes \in Seq(Verdicts) BY <1>2 DEF Works
<1>4. PICK o \in Seq(Verdicts) :
        /\ o = Append(k.outcomes, verdict) /\ Len(o) = Len(k.outcomes) + 1
        /\ DOMAIN o = 1 .. Len(k.outcomes) + 1 /\ o[Len(k.outcomes) + 1] = verdict
        /\ \A i \in 1 .. Len(k.outcomes) : o[i] = k.outcomes[i]
  <2> DEFINE o == Append(k.outcomes, verdict)
  <2>1. /\ o \in Seq(Verdicts) /\ Len(o) = Len(k.outcomes) + 1
        /\ DOMAIN o = 1 .. Len(k.outcomes) + 1 /\ o[Len(k.outcomes) + 1] = verdict
        /\ \A i \in 1 .. Len(k.outcomes) : o[i] = k.outcomes[i]
    BY <1>3
  <2> HIDE DEF o
  <2>2. QED BY <2>1 DEF o
<1>5. PICK n : n = [k EXCEPT !.pc = "replay", !.outcomes = o] OBVIOUS
<1>6. n \in Works /\ n.pc = "replay" /\ n.outcomes = o /\ n.batch = k.batch
  BY <1>2, <1>5 DEF Works
<1>7. worker' = [worker EXCEPT ![w] = n] BY <1>1, <1>4, <1>5 DEF Inv, WorkerFit
<1>8. Turn(w, n) BY <1>6, <1>7, TurnOf DEF Inv
<1>9. Replaying(n)'
  <2>1. \A e \in Entries : Held(e) => Held(e)' BY DEF Held, Entries
  <2>2. ASSUME NEW i \in DOMAIN o, o[i] = "success" PROVE Held(k.batch[i])'
    <3>1. CASE i = Len(k.outcomes) + 1
      <4>1. k.batch[i] = Entry(w) BY <1>1, <3>1 DEF Entry
      <4>2. Entry(w).request \in holds'[Entry(w).mirror] BY <1>4, <2>2, <3>1
      <4>3. QED BY <4>1, <4>2 DEF Held
    <3>2. CASE i # Len(k.outcomes) + 1
      <4>1. i \in 1 .. Len(k.outcomes) /\ o[i] = k.outcomes[i] BY <1>2, <1>4, <2>2, <3>2
      <4>2. i \in DOMAIN k.outcomes /\ i \in 1 .. Len(k.batch) BY <1>2, <1>3, <4>1
      <4>3. Held(k.batch[i]) /\ k.batch[i] \in Entries
        BY <1>2, <1>3, <2>2, <4>1, <4>2 DEF Replaying
      <4>4. QED BY <2>1, <4>3
    <3>3. QED BY <3>1, <3>2
  <2>3. Len(n.outcomes) <= Len(n.batch) BY <1>2, <1>3, <1>4, <1>6
  <2>4. QED BY <1>6, <2>2, <2>3 DEF Replaying
<1>10. Fit(w)' BY <1>2, <1>6, <1>8, <1>9 DEF Fit, Turn
<1>11. Apart(w) BY <1>8 DEF Apart, Turn
<1>12. QED BY <1>6, <1>8, <1>10, <1>11 DEF Moves, Turn

\* An entry that is claimed elsewhere, or whose mirror this replay does not serve, is retained.
LEMMA SkipMoves ==
  ASSUME Inv, NEW w \in Workers, Skip(w) PROVE Moves(w) /\ worker'[w].pc # "execute"
<1>1. AtEntry(w) /\ worker[w].pc = "replay" BY DEF Skip, AtEntry
<1>2. worker[w] \in Works BY <1>1, AtEntryIs
<1>3. worker' = [worker EXCEPT ![w].pc = "replay", ![w].outcomes = Append(@, "retain")]
  <2>1. PICK k : k = worker[w] OBVIOUS
  <2>2. PICK o : o = Append(k.outcomes, "retain") OBVIOUS
  <2>3. [k EXCEPT !.pc = "replay"] = k BY <1>1, <1>2, <2>1 DEF Works
  <2>4. [worker EXCEPT ![w].outcomes = o] = [worker EXCEPT ![w].pc = "replay", ![w].outcomes = o]
    BY <2>1, <2>3 DEF Inv, WorkerFit
  <2>5. QED BY <2>1, <2>2, <2>4 DEF Skip, Inv, WorkerFit
<1>4. UNCHANGED <<queue, dead, lock, chain, holds, issued>> BY DEF Skip
<1>5. "retain" \in Verdicts BY DEF Verdicts
<1>6. QED BY <1>1, <1>3, <1>4, <1>5, OneOutcome

\* An execution may or may not reach the mirror, and its verdict is noted.
LEMMA ExecuteMoves ==
  ASSUME Inv, NEW w \in Workers, Execute(w)
  PROVE  /\ Moves(w) /\ worker'[w].pc # "execute"
         /\ holds' \in [Mirrors -> SUBSET Requests]
<1>1. worker[w].pc = "execute" BY DEF Execute
<1>2. Entry(w).mirror \in Mirrors /\ Entry(w).request \in Requests BY <1>1, AtEntryIs
<1>3. PICK a \in Answers(Entry(w).mirror) :
        /\ Executed(Entry(w).mirror, Entry(w).request, a)
        /\ worker' = [worker EXCEPT ![w].pc = "replay", ![w].outcomes = Append(@, a.verdict)]
  BY DEF Execute
<1>4. a.verdict \in Verdicts /\ a.taken \in BOOLEAN /\ (a.verdict = "success" => a.taken)
  BY <1>2, AnswersFit DEF Inv
<1>5. /\ holds' \in [Mirrors -> SUBSET Requests]
      /\ \A n \in Mirrors : holds[n] \subseteq holds'[n]
      /\ a.taken => Entry(w).request \in holds'[Entry(w).mirror]
  BY <1>2, <1>3, <1>4, ExecutedHolds DEF Inv
<1>6. UNCHANGED <<queue, dead, lock, chain, issued>> BY DEF Execute
<1>7. QED BY <1>1, <1>3, <1>4, <1>5, <1>6, OneOutcome

\* An entry is claimed.
LEMMA ClaimMoves ==
  ASSUME Inv, NEW w \in Workers, Claim(w)
  PROVE  Moves(w) /\ worker'[w].batch = worker[w].batch /\ worker'[w].outcomes = worker[w].outcomes
<1>1. PICK k : k = worker[w] OBVIOUS
<1>2. k \in Works /\ Replaying(k) /\ lock # w /\ Len(k.outcomes) < Len(k.batch)
  BY <1>1, AtEntryIs DEF Claim
<1>3. UNCHANGED <<queue, dead, lock, chain, holds, issued>> BY DEF Claim
<1>4. PICK n : n = [k EXCEPT !.pc = "execute"] OBVIOUS
<1>5. n \in Works /\ n.pc = "execute" /\ n.outcomes = k.outcomes /\ n.batch = k.batch
  BY <1>2, <1>4 DEF Works
<1>6. worker' = [worker EXCEPT ![w] = n] BY <1>1, <1>4 DEF Claim, Inv, WorkerFit
<1>7. Turn(w, n) BY <1>5, <1>6, TurnOf DEF Inv
<1>8. Replaying(n)' BY <1>2, <1>3, <1>5 DEF Replaying, Held
<1>9. Fit(w)' BY <1>2, <1>3, <1>5, <1>7, <1>8 DEF Fit, Turn
<1>10. Apart(w) BY <1>3, <1>7 DEF Apart, Turn
<1>11. QED BY <1>1, <1>5, <1>7, <1>9, <1>10 DEF Moves, Turn

\* What a reconciliation keeps of the queue and what it refuses: entries of the
\* queue, none twice and none both; what is neither was confirmed by its mirror.
LEMMA Reconciles ==
  ASSUME Inv, NEW w \in Workers, worker[w].pc = "replay", ~AtEntry(w)
  PROVE  /\ Rest(w) \in Seq(Entries) /\ Refused(w) \in Seq(Entries)
         /\ IsInjective(Rest(w)) /\ IsInjective(Refused(w))
         /\ Range(Rest(w)) \subseteq Range(queue) /\ Range(Refused(w)) \subseteq Range(queue)
         /\ Range(Rest(w)) \cap Range(Refused(w)) = {}
         /\ \A e \in Range(queue) : e \in Range(Rest(w)) \cup Range(Refused(w)) \/ Held(e)
<1> DEFINE no == With(w, "dead-letter")
           yes == With(w, "success")
<1>1. queue \in Seq(Entries) /\ IsInjective(queue) BY DEF Inv, FilesFit
<1>2. /\ Rest(w) \in Seq(Entries) /\ IsInjective(Rest(w))
      /\ Range(Rest(w)) = Range(queue) \cap (Range(queue) \ Settled(w))
  BY <1>1, OfKeeps DEF Rest
<1>3. /\ Refused(w) \in Seq(Entries) /\ IsInjective(Refused(w))
      /\ Range(Refused(w)) = Range(queue) \cap no
  BY <1>1, OfKeeps DEF Refused
<1>4. \A e \in yes : Held(e)
  BY DEF With, Inv, WorkerFit, Fit, Replaying
<1>5. Settled(w) = yes \cup no BY DEF Settled
<1> HIDE DEF yes, no
<1>6. QED BY <1>2, <1>3, <1>4, <1>5

\* Reconciliation takes the lock with letters and a rest that are in the file now.
LEMMA ReconcileMoves ==
  ASSUME Inv, NEW w \in Workers, Reconcile(w)
  PROVE  /\ Moves(w) /\ worker'[w].pc # "execute"
         /\ \/ UNCHANGED lock
            \/ /\ lock = NoOne /\ lock' = w
               /\ Range(worker'[w].letters) \cup Range(worker'[w].rest) \subseteq Range(queue)
<1>1. worker[w].pc = "replay" /\ ~AtEntry(w) /\ lock = NoOne
      /\ UNCHANGED <<queue, dead, chain, holds, issued>>
  BY DEF Reconcile
<1>2. lock # w /\ \A v \in Workers : lock # v BY <1>1, BoundsAssumption
<1>3. CASE worker' = [worker EXCEPT ![w] = Nothing] /\ UNCHANGED lock
  <2>1. Turn(w, Nothing) BY <1>3, TurnOf, NothingIsWork DEF Inv
  <2>2. Fit(w)' BY <1>2, <1>3, <2>1, IdleFits DEF Turn
  <2>3. Apart(w) BY <1>1, <1>3, <2>1 DEF Apart, Turn
  <2>4. QED BY <1>3, <2>1, <2>2, <2>3, NothingIsWork DEF Moves, Turn
<1>4. CASE /\ worker' = [worker EXCEPT ![w] = [Nothing EXCEPT !.pc = "append",
                                                 !.letters = Refused(w), !.rest = Rest(w)]]
           /\ lock' = w
  <2>1. PICK l, r : l = Refused(w) /\ r = Rest(w) OBVIOUS
  <2>2. /\ l \in Seq(Entries) /\ r \in Seq(Entries)
        /\ IsInjective(l) /\ IsInjective(r)
        /\ Range(r) \subseteq Range(queue) /\ Range(l) \subseteq Range(queue)
        /\ Range(r) \cap Range(l) = {}
        /\ \A e \in Range(queue) : e \in Range(r) \cup Range(l) \/ Held(e)
    BY <1>1, <2>1, Reconciles
  <2>3. PICK k : k = [Nothing EXCEPT !.pc = "append", !.letters = l, !.rest = r] OBVIOUS
  <2>4. k \in Works /\ k.pc = "append" /\ k.letters = l /\ k.rest = r
    BY <2>2, <2>3, NothingIsWork DEF Works
  <2>5. worker' = [worker EXCEPT ![w] = k] BY <1>4, <2>1, <2>3
  <2>6. Turn(w, k) BY <2>4, <2>5, TurnOf DEF Inv
  <2>7. Appending(k)'
    <3>1. UNCHANGED <<queue, dead, holds>> BY <1>1
    <3>2. QED BY <2>2, <2>4, <3>1 DEF Appending, Held
  <2>8. Fit(w)' BY <1>4, <2>4, <2>6, <2>7 DEF Fit, Turn
  <2>9. Apart(w) BY <1>1, <1>2, <1>4, <2>6 DEF Apart, Turn
  <2>10. QED BY <1>1, <1>4, <2>2, <2>4, <2>6, <2>8, <2>9 DEF Moves, Turn
<1>5. QED BY <1>3, <1>4 DEF Reconcile

\* Who appends holds the lock.
LEMMA AppendIs ==
  ASSUME Inv, NEW w \in Workers, worker[w].pc = "append"
  PROVE  worker[w] \in Works /\ Appending(worker[w]) /\ lock = w
BY DEF Inv, WorkerFit, Fit

\* One letter less to append, and one more in the dead letters.
LEMMA AppendLetterMoves ==
  ASSUME Inv, NEW w \in Workers, AppendLetter(w)
  PROVE  /\ Moves(w) /\ worker'[w].pc # "execute"
         /\ worker'[w].letters = Tail(worker[w].letters) /\ worker'[w].rest = worker[w].rest
         /\ dead' \in Seq(Entries) /\ Range(dead') = Range(dead) \cup {Head(worker[w].letters)}
<1>1. PICK k : k = worker[w] OBVIOUS
<1>2. k \in Works /\ Appending(k) /\ lock = w /\ k.pc = "append"
  BY <1>1, AppendIs DEF AppendLetter
<1>3. k.letters \in Seq(Entries) /\ k.letters # <<>> BY <1>1, <1>2 DEF Works, AppendLetter
<1>4. PICK t \in Seq(Entries) :
        /\ t = Tail(k.letters) /\ Range(k.letters) = {Head(k.letters)} \cup Range(t)
        /\ IsInjective(t) /\ Head(k.letters) \notin Range(t) /\ Head(k.letters) \in Entries
  BY <1>2, <1>3, TailFits DEF Appending
<1>5. dead' \in Seq(Entries) /\ Range(dead') = Range(dead) \cup {Head(k.letters)}
  <2>1. dead' = Append(dead, Head(k.letters)) BY <1>1 DEF AppendLetter
  <2>2. QED BY <1>4, <2>1, OneMore DEF Inv, FilesFit
<1>6. UNCHANGED <<queue, lock, chain, holds, issued>> BY DEF AppendLetter
<1>7. PICK n : n = [k EXCEPT !.letters = t] OBVIOUS
<1>8. n \in Works /\ n.pc = "append" /\ n.letters = t /\ n.rest = k.rest
  BY <1>2, <1>4, <1>7 DEF Works
<1>9. worker' = [worker EXCEPT ![w] = n] BY <1>1, <1>4, <1>7 DEF AppendLetter, Inv, WorkerFit
<1>10. Turn(w, n) BY <1>8, <1>9, TurnOf DEF Inv
<1>11. Appending(n)' BY <1>2, <1>4, <1>5, <1>6, <1>8 DEF Appending, Held
<1>12. Fit(w)' BY <1>2, <1>6, <1>8, <1>10, <1>11 DEF Fit, Turn
<1>13. Apart(w) BY <1>2, <1>5, <1>6, <1>10 DEF Apart, Turn
<1>14. QED BY <1>1, <1>4, <1>5, <1>8, <1>10, <1>12, <1>13 DEF Moves, Turn

\* With the rest written, the lock is free and the worker idle.
LEMMA ReplaceMoves ==
  ASSUME Inv, NEW w \in Workers, Replace(w)
  PROVE  Moves(w) /\ worker'[w].pc # "execute"
<1>1. lock = w /\ \A v \in Workers \ {w} : lock # v BY AppendIs DEF Replace
<1>2. lock' = NoOne /\ UNCHANGED <<dead, chain, holds, issued>> BY DEF Replace
<1>3. \A v \in Workers : lock' # v BY <1>2, BoundsAssumption
<1>4. Turn(w, Nothing) BY TurnOf, NothingIsWork DEF Inv, Replace
<1>5. Fit(w)' BY <1>3, <1>4, IdleFits DEF Turn
<1>6. Apart(w) BY <1>1, <1>2, <1>3, <1>4 DEF Apart, Turn
<1>7. QED BY <1>4, <1>5, <1>6, NothingIsWork DEF Moves, Turn

\* A worker that dies lets go of its locks and forgets the rest.
LEMMA CrashMoves ==
  ASSUME Inv, NEW w \in Workers, Crash(w)
  PROVE  Moves(w) /\ worker'[w].pc # "execute" /\ lock' = IF lock = w THEN NoOne ELSE lock
<1>1. lock' = IF lock = w THEN NoOne ELSE lock BY DEF Crash
<1>2. UNCHANGED <<queue, dead, chain, holds, issued>> BY DEF Crash
<1>3. lock' # w /\ \A v \in Workers \ {w} : (lock' = v) = (lock = v)
  BY <1>1, BoundsAssumption
<1>4. Turn(w, Nothing) BY TurnOf, NothingIsWork DEF Inv, Crash
<1>5. Fit(w)' BY <1>3, <1>4, IdleFits DEF Turn
<1>6. Apart(w) BY <1>2, <1>3, <1>4 DEF Apart, Turn
<1>7. QED BY <1>1, <1>4, <1>5, <1>6, NothingIsWork DEF Moves, Turn

-----------------------------------------------------------------------------
(* The files                                                                 *)

\* Only a claim makes a worker execute.
LEMMA ClaimKept ==
  ASSUME Inv, NEW w \in Workers, Moves(w), worker'[w].pc # "execute" PROVE ClaimFit'
<1>1. \A v \in Workers \ {w} : worker'[v] = worker[v] /\ Entry(v)' = Entry(v)
  BY DEF Moves, Apart, Entry
<1>2. \A v \in Workers : worker'[v].pc = "execute" => v \in Workers \ {w} OBVIOUS
<1>3. QED BY <1>1, <1>2 DEF Inv, ClaimFit

\* A claim is granted only when no other worker executes under that lock.
LEMMA ClaimedApart == ASSUME Inv, NEW w \in Workers, Claim(w) PROVE ClaimFit'
<1>1. Moves(w) /\ worker'[w].batch = worker[w].batch /\ worker'[w].outcomes = worker[w].outcomes
  BY ClaimMoves
<1>2. \A v \in Workers : Entry(v)' = Entry(v) BY <1>1 DEF Moves, Apart, Entry
<1>3. \A v \in Workers \ {w} :
        worker'[v].pc = "execute" => Stripe(Entry(v).id) # Stripe(Entry(w).id)
  BY <1>1 DEF Claim, Claimed, Moves, Apart
<1>4. ASSUME NEW u \in Workers, NEW v \in Workers, u # v, worker'[u].pc = "execute",
             worker'[v].pc = "execute"
      PROVE  Stripe(Entry(u).id)' # Stripe(Entry(v).id)'
  <2>1. u = w \/ v = w BY <1>4 DEF Workers
  <2>2. CASE u = w BY <1>2, <1>3, <1>4, <2>2
  <2>3. CASE v = w BY <1>2, <1>3, <1>4, <2>3
  <2>4. QED BY <2>1, <2>2, <2>3
<1>5. QED BY <1>4 DEF ClaimFit

\* The list of dead letters is a list: it has finitely many copies of an entry.
LEMMA CopiesFinite ==
  ASSUME FilesFit, NEW e PROVE IsFiniteSet(Copies(e)) /\ Cardinality(Copies(e)) \in Nat
<1>1. Copies(e) \subseteq 1 .. Len(dead) /\ Len(dead) \in Nat BY DEF FilesFit, Copies
<1>2. IsFiniteSet(1 .. Len(dead)) BY <1>1, FS_Interval
<1>3. QED BY <1>1, <1>2, FS_Subset, FS_CardinalityType

\* The letters still count right after a step that adds none, unless an entry becomes owed one.
LEMMA LettersStay ==
  ASSUME Inv, UNCHANGED <<dead, issued>>, budget'.crashes = budget.crashes,
         \A e \in issued : Owed(e)' => Owed(e)
  PROVE  LettersFit'
<1>1. \A e \in issued : Copies(e)' = Copies(e) BY DEF Copies
<1>2. \A e \in issued : Cardinality(Copies(e)) \in Nat BY CopiesFinite DEF Inv
<1>3. budget.crashes \in 0 .. MaxCrashes /\ MaxCrashes \in Nat
  BY BoundsAssumption DEF Inv, WorldFit
<1>4. \A e \in issued : Cardinality(Copies(e)) <=
                          (MaxCrashes - budget.crashes) + (IF Owed(e) THEN 0 ELSE 1)
  BY DEF Inv, LettersFit
<1>5. ASSUME NEW e \in issued
      PROVE  Cardinality(Copies(e)') <=
               (MaxCrashes - budget'.crashes) + (IF Owed(e)' THEN 0 ELSE 1)
  <2>1. (Owed(e)' => Owed(e)) /\ Copies(e)' = Copies(e) BY <1>1
  <2>2. CASE Owed(e)' BY <1>3, <1>4, <2>1, <2>2
  <2>3. CASE ~ Owed(e)' BY <1>2, <1>3, <1>4, <2>1, <2>3
  <2>4. QED BY <2>2, <2>3
<1>6. QED BY <1>5 DEF LettersFit

\* A step that touches neither file.
LEMMA FilesStay ==
  ASSUME Inv, NEW w \in Workers, Moves(w), lock # w, UNCHANGED <<queue, dead, lock, issued>>,
         budget'.crashes = budget.crashes
  PROVE  FilesFit' /\ NothingLost' /\ LettersFit'
<1>1. FilesFit' BY DEF Inv, FilesFit
<1>2. NothingLost'
  <2>1. issued \subseteq Entries BY DEF Inv, FilesFit
  <2>2. \A e \in issued : e.mirror \in Mirrors BY <2>1 DEF Entries
  <2>3. QED BY <2>2 DEF Inv, NothingLost, Moves, Apart
<1>3. \A e : Owed(e)' = Owed(e)
  <2>1. CASE lock = NoOne BY <2>1 DEF Owed
  <2>2. CASE lock # NoOne
    <3>1. lock \in Workers \ {w} BY <2>2 DEF Inv, WorldFit
    <3>2. worker'[lock] = worker[lock] BY <3>1 DEF Moves, Apart
    <3>3. QED BY <2>2, <3>2 DEF Owed
  <2>3. QED BY <2>1, <2>2
<1>4. LettersFit' BY <1>3, LettersStay
<1>5. QED BY <1>1, <1>2, <1>4

\* A new entry is in the file once, and has no letter yet.
LEMMA EnqueueStep ==
  ASSUME Inv, Enqueue PROVE FilesFit' /\ NothingLost' /\ LettersFit'
<1>0. PICK e : e = EnqueuedNow OBVIOUS
<1>1. Supervisor \in Workers /\ Moves(Supervisor) BY EnqueueMoves DEF Workers
<1>2. UNCHANGED <<dead, lock, holds, budget>> /\ lock = NoOne BY DEF Enqueue
<1>3. lock # Supervisor BY <1>1, <1>2, BoundsAssumption
<1>4. CASE UNCHANGED <<queue, issued>>
  BY <1>1, <1>2, <1>3, <1>4, FilesStay
<1>5. CASE /\ queue' = Append(queue, e) /\ issued' = issued \cup {e}
           /\ IsFiniteSet(issued') /\ Cardinality(issued') = Cardinality(issued) + 1
  <2>1. e \in Entries /\ e \notin issued BY <1>0, EnqueueFiles
  <2>2. e.id = Cardinality(issued') BY <1>0, <1>5, <2>1 DEF EnqueuedNow, Entries
  <2>3. Cardinality(issued) \in Nat BY IssuedCounts
  <2>4. /\ queue' \in Seq(Entries) /\ Range(queue') = Range(queue) \cup {e}
        /\ IsInjective(queue')
    BY <1>5, <2>1, OneMore DEF Inv, FilesFit
  <2>5. FilesFit'
    <3>1. \A f \in issued : f.id <= Cardinality(issued) /\ f \in Entries /\ f.id \in Nat
      BY BoundsAssumption DEF Inv, FilesFit, Entries
    <3>2. \A f \in issued' : f.id <= Cardinality(issued')
      BY <1>5, <2>2, <2>3, <3>1
    <3>3. dead \in Seq(Entries) /\ Range(dead) \subseteq issued /\ issued \subseteq Entries
          /\ Range(queue) \subseteq issued
      BY DEF Inv, FilesFit
    <3>4. QED BY <1>2, <1>5, <2>1, <2>4, <3>2, <3>3 DEF FilesFit
  <2>6. NothingLost' BY <1>2, <1>5, <2>4 DEF Inv, NothingLost
  <2>7. LettersFit'
    <3>1. \A f \in issued' : Copies(f)' = Copies(f) BY <1>2 DEF Copies
    <3>2. budget.crashes \in 0 .. MaxCrashes /\ MaxCrashes \in Nat
      BY BoundsAssumption DEF Inv, WorldFit
    <3>3. Copies(e) = {}
      <4>1. e \notin Range(dead) BY <2>1 DEF Inv, FilesFit
      <4>2. QED BY <4>1 DEF Copies, Range
    <3>4. Cardinality(Copies(e)) = 0 BY <3>3, FS_EmptySet
    <3>5. Owed(e)' BY <1>2, <2>4 DEF Owed
    <3>6. \A f \in issued : Owed(f)' = Owed(f) BY <1>2, <2>1, <2>4 DEF Owed
    <3>7. \A f \in issued : Cardinality(Copies(f)) <=
                              (MaxCrashes - budget.crashes) + (IF Owed(f) THEN 0 ELSE 1)
      BY DEF Inv, LettersFit
    <3>8. Cardinality(Copies(e)) <= (MaxCrashes - budget.crashes) + (IF Owed(e)' THEN 0 ELSE 1)
      BY <3>2, <3>4, <3>5
    <3>9. ASSUME NEW f \in issued'
          PROVE  Cardinality(Copies(f)') <=
                   (MaxCrashes - budget'.crashes) + (IF Owed(f)' THEN 0 ELSE 1)
      <4>1. CASE f = e BY <1>2, <3>1, <3>8, <4>1
      <4>2. CASE f # e
        <5>1. f \in issued /\ Owed(f)' = Owed(f) BY <1>5, <3>6, <4>2
        <5>2. QED BY <1>2, <3>1, <3>7, <5>1
      <4>3. QED BY <4>1, <4>2
    <3>10. QED BY <3>9 DEF LettersFit
  <2>8. QED BY <2>5, <2>6, <2>7
<1>6. QED BY <1>0, <1>4, <1>5, EnqueueFiles

\* Reconciliation owes no letter to an entry that is not in the file.
LEMMA ReconcileStep ==
  ASSUME Inv, NEW w \in Workers, Reconcile(w) PROVE FilesFit' /\ NothingLost' /\ LettersFit'
<1>1. UNCHANGED <<queue, dead, holds, issued, budget>> /\ lock = NoOne BY DEF Reconcile
<1>2. FilesFit' BY <1>1 DEF Inv, FilesFit
<1>3. NothingLost' BY <1>1 DEF Inv, NothingLost
<1>4. \A e : Owed(e)' => Owed(e)
  <2>1. CASE UNCHANGED lock BY <1>1, <2>1 DEF Owed
  <2>2. CASE /\ lock' = w
             /\ Range(worker'[w].letters) \cup Range(worker'[w].rest) \subseteq Range(queue)
    BY <1>1, <2>2, BoundsAssumption DEF Owed
  <2>3. QED BY <2>1, <2>2, ReconcileMoves
<1>5. LettersFit' BY <1>1, <1>4, LettersStay
<1>6. QED BY <1>2, <1>3, <1>5

\* A letter that is appended is no longer owed.
LEMMA AppendLetterStep ==
  ASSUME Inv, NEW w \in Workers, AppendLetter(w) PROVE FilesFit' /\ NothingLost' /\ LettersFit'
<1>1. PICK k : k = worker[w] OBVIOUS
<1>2. PICK h : h = Head(k.letters) OBVIOUS
<1>3. /\ k \in Works /\ Appending(k) /\ lock = w /\ lock # NoOne
      /\ UNCHANGED <<queue, lock, holds, issued, budget>>
  BY <1>1, AppendIs, BoundsAssumption DEF AppendLetter
<1>4. /\ worker'[w].letters = Tail(k.letters) /\ worker'[w].rest = k.rest
      /\ dead' \in Seq(Entries) /\ Range(dead') = Range(dead) \cup {h}
  BY <1>1, <1>2, AppendLetterMoves
<1>5. /\ h \in Range(k.letters) /\ h \notin Range(Tail(k.letters)) /\ h \notin Range(k.rest)
      /\ Range(k.letters) = {h} \cup Range(Tail(k.letters)) /\ h \in issued
  <2>1. k.letters \in Seq(Entries) /\ k.letters # <<>> BY <1>1, <1>3 DEF Works, AppendLetter
  <2>2. Range(k.letters) \cap Range(k.rest) = {} /\ IsInjective(k.letters)
        /\ Range(k.letters) \subseteq issued
    BY <1>3 DEF Appending, Inv, FilesFit
  <2>3. QED BY <1>2, <2>1, <2>2, TailFits
<1>6. FilesFit' BY <1>3, <1>4, <1>5 DEF Inv, FilesFit
<1>7. NothingLost' BY <1>3, <1>4 DEF Inv, NothingLost
<1>8. Owed(h) /\ ~ Owed(h)' /\ \A e : e # h => (Owed(e)' = Owed(e))
  BY <1>1, <1>3, <1>4, <1>5 DEF Owed
<1>9. /\ \A e : e # h => Copies(e)' = Copies(e)
      /\ Cardinality(Copies(h)') <= Cardinality(Copies(h)) + 1
  <2>1. dead' = Append(dead, h) /\ dead \in Seq(Entries) /\ h \in Entries
    BY <1>1, <1>2, <1>5 DEF AppendLetter, Inv, FilesFit
  <2>2. /\ DOMAIN dead = 1 .. Len(dead) /\ DOMAIN dead' = 1 .. Len(dead) + 1 /\ Len(dead) \in Nat
        /\ dead'[Len(dead) + 1] = h /\ \A i \in 1 .. Len(dead) : dead'[i] = dead[i]
    BY <2>1
  <2>3. \A e : e # h => Copies(e)' = Copies(e) BY <2>2 DEF Copies
  <2>4. Copies(h)' = Copies(h) \cup {Len(dead) + 1} BY <2>2 DEF Copies
  <2>5. Len(dead) + 1 \notin Copies(h) BY <2>2 DEF Copies
  <2>6. IsFiniteSet(Copies(h)) /\ Cardinality(Copies(h)) \in Nat BY CopiesFinite DEF Inv
  <2>7. Cardinality(Copies(h)') = Cardinality(Copies(h)) + 1
    BY <2>4, <2>5, <2>6, FS_AddElement
  <2>8. QED BY <2>3, <2>6, <2>7
<1>10. LettersFit'
  <2>1. budget.crashes \in 0 .. MaxCrashes /\ MaxCrashes \in Nat
    BY BoundsAssumption DEF Inv, WorldFit
  <2>2. \A e \in issued : Cardinality(Copies(e)) <=
                            (MaxCrashes - budget.crashes) + (IF Owed(e) THEN 0 ELSE 1)
    BY DEF Inv, LettersFit
  <2>3. Cardinality(Copies(h)) \in Nat /\ Cardinality(Copies(h)') \in Nat
    <3>1. FilesFit /\ FilesFit' BY <1>6 DEF Inv
    <3>2. Cardinality(Copies(h)) \in Nat BY <3>1, CopiesFinite
    <3>3. Copies(h)' \subseteq 1 .. Len(dead') /\ Len(dead') \in Nat BY <1>4 DEF Copies
    <3>4. IsFiniteSet(1 .. Len(dead')) BY <3>3, FS_Interval
    <3>5. Cardinality(Copies(h)') \in Nat BY <3>3, <3>4, FS_Subset, FS_CardinalityType
    <3>6. QED BY <3>2, <3>5
  <2>4. Cardinality(Copies(h)) <= MaxCrashes - budget.crashes BY <1>5, <1>8, <2>1, <2>2, <2>3
  <2>5. Cardinality(Copies(h)') <= (MaxCrashes - budget.crashes) + 1 BY <1>9, <2>1, <2>3, <2>4
  <2>6. ASSUME NEW e \in issued'
        PROVE  Cardinality(Copies(e)') <=
                 (MaxCrashes - budget'.crashes) + (IF Owed(e)' THEN 0 ELSE 1)
    <3>1. CASE e = h BY <1>3, <1>8, <2>5, <3>1
    <3>2. CASE e # h
      <4>1. Copies(e)' = Copies(e) /\ Owed(e)' = Owed(e) /\ e \in issued BY <1>3, <1>8, <1>9, <3>2
      <4>2. QED BY <1>3, <2>2, <4>1
    <3>3. QED BY <3>1, <3>2
  <2>7. QED BY <2>6 DEF LettersFit
<1>11. QED BY <1>6, <1>7, <1>10

\* What the new file leaves out was delivered, or is among the dead letters.
LEMMA ReplaceStep ==
  ASSUME Inv, NEW w \in Workers, Replace(w) PROVE FilesFit' /\ NothingLost' /\ LettersFit'
<1>1. PICK k : k = worker[w] OBVIOUS
<1>2. /\ k \in Works /\ Appending(k) /\ lock = w /\ lock # NoOne /\ k.letters = <<>>
      /\ queue' = k.rest /\ lock' = NoOne /\ UNCHANGED <<dead, holds, issued, budget>>
  BY <1>1, AppendIs, BoundsAssumption DEF Replace
<1>3. k.rest \in Seq(Entries) /\ IsInjective(k.rest) /\ Range(k.rest) \subseteq Range(queue)
  BY <1>2 DEF Works, Appending
<1>4. FilesFit' BY <1>2, <1>3 DEF Inv, FilesFit
<1>5. NothingLost'
  <2>1. Range(k.letters) = {} BY <1>2 DEF Range
  <2>2. \A e \in Range(queue) : e \in Range(k.rest) \/ Held(e) \/ e \in Range(dead)
    BY <1>2, <2>1 DEF Appending
  <2>3. QED BY <1>2, <2>2 DEF Inv, NothingLost, Held
<1>6. \A e : Owed(e)' => Owed(e) BY <1>1, <1>2 DEF Owed
<1>7. LettersFit' BY <1>2, <1>6, LettersStay
<1>8. QED BY <1>4, <1>5, <1>7

\* A crash may cost a letter a second copy, and is counted.
LEMMA CrashStep ==
  ASSUME Inv, NEW w \in Workers, Crash(w)
  PROVE  /\ FilesFit' /\ NothingLost' /\ LettersFit'
         /\ budget' \in [crashes : 0 .. MaxCrashes, failures : Nat, commands : Nat]
<1>1. UNCHANGED <<queue, dead, holds, issued>> BY DEF Crash
<1>2. FilesFit' BY <1>1 DEF Inv, FilesFit
<1>3. NothingLost' BY <1>1 DEF Inv, NothingLost
<1>4. MaxCrashes \in Nat /\ budget \in [crashes : 0 .. MaxCrashes, failures : Nat, commands : Nat]
      /\ budget.crashes \in 0 .. MaxCrashes
  BY BoundsAssumption DEF Inv, WorldFit
<1>5. PICK n \in 0 .. MaxCrashes : n = budget.crashes - 1 BY <1>4 DEF Crash
<1>6. budget' = [budget EXCEPT !.crashes = n] BY <1>5 DEF Crash
<1>7. budget' \in [crashes : 0 .. MaxCrashes, failures : Nat, commands : Nat]
      /\ budget'.crashes = n
  BY <1>4, <1>6
<1>8. ASSUME NEW e \in issued
      PROVE  Cardinality(Copies(e)') <=
               (MaxCrashes - budget'.crashes) + (IF Owed(e)' THEN 0 ELSE 1)
  <2>1. Copies(e)' = Copies(e) BY <1>1 DEF Copies
  <2>2. Cardinality(Copies(e)) \in Nat BY CopiesFinite DEF Inv
  <2>3. Cardinality(Copies(e)) <= (MaxCrashes - budget.crashes) + (IF Owed(e) THEN 0 ELSE 1)
    BY DEF Inv, LettersFit
  <2>4. Cardinality(Copies(e)) <= (MaxCrashes - budget.crashes) + 1
    BY <1>4, <2>2, <2>3
  <2>5. Cardinality(Copies(e)) <= MaxCrashes - n BY <1>4, <1>5, <2>2, <2>4
  <2>6. QED BY <1>4, <1>7, <2>1, <2>2, <2>5
<1>9. LettersFit' BY <1>1, <1>8 DEF LettersFit
<1>10. QED BY <1>2, <1>3, <1>7, <1>9

\* What is left of the budget.
LEMMA Spent ==
  ASSUME WorldFit
  PROVE  /\ budget.commands > 0 =>
              LET b == [budget EXCEPT !.commands = @ - 1] IN
              /\ b \in [crashes : 0 .. MaxCrashes, failures : Nat, commands : Nat]
              /\ b.crashes = budget.crashes
         /\ budget.failures > 0 =>
              LET b == [budget EXCEPT !.failures = @ - 1] IN
              /\ b \in [crashes : 0 .. MaxCrashes, failures : Nat, commands : Nat]
              /\ b.crashes = budget.crashes
BY DEF WorldFit

\* Mirrors that fail or come back change no file and no worker.
LEMMA HealthStep ==
  ASSUME Inv, NEW m \in Mirrors, NEW h \in {"up"} \cup Failures(m), HealthChanges(m, h)
  PROVE  Inv'
<1>1. UNCHANGED <<queue, dead, lock, worker, chain, holds, issued>> BY DEF HealthChanges
<1>2. h \in Health BY BoundsAssumption DEF Health
<1>3. budget' \in [crashes : 0 .. MaxCrashes, failures : Nat, commands : Nat]
      /\ budget'.crashes = budget.crashes
  <2>1. CASE h = "up" BY <2>1 DEF HealthChanges, Inv, WorldFit
  <2>2. CASE h # "up" BY <2>2, Spent DEF HealthChanges, Inv
  <2>3. QED BY <2>1, <2>2
<1>4. health' \in [Mirrors -> Health] BY <1>2 DEF HealthChanges, Inv, WorldFit
<1>5. WorldFit' BY <1>1, <1>3, <1>4 DEF Inv, WorldFit
<1>6. ChainFit' BY <1>1 DEF Inv, ChainFit
<1>7. WorkerFit'
  <2>1. \A v \in Workers : Fit(v) = Fit(v)'
    BY <1>1 DEF Fit, Mirrorings, Replaying, Appending, Held
  <2>2. QED BY <1>1, <2>1 DEF Inv, WorkerFit
<1>8. FilesFit' BY <1>1 DEF Inv, FilesFit
<1>9. NothingLost' BY <1>1 DEF Inv, NothingLost
<1>10. ClaimFit' BY <1>1 DEF Inv, ClaimFit, Entry
<1>11. LettersFit'
  <2>1. \A e : Owed(e)' = Owed(e) BY <1>1 DEF Owed
  <2>2. QED BY <1>1, <1>3, <2>1, LettersStay
<1>12. QED BY <1>5, <1>6, <1>7, <1>8, <1>9, <1>10, <1>11 DEF Inv

-----------------------------------------------------------------------------
\* Empty files, idle workers.
LEMMA InitInv == ASSUME Init PROVE Inv
<1>1. /\ queue = <<>> /\ dead = <<>> /\ lock = NoOne /\ issued = {}
      /\ worker = [w \in Workers |-> Nothing]
  BY DEF Init
<1>2. WorldFit
  <2>1. MaxCrashes \in Nat /\ MaxFailures \in Nat /\ MaxCommands \in Nat BY BoundsAssumption
  <2>2. budget \in [crashes : 0 .. MaxCrashes, failures : Nat, commands : Nat]
    BY <2>1 DEF Init
  <2>3. holds \in [Mirrors -> SUBSET Requests] /\ health \in [Mirrors -> Health]
    BY DEF Init, Health
  <2>4. QED BY <1>1, <2>2, <2>3 DEF WorldFit
<1>3. ChainFit
  <2>1. MaxGen \in Nat /\ MaxVersion \in Nat /\ MaxAttempts \in Nat BY BoundsAssumption
  <2>2. chain = [gen |-> 1, ver |-> 0, verified |-> FALSE, attempts |-> 0] BY DEF Init
  <2>3. QED BY <2>1, <2>2 DEF ChainFit
<1>4. WorkerFit
  <2>1. \A v \in Workers : lock # v BY <1>1, BoundsAssumption
  <2>2. \A v \in Workers : worker[v].pc = "idle" BY <1>1, NothingIsWork
  <2>3. \A v \in Workers : Fit(v) BY <2>1, <2>2 DEF Fit
  <2>4. QED BY <1>1, <2>3, NothingIsWork DEF WorkerFit
<1>5. FilesFit
  <2>1. queue \in Seq(Entries) /\ dead \in Seq(Entries) BY <1>1
  <2>2. Range(<<>>) = {} /\ IsInjective(<<>>) BY DEF Range, IsInjective
  <2>3. QED BY <1>1, <2>1, <2>2, FS_EmptySet DEF FilesFit
<1>6. NothingLost BY <1>1 DEF NothingLost
<1>7. ClaimFit BY <1>1, NothingIsWork DEF ClaimFit
<1>8. LettersFit BY <1>1 DEF LettersFit
<1>9. QED BY <1>2, <1>3, <1>4, <1>5, <1>6, <1>7, <1>8 DEF Inv

\* A step of a worker that leaves the files alone keeps everything.
LEMMA QuietStep ==
  ASSUME Inv, NEW w \in Workers, Moves(w), lock # w, UNCHANGED <<queue, dead, lock, issued, health>>,
         ClaimFit', ChainFit', holds' \in [Mirrors -> SUBSET Requests],
         budget' \in [crashes : 0 .. MaxCrashes, failures : Nat, commands : Nat],
         budget'.crashes = budget.crashes
  PROVE  Inv'
<1>1. WorldFit' BY DEF Inv, WorldFit
<1>2. WorkerFit' BY MovesFit
<1>3. FilesFit' /\ NothingLost' /\ LettersFit' BY FilesStay
<1>4. QED BY <1>1, <1>2, <1>3 DEF Inv

\* The checkpoint manager and its mirrors.
LEMMA ManageStep == ASSUME Inv, Manage PROVE Inv'
<1>1. Supervisor \in Workers BY DEF Workers
<1>2. holds \in [Mirrors -> SUBSET Requests]
      /\ budget \in [crashes : 0 .. MaxCrashes, failures : Nat, commands : Nat]
  BY DEF Inv, WorldFit
<1>3. \A p \in {"idle", "mirror"} : worker[Supervisor].pc = p => lock # Supervisor
  BY <1>1 DEF Inv, WorkerFit, Fit
<1>4. CASE Checkpoint
  <2>1. Moves(Supervisor) /\ ChainFit' /\ ClaimFit' BY <1>1, <1>4, CheckpointMoves, ClaimKept
  <2>2. worker[Supervisor].pc = "idle"
        /\ UNCHANGED <<queue, dead, lock, holds, health, issued, budget>>
    BY <1>4 DEF Checkpoint
  <2>3. QED BY <1>1, <1>2, <1>3, <2>1, <2>2, QuietStep
<1>5. CASE Acknowledge
  <2>1. Moves(Supervisor) /\ ChainFit' /\ ClaimFit' BY <1>1, <1>5, AcknowledgeMoves, ClaimKept
  <2>2. worker[Supervisor].pc = "idle"
        /\ UNCHANGED <<queue, dead, lock, holds, health, issued, budget>>
    BY <1>5 DEF Acknowledge
  <2>3. QED BY <1>1, <1>2, <1>3, <2>1, <2>2, QuietStep
<1>6. CASE MirrorNow
  <2>1. Moves(Supervisor) /\ ChainFit' /\ ClaimFit' /\ holds' \in [Mirrors -> SUBSET Requests]
    BY <1>1, <1>6, MirrorNowMoves, ClaimKept
  <2>2. worker[Supervisor].pc = "mirror"
        /\ UNCHANGED <<queue, dead, lock, health, issued, budget>>
    BY <1>6 DEF MirrorNow
  <2>3. QED BY <1>1, <1>2, <1>3, <2>1, <2>2, QuietStep
<1>7. CASE Enqueue
  <2>1. Moves(Supervisor) /\ ChainFit' /\ ClaimFit' BY <1>1, <1>7, EnqueueMoves, ClaimKept
  <2>2. WorkerFit' BY <1>1, <2>1, MovesFit
  <2>3. FilesFit' /\ NothingLost' /\ LettersFit' BY <1>7, EnqueueStep
  <2>4. WorldFit' BY <1>7 DEF Enqueue, Inv, WorldFit
  <2>5. QED BY <2>1, <2>2, <2>3, <2>4 DEF Inv
<1>8. QED BY <1>4, <1>5, <1>6, <1>7 DEF Manage

\* A replay, whoever runs it, and its death.
LEMMA ReplayStep ==
  ASSUME Inv, NEW w \in Workers, ReadBatch(w) \/ Replay(w) \/ Crash(w) PROVE Inv'
<1>1. /\ holds \in [Mirrors -> SUBSET Requests] /\ health \in [Mirrors -> Health]
      /\ budget \in [crashes : 0 .. MaxCrashes, failures : Nat, commands : Nat]
      /\ lock \in Workers \cup {NoOne} /\ ChainFit
  BY DEF Inv, WorldFit
<1>2. worker[w].pc # "append" => lock # w BY DEF Inv, WorkerFit, Fit
<1>3. UNCHANGED chain => ChainFit' BY <1>1 DEF ChainFit
<1>4. CASE ReadBatch(w)
  <2>1. Moves(w) /\ ClaimFit' BY <1>4, ReadBatchMoves, ClaimKept
  <2>2. worker[w].pc = "idle" /\ UNCHANGED <<queue, dead, lock, chain, holds, health, issued>>
    BY <1>4 DEF ReadBatch
  <2>3. /\ budget' \in [crashes : 0 .. MaxCrashes, failures : Nat, commands : Nat]
        /\ budget'.crashes = budget.crashes
    <3>1. CASE w = Operator BY <1>4, <3>1, Spent DEF ReadBatch, Inv
    <3>2. CASE w # Operator BY <1>1, <1>4, <3>2 DEF ReadBatch
    <3>3. QED BY <3>1, <3>2
  <2>4. QED BY <1>1, <1>2, <1>3, <2>1, <2>2, <2>3, QuietStep
<1>5. CASE Skip(w)
  <2>1. Moves(w) /\ ClaimFit' BY <1>5, SkipMoves, ClaimKept
  <2>2. worker[w].pc = "replay"
        /\ UNCHANGED <<queue, dead, lock, chain, holds, health, issued, budget>>
    BY <1>5 DEF Skip, AtEntry
  <2>3. QED BY <1>1, <1>2, <1>3, <2>1, <2>2, QuietStep
<1>6. CASE Claim(w)
  <2>1. Moves(w) /\ ClaimFit' BY <1>6, ClaimMoves, ClaimedApart
  <2>2. worker[w].pc = "replay"
        /\ UNCHANGED <<queue, dead, lock, chain, holds, health, issued, budget>>
    BY <1>6 DEF Claim, AtEntry
  <2>3. QED BY <1>1, <1>2, <1>3, <2>1, <2>2, QuietStep
<1>7. CASE Execute(w)
  <2>1. Moves(w) /\ ClaimFit' /\ holds' \in [Mirrors -> SUBSET Requests]
    BY <1>7, ExecuteMoves, ClaimKept
  <2>2. worker[w].pc = "execute"
        /\ UNCHANGED <<queue, dead, lock, chain, health, issued, budget>>
    BY <1>7 DEF Execute
  <2>3. QED BY <1>1, <1>2, <1>3, <2>1, <2>2, QuietStep
<1>8. CASE Reconcile(w)
  <2>1. Moves(w) /\ ClaimFit' BY <1>8, ReconcileMoves, ClaimKept
  <2>2. FilesFit' /\ NothingLost' /\ LettersFit' BY <1>8, ReconcileStep
  <2>3. UNCHANGED <<chain, holds, health, budget>> /\ lock' \in Workers \cup {NoOne}
    BY <1>1, <1>8 DEF Reconcile
  <2>4. WorldFit' BY <1>1, <2>3 DEF WorldFit
  <2>5. QED BY <1>3, <2>1, <2>2, <2>3, <2>4, MovesFit DEF Inv
<1>9. CASE AppendLetter(w)
  <2>1. Moves(w) /\ ClaimFit' BY <1>9, AppendLetterMoves, ClaimKept
  <2>2. FilesFit' /\ NothingLost' /\ LettersFit' BY <1>9, AppendLetterStep
  <2>3. UNCHANGED <<lock, chain, holds, health, budget>> BY <1>9 DEF AppendLetter
  <2>4. WorldFit' BY <1>1, <2>3 DEF WorldFit
  <2>5. QED BY <1>3, <2>1, <2>2, <2>3, <2>4, MovesFit DEF Inv
<1>10. CASE Replace(w)
  <2>1. Moves(w) /\ ClaimFit' BY <1>10, ReplaceMoves, ClaimKept
  <2>2. FilesFit' /\ NothingLost' /\ LettersFit' BY <1>10, ReplaceStep
  <2>3. UNCHANGED <<chain, holds, health, budget>> /\ lock' = NoOne BY <1>10 DEF Replace
  <2>4. WorldFit' BY <1>1, <2>3 DEF WorldFit
  <2>5. QED BY <1>3, <2>1, <2>2, <2>3, <2>4, MovesFit DEF Inv
<1>11. CASE Crash(w)
  <2>1. Moves(w) /\ ClaimFit' /\ lock' \in Workers \cup {NoOne}
    BY <1>1, <1>11, CrashMoves, ClaimKept
  <2>2. FilesFit' /\ NothingLost' /\ LettersFit'
        /\ budget' \in [crashes : 0 .. MaxCrashes, failures : Nat, commands : Nat]
    BY <1>11, CrashStep
  <2>3. UNCHANGED <<chain, holds, health>> BY <1>11 DEF Crash
  <2>4. WorldFit' BY <1>1, <2>1, <2>2, <2>3 DEF WorldFit
  <2>5. QED BY <1>3, <2>1, <2>2, <2>3, <2>4, MovesFit DEF Inv
<1>12. QED BY <1>4, <1>5, <1>6, <1>7, <1>8, <1>9, <1>10, <1>11 DEF Replay

\* Inv is inductive.
LEMMA StepInv == ASSUME Inv, [Next]_vars PROVE Inv'
<1>1. CASE Manage BY <1>1, ManageStep
<1>2. ASSUME NEW w \in Workers, ReadBatch(w) \/ Replay(w) \/ Crash(w) PROVE Inv'
  BY <1>2, ReplayStep
<1>3. ASSUME NEW m \in Mirrors, NEW h \in {"up"} \cup Failures(m), HealthChanges(m, h)
      PROVE  Inv'
  BY <1>3, HealthStep
<1>4. CASE UNCHANGED vars
  <2>1. UNCHANGED <<queue, dead, lock, worker, chain, holds, health, issued, budget>>
    BY <1>4 DEF vars
  <2>2. WorldFit' /\ ChainFit' /\ FilesFit' /\ NothingLost'
    BY <2>1 DEF Inv, WorldFit, ChainFit, FilesFit, NothingLost
  <2>3. WorkerFit'
    <3>1. \A v \in Workers : Fit(v) = Fit(v)'
      BY <2>1 DEF Fit, Mirrorings, Replaying, Appending, Held
    <3>2. QED BY <2>1, <3>1 DEF Inv, WorkerFit
  <2>4. ClaimFit' BY <2>1 DEF Inv, ClaimFit, Entry
  <2>5. \A e : Owed(e)' = Owed(e) BY <2>1 DEF Owed
  <2>6. LettersFit' BY <2>1, <2>5, LettersStay
  <2>7. QED BY <2>2, <2>3, <2>4, <2>6 DEF Inv
<1>5. QED BY <1>1, <1>2, <1>3, <1>4 DEF Next

\* So it holds of every reachable state.
LEMMA AlwaysInv == Spec => []Inv
<1>1. Init => Inv BY InitInv
<1>2. Inv /\ [Next]_vars => Inv' BY StepInv
<1>3. QED BY <1>1, <1>2, PTL DEF Spec

-----------------------------------------------------------------------------
\* The files hold entries, a worker its batch and its outcomes, the mirrors the
\* requests they were asked; who appends dead letters holds the lock of the file.
THEOREM TypeCorrect == Spec => []TypeOK
<1>1. Inv => TypeOK
  BY DEF Inv, WorldFit, ChainFit, WorkerFit, FilesFit, Fit, Works, TypeOK
<1>2. QED BY <1>1, AlwaysInv, PTL

\* No entry that was ever queued is lost, whatever crashes, and whatever is queued
\* between the reading of a batch and the replacement of the file (outbox.py, replay).
THEOREM NothingIsLost == Spec => []NothingLost
<1>1. Inv => NothingLost BY DEF Inv
<1>2. QED BY <1>1, AlwaysInv, PTL

\* No entry is executed by two replays at a time, however entries hash to claims
\* (outbox.py, _entry_lock_path).
THEOREM OneClaim == Spec => []ClaimedOnce
<1>1. Inv => ClaimedOnce BY DEF Inv, ClaimFit, ClaimedOnce
<1>2. QED BY <1>1, AlwaysInv, PTL

\* An entry has one dead letter, and one more for each crash at most (outbox.py, the
\* dead letters of replay).
THEOREM OneLetter == Spec => []DeadLetteredOnce
<1>1. Inv => DeadLetteredOnce
  <2>1. HAVE Inv
  <2>2. budget.crashes \in 0 .. MaxCrashes /\ MaxCrashes \in Nat
    BY <2>1, BoundsAssumption DEF Inv, WorldFit
  <2>3. ASSUME NEW e \in issued
        PROVE  Cardinality({i \in DOMAIN dead : dead[i] = e}) <= 1 + MaxCrashes - budget.crashes
    <3>1. Cardinality(Copies(e)) \in Nat BY <2>1, CopiesFinite DEF Inv
    <3>2. Cardinality(Copies(e)) <= (MaxCrashes - budget.crashes) + (IF Owed(e) THEN 0 ELSE 1)
      BY <2>1 DEF Inv, LettersFit
    <3>3. Cardinality(Copies(e)) <= 1 + MaxCrashes - budget.crashes BY <2>2, <3>1, <3>2
    <3>4. QED BY <3>3 DEF Copies
  <2>4. QED BY <2>3 DEF DeadLetteredOnce
<1>2. QED BY <1>1, AlwaysInv, PTL

-----------------------------------------------------------------------------
(* The outbox implements the mailbox                                         *)

\* What mirrors learn delivers letters.
LEMMA DeliverStep ==
  ASSUME Inv, UNCHANGED <<queue, dead, issued>>, \A m \in Mirrors : holds[m] \subseteq holds'[m]
  PROVE  Promise!Next
<1>1. \A e \in issued : e.mirror \in Mirrors
  <2>1. issued \subseteq Entries BY DEF Inv, FilesFit
  <2>2. QED BY <2>1 DEF Entries
<1>2. Promise!Deliver BY <1>1 DEF Promise!Deliver
<1>3. QED BY <1>2 DEF Promise!Next

\* The promise: an entry that is queued is a letter accepted.
LEMMA AcceptStep == ASSUME Inv, Enqueue PROVE Promise!Next
<1>1. PICK e : e = EnqueuedNow OBVIOUS
<1>2. UNCHANGED <<dead, holds>> BY DEF Enqueue
<1>3. e \in Entries /\ e \notin issued BY <1>1, EnqueueFiles
<1>4. CASE UNCHANGED <<queue, issued>> BY <1>2, <1>4, DeliverStep
<1>5. CASE queue' = Append(queue, e) /\ issued' = issued \cup {e}
  <2>1. Range(queue') = Range(queue) \cup {e} BY <1>3, <1>5, OneMore DEF Inv, FilesFit
  <2>2. e \notin Range(dead) BY <1>3 DEF Inv, FilesFit
  <2>3. Promise!Accept(e) BY <1>2, <1>3, <1>5, <2>1, <2>2 DEF Promise!Accept
  <2>4. QED BY <1>3, <2>3 DEF Promise!Next
<1>6. QED BY <1>1, <1>4, <1>5, EnqueueFiles

\* A letter appended to the dead letters is refused.
LEMMA RefuseStep == ASSUME Inv, NEW w \in Workers, AppendLetter(w) PROVE Promise!Next
<1>1. PICK h : h = Head(worker[w].letters) OBVIOUS
<1>2. worker[w] \in Works /\ Appending(worker[w]) /\ UNCHANGED <<queue, holds, issued>>
      /\ worker[w].letters # <<>>
  BY AppendIs DEF AppendLetter
<1>3. h \in Range(worker[w].letters) /\ Range(worker[w].letters) \subseteq Range(queue)
  BY <1>1, <1>2, TailFits DEF Works, Appending
<1>4. Range(dead') = Range(dead) \cup {h} BY <1>1, AppendLetterMoves
<1>5. h \in issued /\ h \in Entries BY <1>3 DEF Inv, FilesFit
<1>6. Promise!Refuse(h) BY <1>2, <1>3, <1>4, <1>5 DEF Promise!Refuse
<1>7. QED BY <1>5, <1>6 DEF Promise!Next

\* A file that is replaced leaves out only what was delivered or refused.
LEMMA SettleStep == ASSUME Inv, NEW w \in Workers, Replace(w) PROVE Promise!Next
<1>1. PICK k : k = worker[w] OBVIOUS
<1>2. /\ Appending(k) /\ k.letters = <<>> /\ queue' = k.rest
      /\ UNCHANGED <<dead, holds, issued>>
  BY <1>1, AppendIs DEF Replace
<1>3. Range(k.letters) = {} BY <1>2 DEF Range
<1>4. \A e \in Range(queue) : e \in Range(k.rest) \/ Held(e) \/ e \in Range(dead)
  BY <1>2, <1>3 DEF Appending
<1>5. Range(queue') \subseteq Range(queue) /\ Range(queue) \subseteq issued
  BY <1>2 DEF Appending, Inv, FilesFit
<1>6. Promise!Settle BY <1>2, <1>4, <1>5 DEF Promise!Settle, Held
<1>7. QED BY <1>6 DEF Promise!Next

\* Every step of the outbox is one of the mailbox, or none.
LEMMA StepOfMailbox == ASSUME Inv, [Next]_vars PROVE [Promise!Next]_(Promise!vars)
<1>1. \A w \in Workers : Moves(w) => \A m \in Mirrors : holds[m] \subseteq holds'[m]
  BY DEF Moves, Apart
<1>2. CASE Manage
  <2>1. Supervisor \in Workers BY DEF Workers
  <2>2. CASE Enqueue BY <2>2, AcceptStep
  <2>3. CASE Checkpoint \/ Acknowledge \/ MirrorNow
    <3>1. Moves(Supervisor) BY <2>3, CheckpointMoves, AcknowledgeMoves, MirrorNowMoves
    <3>2. UNCHANGED <<queue, dead, issued>> BY <2>3 DEF Checkpoint, Acknowledge, MirrorNow
    <3>3. QED BY <1>1, <2>1, <3>1, <3>2, DeliverStep
  <2>4. QED BY <1>2, <2>2, <2>3 DEF Manage
<1>3. ASSUME NEW w \in Workers, ReadBatch(w) \/ Replay(w) \/ Crash(w) PROVE Promise!Next
  <2>1. CASE AppendLetter(w) BY <2>1, RefuseStep
  <2>2. CASE Replace(w) BY <2>2, SettleStep
  <2>3. CASE \/ ReadBatch(w) \/ Skip(w) \/ Claim(w) \/ Execute(w) \/ Reconcile(w) \/ Crash(w)
    <3>1. Moves(w)
      BY <2>3, ReadBatchMoves, SkipMoves, ClaimMoves, ExecuteMoves, ReconcileMoves, CrashMoves
    <3>2. UNCHANGED <<queue, dead, issued>>
      BY <2>3 DEF ReadBatch, Skip, Claim, Execute, Reconcile, Crash
    <3>3. QED BY <1>1, <3>1, <3>2, DeliverStep
  <2>4. QED BY <1>3, <2>1, <2>2, <2>3 DEF Replay
<1>4. ASSUME NEW m \in Mirrors, NEW h \in {"up"} \cup Failures(m), HealthChanges(m, h)
      PROVE  Promise!Next
  <2>1. UNCHANGED <<queue, dead, issued, holds>> BY <1>4 DEF HealthChanges
  <2>2. QED BY <2>1, DeliverStep
<1>5. CASE UNCHANGED vars
  <2>1. UNCHANGED <<queue, dead, issued, holds>> BY <1>5 DEF vars
  <2>2. QED BY <2>1, DeliverStep
<1>6. QED BY <1>2, <1>3, <1>4, <1>5 DEF Next

\* The outbox is a queue that settles what it accepted: an entry waits until its
\* mirror holds it or it is a dead letter, and one that was settled waits no more.
THEOREM MailboxIsKept == Spec => ImplementsMailbox
<1>1. Init => Promise!Init
  BY DEF Init, Promise!Init, Range
<1>2. Inv /\ [Next]_vars => [Promise!Next]_(Promise!vars) BY StepOfMailbox
<1>3. QED BY <1>1, <1>2, AlwaysInv, PTL DEF Spec, ImplementsMailbox, Promise!Spec
=============================================================================
