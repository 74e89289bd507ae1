-------------------------- MODULE BakeSpoolProofs ---------------------------
(***************************************************************************)
(* Evidence is kept, for any number of drains, contents and reports and    *)
(* whatever the capacity of the spool.                                     *)
(***************************************************************************)
EXTENDS BakeSpool, WellFoundedInduction, SequenceTheorems, TLAPS

-----------------------------------------------------------------------------
(* The inductive invariant                                                   *)

Counted ==
  /\ posted \in [Contents -> Nat]
  /\ recorded \in [contents : SUBSET Contents, reports : Nat]

SpoolFit ==
  /\ spool \in Seq(Records) /\ Len(spool) <= MaxRecords
  /\ \A i \in DOMAIN spool : spool[i].id \in 1 .. recorded.reports
  /\ \A i, j \in DOMAIN spool : spool[i].id = spool[j].id => i = j

\* What a drain holds is a record that was spooled, and what it acknowledges has
\* been seen among the comments; the record may have left the spool, but no
\* other takes its identifier.
Steps == {"idle", "pick", "look", "create", "verify", "acknowledge"}
Holds(k) ==
  /\ k.pc \in Steps
  /\ k.pc \in {"look", "create", "verify", "acknowledge"} =>
       /\ k.record.id \in 1 .. recorded.reports /\ k.record.content \in Contents
       /\ \A i \in DOMAIN spool :
            spool[i].id = k.record.id => spool[i].content = k.record.content
  /\ k.pc = "acknowledge" => posted[k.record.content] > 0
SinksFit == sink = [c \in Sinks |-> sink[c]] /\ \A c \in Sinks : Holds(sink[c])

Inv == Counted /\ SpoolFit /\ SinksFit /\ EvidenceKept

-----------------------------------------------------------------------------
(* Facts about the spool                                                     *)

\* A non-empty set of places has a first.
LEMMA FirstPlace ==
  ASSUME NEW S, S \subseteq Nat, S # {} PROVE \E i \in S : \A j \in S : i <= j
<1>1. IsWellFoundedOn(OpToRel(<, Nat), Nat) BY NatLessThanWellFounded
<1>2. PICK x \in S : \A y \in S : ~ (<<y, x>> \in OpToRel(<, Nat)) BY <1>1, WFMin
<1>3. \A y \in S : ~ (y < x) BY <1>2 DEF OpToRel
<1>4. QED BY <1>3

\* What is left when one record is removed.
LEMMA RemoveOne ==
  ASSUME NEW s \in Seq(Records), NEW i \in DOMAIN s
  PROVE  /\ RemoveAt(s, i) \in Seq(Records) /\ Len(RemoveAt(s, i)) = Len(s) - 1
         /\ \A j \in 1 .. Len(s) - 1 : RemoveAt(s, i)[j] = IF j < i THEN s[j] ELSE s[j + 1]
<1> DEFINE a == SubSeq(s, 1, i - 1)
           b == SubSeq(s, i + 1, Len(s))
<1>1. a \in Seq(Records) /\ b \in Seq(Records)
  OBVIOUS
<1>2. Len(a) = i - 1 /\ Len(b) = Len(s) - i
  OBVIOUS
<1>3. /\ \A j \in 1 .. i - 1 : a[j] = s[j]
      /\ \A j \in 1 .. Len(s) - i : b[j] = s[i + j]
  OBVIOUS
<1>4. /\ a \o b \in Seq(Records) /\ Len(a \o b) = Len(a) + Len(b)
      /\ \A j \in 1 .. Len(a) + Len(b) : (a \o b)[j] = IF j <= Len(a) THEN a[j] ELSE b[j - Len(a)]
  BY <1>1, ConcatProperties
<1>5. RemoveAt(s, i) = a \o b BY DEF RemoveAt
<1> DEFINE c == a \o b
<1>6. i \in 1 .. Len(s) /\ Len(s) \in Nat OBVIOUS
<1> HIDE DEF a, b, c
<1>7. QED
  <2>1. Len(c) = Len(s) - 1 /\ Len(a) + Len(b) = Len(s) - 1 BY <1>2, <1>4, <1>6 DEF c
  <2>2. \A j \in 1 .. Len(s) - 1 : c[j] = IF j <= i - 1 THEN a[j] ELSE b[j - (i - 1)]
    BY <1>2, <1>4, <2>1 DEF c
  <2>3. ASSUME NEW j \in 1 .. Len(s) - 1
        PROVE  c[j] = IF j < i THEN s[j] ELSE s[j + 1]
    <3>1. CASE j < i
      <4>1. j \in 1 .. i - 1 /\ j <= i - 1 BY <1>6, <3>1
      <4>2. QED BY <1>3, <2>2, <3>1, <4>1
    <3>2. CASE j >= i
      <4>1. j - (i - 1) \in 1 .. Len(s) - i /\ i + (j - (i - 1)) = j + 1 /\ ~ (j <= i - 1)
        BY <1>6, <3>2
      <4>2. QED BY <1>3, <2>2, <3>2, <4>1
    <3>3. QED BY <1>6, <3>1, <3>2
  <2>4. QED BY <1>4, <1>5, <2>1, <2>3 DEF c

\* Making room keeps every pending record, and every record is one of before.
LEMMA RoomIsMade ==
  ASSUME NEW s \in Seq(Records)
  PROVE  /\ Evicted(s) \in Seq(Records) /\ Len(Evicted(s)) <= Len(s)
         /\ \A j \in DOMAIN Evicted(s) : \E i \in DOMAIN s : Evicted(s)[j] = s[i]
         /\ \A i \in DOMAIN s : Pending(s[i]) => \E j \in DOMAIN Evicted(s) : Evicted(s)[j] = s[i]
         /\ (\A i, j \in DOMAIN s : s[i].id = s[j].id => i = j) =>
              \A i, j \in DOMAIN Evicted(s) : Evicted(s)[i].id = Evicted(s)[j].id => i = j
<1> DEFINE delivered == {i \in DOMAIN s : ~Pending(s[i])}
<1>1. CASE Len(s) < MaxRecords \/ delivered = {}
  <2>1. Evicted(s) = s BY <1>1 DEF Evicted
  <2>2. QED BY <2>1
<1>2. CASE ~(Len(s) < MaxRecords \/ delivered = {})
  <2>1. PICK d \in delivered : Evicted(s) = RemoveAt(s, d)
    <3>1. delivered \subseteq Nat OBVIOUS
    <3>2. \E i \in delivered : \A j \in delivered : i <= j BY <1>2, <3>1, FirstPlace
    <3>3. QED BY <1>2, <3>2 DEF Evicted
  <2>2. d \in DOMAIN s /\ ~Pending(s[d]) BY <2>1
  <2>3. /\ Evicted(s) \in Seq(Records) /\ Len(Evicted(s)) = Len(s) - 1
        /\ \A j \in 1 .. Len(s) - 1 : Evicted(s)[j] = IF j < d THEN s[j] ELSE s[j + 1]
    BY <2>1, <2>2, RemoveOne
  <2>4. \A j \in DOMAIN Evicted(s) : \E i \in DOMAIN s : Evicted(s)[j] = s[i]
    BY <2>2, <2>3
  <2>5. ASSUME NEW i \in DOMAIN s, Pending(s[i])
        PROVE  \E j \in DOMAIN Evicted(s) : Evicted(s)[j] = s[i]
    <3>1. i # d BY <2>2, <2>5
    <3>2. CASE i < d BY <2>2, <2>3, <3>2
    <3>3. CASE i > d
      <4>1. i - 1 \in DOMAIN Evicted(s) /\ Evicted(s)[i - 1] = s[i] BY <2>2, <2>3, <3>3
      <4>2. QED BY <4>1
    <3>4. QED BY <2>2, <3>1, <3>2, <3>3
  <2>6. ASSUME \A i, j \in DOMAIN s : s[i].id = s[j].id => i = j,
               NEW i \in DOMAIN Evicted(s), NEW j \in DOMAIN Evicted(s),
               Evicted(s)[i].id = Evicted(s)[j].id
        PROVE  i = j
    <3> DEFINE was(n) == IF n < d THEN n ELSE n + 1
    <3>1. was(i) \in DOMAIN s /\ was(j) \in DOMAIN s /\ s[was(i)].id = s[was(j)].id
      BY <2>2, <2>3, <2>6
    <3>2. was(i) = was(j) BY <2>6, <3>1
    <3>3. QED BY <2>2, <2>3, <3>2
  <2>7. QED BY <2>3, <2>4, <2>5, <2>6
<1>3. QED BY <1>1, <1>2

-----------------------------------------------------------------------------
(* The steps                                                                 *)

\* Nothing is recorded, and no drain runs.
LEMMA InitInv == ASSUME SpoolBounds, Init PROVE Inv
<1> USE DEF Init, SpoolBounds
<1>1. Counted BY DEF Counted
<1>2. SpoolFit BY DEF SpoolFit
<1>3. SinksFit BY DEF SinksFit, Holds, Idle, Steps
<1>4. EvidenceKept BY DEF EvidenceKept
<1>5. QED BY <1>1, <1>2, <1>3, <1>4 DEF Inv

\* A report is counted with the last record, or takes the place that was made.
LEMMA ReportStep ==
  ASSUME SpoolBounds, Inv, NEW k \in Contents, Report(k) PROVE Inv'
<1>1. Counted' /\ recorded'.reports = recorded.reports + 1 /\ UNCHANGED posted
      /\ recorded'.contents = recorded.contents \cup {k} /\ UNCHANGED sink
  BY DEF Report, Inv, Counted
<1>2. ASSUME NEW S, S = spool', S \in Seq(Records), Len(S) <= MaxRecords,
             \A i \in DOMAIN S : S[i].id \in 1 .. recorded.reports + 1,
             \A i, j \in DOMAIN S : S[i].id = S[j].id => i = j,
             \A i \in DOMAIN S : S[i].id = recorded.reports + 1 \/
                \E j \in DOMAIN spool : S[i].id = spool[j].id /\ S[i].content = spool[j].content,
             \A i \in DOMAIN spool : Pending(spool[i]) =>
                \E j \in DOMAIN S : S[j].content = spool[i].content /\ Pending(S[j]),
             \E j \in DOMAIN S : S[j].content = k /\ Pending(S[j])
      PROVE  Inv'
  <2>1. SpoolFit' BY <1>1, <1>2 DEF SpoolFit
  <2>2. ASSUME NEW c \in Sinks PROVE Holds(sink[c])'
    BY <1>1, <1>2 DEF Inv, SinksFit, Holds, Counted, SpoolFit
  <2>3. SinksFit' BY <1>1, <2>2 DEF Inv, SinksFit
  <2>4. EvidenceKept' BY <1>1, <1>2 DEF Inv, EvidenceKept
  <2>5. QED BY <1>1, <2>1, <2>3, <2>4 DEF Inv
<1>3. /\ spool \in Seq(Records) /\ Len(spool) <= MaxRecords /\ recorded.reports \in Nat
      /\ \A i \in DOMAIN spool : spool[i].id \in 1 .. recorded.reports /\ spool[i] \in Records
      /\ \A i, j \in DOMAIN spool : spool[i].id = spool[j].id => i = j
  BY DEF Inv, SpoolFit, Counted
<1>4. CASE /\ Repeats(k)
           /\ spool' = [spool EXCEPT ![Len(spool)].repeats = @ + 1]
  <2> DEFINE n == Len(spool)
             more == [spool[n] EXCEPT !.repeats = @ + 1]
  <2>1. n \in DOMAIN spool /\ Pending(spool[n]) /\ spool[n].content = k
    BY <1>3, <1>4 DEF Repeats, Last
  <2>2. more \in Records /\ more.id = spool[n].id /\ more.content = spool[n].content
        /\ (Pending(spool[n]) <=> Pending(more))
    BY <1>3, <2>1 DEF Records, Pending
  <2>3. spool' = [spool EXCEPT ![n] = more] BY <1>4
  <2> HIDE DEF more
  <2>4. spool' \in Seq(Records) /\ Len(spool') = n
        /\ \A i \in DOMAIN spool : spool'[i] = IF i = n THEN more ELSE spool[i]
    BY <1>3, <2>1, <2>2, <2>3
  <2>5. DOMAIN spool' = DOMAIN spool BY <1>3, <2>4
  <2>6. \A i \in DOMAIN spool' :
          /\ spool'[i].id = spool[i].id /\ spool'[i].content = spool[i].content
          /\ Pending(spool[i]) <=> Pending(spool'[i])
    BY <2>2, <2>4, <2>5
  <2>7. QED BY <1>2, <1>3, <2>1, <2>4, <2>5, <2>6
<1>5. CASE /\ ~Repeats(k) /\ Len(Evicted(spool)) < MaxRecords
           /\ spool' = Append(Evicted(spool), [id |-> NewId, content |-> k,
                                               repeats |-> 1, delivery |-> "pending"])
  <2> DEFINE r == [id |-> NewId, content |-> k, repeats |-> 1, delivery |-> "pending"]
             e == Evicted(spool)
  <2>1. r \in Records /\ r.id = recorded.reports + 1 /\ r.content = k /\ Pending(r)
    BY <1>3 DEF Records, Deliveries, NewId, Pending
  <2>2. /\ e \in Seq(Records) /\ Len(e) < MaxRecords
        /\ \A j \in DOMAIN e : \E i \in DOMAIN spool : e[j] = spool[i]
        /\ \A i \in DOMAIN spool : Pending(spool[i]) => \E j \in DOMAIN e : e[j] = spool[i]
        /\ \A i, j \in DOMAIN e : e[i].id = e[j].id => i = j
    BY <1>3, <1>5, RoomIsMade
  <2>3. spool' = Append(e, r) BY <1>5
  <2> HIDE DEF r, e
  <2>4. /\ spool' \in Seq(Records) /\ Len(spool') = Len(e) + 1
        /\ \A j \in DOMAIN e : spool'[j] = e[j]
        /\ spool'[Len(e) + 1] = r
    BY <2>1, <2>2, <2>3
  <2>5. DOMAIN spool' = DOMAIN e \cup {Len(e) + 1} /\ Len(e) + 1 \notin DOMAIN e /\ Len(e) \in Nat
    BY <2>2, <2>4
  <2>6. Len(spool') <= MaxRecords BY <2>2, <2>4 DEF SpoolBounds
  <2>7. \A i \in DOMAIN spool' : spool'[i].id \in 1 .. recorded.reports + 1
    BY <1>3, <2>1, <2>2, <2>4, <2>5
  <2>8. \A i, j \in DOMAIN spool' : spool'[i].id = spool'[j].id => i = j
    BY <1>3, <2>1, <2>2, <2>4, <2>5
  <2>9. \A i \in DOMAIN spool : Pending(spool[i]) =>
          \E j \in DOMAIN spool' : spool'[j].content = spool[i].content /\ Pending(spool'[j])
    BY <2>2, <2>4, <2>5
  <2>10. \E j \in DOMAIN spool' : spool'[j].content = k /\ Pending(spool'[j])
    BY <2>1, <2>4, <2>5
  <2>11. \A i \in DOMAIN spool' : spool'[i].id = recorded.reports + 1 \/
           \E j \in DOMAIN spool : spool'[i].id = spool[j].id /\ spool'[i].content = spool[j].content
    BY <2>1, <2>2, <2>4, <2>5
  <2>12. QED BY <1>2, <2>4, <2>6, <2>7, <2>8, <2>9, <2>10, <2>11
<1>6. QED BY <1>4, <1>5 DEF Report

\* A step of one drain needs to be sound only for that one.
LEMMA OneGoes ==
  ASSUME Inv, NEW c \in Sinks, sink' = [sink EXCEPT ![c] = sink'[c]], Holds(sink[c])',
         Counted', SpoolFit', EvidenceKept', UNCHANGED recorded,
         \A x \in Contents : posted[x] > 0 => posted'[x] > 0,
         \A i \in DOMAIN spool' : \E j \in DOMAIN spool :
            spool'[i].id = spool[j].id /\ spool'[i].content = spool[j].content
  PROVE  Inv'
<1>1. ASSUME NEW d \in Sinks PROVE Holds(sink[d])'
  <2>1. CASE d = c BY <2>1
  <2>2. CASE d # c
    <3>1. sink'[d] = sink[d] /\ Holds(sink[d]) BY <2>2 DEF Inv, SinksFit
    <3>2. QED BY <3>1 DEF Holds
  <2>3. QED BY <2>1, <2>2
<1>2. SinksFit' BY <1>1 DEF Inv, SinksFit
<1>3. QED BY <1>2 DEF Inv

\* A drain looks for what is pending, and for its comment; or it fails.
LEMMA SilentStep ==
  ASSUME Inv, NEW c \in Sinks, Begin(c) \/ Pick(c) \/ Look(c) \/ Verify(c) \/ Fails(c)
  PROVE  Inv'
<1>1. UNCHANGED <<spool, posted, recorded>>
  BY DEF Begin, Pick, Look, Verify, Fails
<1>2. Counted' /\ SpoolFit' /\ EvidenceKept'
  BY <1>1 DEF Inv, Counted, SpoolFit, EvidenceKept
<1>3. \A pc, r : Goes(c, pc, r) =>
        /\ sink' = [sink EXCEPT ![c] = sink'[c]] /\ sink'[c].pc = pc
        /\ sink'[c].record.id = r.id /\ sink'[c].record.content = r.content
  BY DEF Goes, Inv, SinksFit
<1>4. Holds(sink[c]) BY DEF Inv, SinksFit
<1>5. SUFFICES sink' = [sink EXCEPT ![c] = sink'[c]] /\ Holds(sink'[c])
  <2>1. Holds(sink'[c]) => Holds(sink[c])' BY <1>1 DEF Holds
  <2>2. QED BY <1>1, <1>2, <2>1, OneGoes
<1>6. CASE Begin(c) BY <1>3, <1>6 DEF Begin, Holds, Steps
<1>7. CASE Pick(c)
  <2>1. CASE Goes(c, "idle", NoRecord) BY <1>3, <2>1 DEF Holds, Steps
  <2>2. CASE \E i \in DOMAIN spool : Goes(c, "look", spool[i])
    <3>1. PICK i \in DOMAIN spool : Goes(c, "look", spool[i]) BY <2>2
    <3>2. /\ spool[i] \in Records /\ spool[i].id \in 1 .. recorded.reports
          /\ \A x, y \in DOMAIN spool : spool[x].id = spool[y].id => x = y
      BY DEF Inv, SpoolFit
    <3>3. QED BY <1>3, <3>1, <3>2 DEF Holds, Steps, Records
  <2>3. QED BY <1>7, <2>1, <2>2 DEF Pick
<1>8. CASE Look(c)
  BY <1>3, <1>4, <1>8 DEF Look, Holds, Steps, Seen
<1>9. CASE Verify(c)
  BY <1>3, <1>4, <1>9 DEF Verify, Holds, Steps, Seen
<1>10. CASE Fails(c) BY <1>3, <1>10 DEF Fails, Holds, Steps
<1>11. QED BY <1>6, <1>7, <1>8, <1>9, <1>10

\* A comment is made, and none is taken away.
LEMMA CreateStep == ASSUME Inv, NEW c \in Sinks, Create(c) PROVE Inv'
<1> DEFINE k == sink[c].record
<1>1. Holds(sink[c]) BY DEF Inv, SinksFit
<1>2. k.content \in Contents /\ posted \in [Contents -> Nat]
  BY <1>1 DEF Create, Holds, Inv, Counted
<1>3. posted' = [posted EXCEPT ![k.content] = posted[k.content] + 1]
      /\ UNCHANGED <<spool, recorded>>
  BY DEF Create
<1>4. posted' \in [Contents -> Nat] /\ \A x \in Contents : posted[x] > 0 => posted'[x] > 0
  BY <1>2, <1>3
<1>5. Counted' /\ SpoolFit' BY <1>3, <1>4 DEF Inv, Counted, SpoolFit
<1>6. EvidenceKept' BY <1>3, <1>4 DEF Inv, EvidenceKept, Counted
<1>7. sink' = [sink EXCEPT ![c] = sink'[c]] /\ Holds(sink'[c])
  BY <1>1 DEF Create, Goes, Inv, SinksFit, Holds, Steps
<1>8. Holds(sink[c])' BY <1>3, <1>7, <1>1 DEF Holds, Create, Goes, Inv, SinksFit, Steps
<1>9. QED BY <1>3, <1>4, <1>5, <1>6, <1>7, <1>8, OneGoes

\* A record is acknowledged, or made old, only when its content is a comment.
LEMMA MarkedSpool ==
  ASSUME Inv, UNCHANGED <<posted, recorded>>, NEW S, S = spool', DOMAIN S = DOMAIN spool,
         S \in Seq(Records),
         \A i \in DOMAIN spool : S[i].id = spool[i].id /\ S[i].content = spool[i].content,
         \A i \in DOMAIN spool :
            Pending(spool[i]) => Pending(S[i]) \/ posted[spool[i].content] > 0
  PROVE  Counted' /\ SpoolFit' /\ EvidenceKept'
<1>1. Counted' BY DEF Inv, Counted
<1>2. SpoolFit'
  <2>1. Len(S) = Len(spool) BY DEF Inv, SpoolFit
  <2>2. QED BY <2>1 DEF Inv, SpoolFit
<1>3. EvidenceKept' BY DEF Inv, EvidenceKept
<1>4. QED BY <1>1, <1>2, <1>3

\* The content of what a drain acknowledges is a comment, under the same identifier.
LEMMA AcknowledgeStep == ASSUME Inv, NEW c \in Sinks, Acknowledge(c) PROVE Inv'
<1> DEFINE k == sink[c].record
           Marked(i) == IF spool[i].id = k.id THEN [spool[i] EXCEPT !.delivery = "recent"]
                        ELSE spool[i]
<1>1. Holds(sink[c]) BY DEF Inv, SinksFit
<1>2. posted[k.content] > 0 /\ \A i \in DOMAIN spool : spool[i].id = k.id => spool[i].content = k.content
  BY <1>1 DEF Acknowledge, Holds
<1>3. spool' = [i \in DOMAIN spool |-> Marked(i)] /\ UNCHANGED <<posted, recorded>>
  BY DEF Acknowledge
<1>4. spool \in Seq(Records) BY DEF Inv, SpoolFit
<1>5. ASSUME NEW i \in DOMAIN spool
      PROVE  /\ Marked(i) \in Records
             /\ Marked(i).id = spool[i].id /\ Marked(i).content = spool[i].content
             /\ Pending(spool[i]) => Pending(Marked(i)) \/ posted[spool[i].content] > 0
  <2>1. spool[i] \in Records BY <1>4
  <2>2. QED BY <1>2, <2>1 DEF Records, Deliveries, Pending
<1> HIDE DEF Marked
<1>6. DOMAIN spool' = DOMAIN spool /\ spool' \in Seq(Records)
      /\ \A i \in DOMAIN spool : spool'[i] = Marked(i)
  BY <1>3, <1>4, <1>5
<1>7. Counted' /\ SpoolFit' /\ EvidenceKept' BY <1>3, <1>5, <1>6, MarkedSpool
<1>8. sink' = [sink EXCEPT ![c] = sink'[c]] /\ sink'[c].pc = "idle"
  BY DEF Acknowledge, Goes, Inv, SinksFit
<1>9. Holds(sink[c])' BY <1>8 DEF Holds, Steps
<1>10. QED BY <1>3, <1>5, <1>6, <1>7, <1>8, <1>9, OneGoes

\* What was delivered stays so when its interval is over.
LEMMA IntervalStep == ASSUME Inv, IntervalEnds PROVE Inv'
<1> DEFINE Marked(i) == [spool[i] EXCEPT !.delivery = IF @ = "recent" THEN "old" ELSE @]
<1>1. spool \in Seq(Records) BY DEF Inv, SpoolFit
<1>2. spool' = [i \in DOMAIN spool |-> Marked(i)] /\ UNCHANGED <<sink, posted, recorded>>
  BY DEF IntervalEnds
<1>3. ASSUME NEW i \in DOMAIN spool
      PROVE  /\ Marked(i) \in Records
             /\ Marked(i).id = spool[i].id /\ Marked(i).content = spool[i].content
             /\ Pending(spool[i]) => Pending(Marked(i))
  <2>1. spool[i] \in Records BY <1>1
  <2>2. QED BY <2>1 DEF Records, Deliveries, Pending
<1> HIDE DEF Marked
<1>4. DOMAIN spool' = DOMAIN spool /\ spool' \in Seq(Records)
      /\ \A i \in DOMAIN spool : spool'[i] = Marked(i)
  BY <1>1, <1>2, <1>3
<1>5. Counted' /\ SpoolFit' /\ EvidenceKept' BY <1>2, <1>3, <1>4, MarkedSpool
<1>6. SinksFit' BY <1>2, <1>3, <1>4 DEF Inv, SinksFit, Holds
<1>7. QED BY <1>5, <1>6 DEF Inv

\* Every step keeps the invariant.
LEMMA StepInv == ASSUME SpoolBounds, Inv, [Next]_vars PROVE Inv'
<1>1. ASSUME NEW k \in Contents, Report(k) PROVE Inv' BY <1>1, ReportStep
<1>2. ASSUME NEW c \in Sinks, Drain(c) PROVE Inv'
  BY <1>2, SilentStep, CreateStep, AcknowledgeStep DEF Drain
<1>3. CASE IntervalEnds BY <1>3, IntervalStep
<1>4. CASE WindowEnds \/ UNCHANGED vars
  <2>1. UNCHANGED <<spool, sink, posted, recorded>> BY <1>4 DEF WindowEnds, vars
  <2>2. Counted' /\ SpoolFit' BY <2>1 DEF Inv, Counted, SpoolFit
  <2>3. SinksFit' BY <2>1 DEF Inv, SinksFit, Holds
  <2>4. EvidenceKept' BY <2>1 DEF Inv, EvidenceKept
  <2>5. QED BY <2>2, <2>3, <2>4 DEF Inv
<1>5. QED BY <1>1, <1>2, <1>3, <1>4 DEF Next

-----------------------------------------------------------------------------
(* One drain at a time                                                       *)

OneDrain == \A c, d \in Sinks : c = d

\* A drain that is about to make a comment has seen none.
Unposted == \A c \in Sinks : sink[c].pc = "create" => posted[sink[c].record.content] = 0

\* The only drain makes a comment only of what has none; nothing else makes one.
LEMMA PostedStep ==
  ASSUME OneDrain, Inv, PostedOnce, Unposted, [Next]_vars PROVE PostedOnce' /\ Unposted'
<1>1. ASSUME UNCHANGED <<sink, posted>> PROVE PostedOnce' /\ Unposted'
  BY <1>1 DEF PostedOnce, Unposted
<1>2. ASSUME NEW c \in Sinks, Drain(c) PROVE PostedOnce' /\ Unposted'
  <2>1. \A d \in Sinks : d = c BY DEF OneDrain
  <2>2. \A pc, r : Goes(c, pc, r) => sink'[c].pc = pc /\ sink'[c].record.content = r.content
    BY DEF Goes, Inv, SinksFit
  <2>3. CASE Create(c)
    <3>1. PICK k \in Contents : k = sink[c].record.content
      BY <2>3 DEF Create, Inv, SinksFit, Holds
    <3>2. posted[k] = 0 BY <2>3, <3>1 DEF Create, Unposted
    <3>3. posted' = [posted EXCEPT ![k] = posted[k] + 1] BY <2>3, <3>1 DEF Create
    <3>4. PostedOnce' BY <3>2, <3>3 DEF PostedOnce, Inv, Counted
    <3>5. sink'[c].pc # "create" BY <2>2, <2>3 DEF Create
    <3>6. Unposted' BY <2>1, <3>5 DEF Unposted
    <3>7. QED BY <3>4, <3>6
  <2>4. CASE ~ Create(c)
    <3>1. UNCHANGED posted
      BY <1>2, <2>4 DEF Drain, Begin, Pick, Look, Verify, Acknowledge, Fails
    <3>2. sink'[c].pc = "create" => Look(c)
      BY <1>2, <2>2, <2>4 DEF Drain, Begin, Pick, Look, Verify, Acknowledge, Fails
    <3>3. ASSUME Look(c), sink'[c].pc = "create"
          PROVE  posted'[sink'[c].record.content] = 0
      <4>1. PICK k \in Contents : k = sink[c].record.content
        BY <3>3 DEF Look, Inv, SinksFit, Holds
      <4>2. ~ (posted[k] > 0) /\ sink'[c].record.content = k
        BY <2>2, <3>3, <4>1 DEF Look, Seen
      <4>3. posted[k] \in Nat BY DEF Inv, Counted
      <4>4. QED BY <3>1, <4>2, <4>3
    <3>4. QED BY <2>1, <3>1, <3>2, <3>3 DEF PostedOnce, Unposted
  <2>5. QED BY <2>3, <2>4
<1>3. QED BY <1>1, <1>2 DEF Next, Report, IntervalEnds, WindowEnds, vars

-----------------------------------------------------------------------------
(* What the invariant says                                                   *)

\* Every reachable spool is well formed and within its capacity, its identifiers
\* are distinct, and a drain at work holds a record (guardian_bake_spool.py:66-135).
THEOREM TypeCorrect == ASSUME SpoolBounds PROVE Spec => []TypeOK
<1>1. Init => Inv BY InitInv
<1>2. Inv /\ [Next]_vars => Inv' BY StepInv
<1>3. Inv => TypeOK
  BY DEF Inv, Counted, SpoolFit, SinksFit, Holds, TypeOK, NoRecord
<1>4. QED BY <1>1, <1>2, <1>3, PTL DEF Spec

\* What was recorded waits in the spool or is a comment, whatever failed, was
\* evicted or was acknowledged by however many drains
\* (guardian_bake_spool.py:99-114, guardian_bake_linear.py:75-86).
THEOREM NoEvidenceIsLost == ASSUME SpoolBounds PROVE Spec => []EvidenceKept
<1>1. Init => Inv BY InitInv
<1>2. Inv /\ [Next]_vars => Inv' BY StepInv
<1>3. Inv => EvidenceKept BY DEF Inv
<1>4. QED BY <1>1, <1>2, <1>3, PTL DEF Spec

\* One content is commented once, however often a drain is retried or loses its
\* answer, as long as one drain runs at a time (guardian_bake_linear.py:75-84).
THEOREM OneComment == ASSUME SpoolBounds, OneDrain PROVE Spec => []PostedOnce
<1>1. Init => Inv BY InitInv
<1>2. Init => PostedOnce /\ Unposted BY DEF Init, PostedOnce, Unposted, Idle
<1>3. Inv /\ [Next]_vars => Inv' BY StepInv
<1>4. Inv /\ PostedOnce /\ Unposted /\ [Next]_vars => PostedOnce' /\ Unposted' BY PostedStep
<1>5. QED BY <1>1, <1>2, <1>3, <1>4, PTL DEF Spec
=============================================================================
