------------------------------ MODULE BakeSpool ------------------------------
(***************************************************************************)
(* The evidence of a guardian bake: reports are spooled before anything    *)
(* else, and a sink drains the spool, one record at a time, to the         *)
(* comments of one issue.  Reports come in between any two steps of a      *)
(* drain, and every exchange with the tracker may fail or lose its answer. *)
(***************************************************************************)
EXTENDS Naturals, Sequences, SequencesExt

CONSTANTS
  Contents,     \* what a report says, its deduplication key
  Sinks,        \* drains that may run at the same time
  MaxRecords,   \* the spool's capacity
  MaxReports    \* bound: reports ever recorded

\* Assumed of the constants, wherever they are given values.
SpoolBounds == MaxRecords \in Nat \ {0} /\ MaxReports \in Nat

VARIABLES
  active,     \* the bake is installed, enabled and inside its window
  spool,      \* the records, oldest first
  sink,       \* what each drain is doing
  posted,     \* how many comments of the issue carry each marker
  recorded    \* history: the contents recorded, and how many reports were made

vars == <<active, spool, sink, posted, recorded>>

-----------------------------------------------------------------------------
\* A record is pending until it is acknowledged; a delivery is recent for the
\* interval the sink keeps between two.
Deliveries == {"pending", "recent", "old"}
Records    == [id : Nat, content : Contents, repeats : Nat, delivery : Deliveries]
NoRecord   == [id |-> 0, content |-> "none"]
Idle       == [pc |-> "idle", record |-> NoRecord]

Init ==
  /\ active = TRUE /\ spool = <<>>
  /\ sink = [c \in Sinks |-> Idle]
  /\ posted = [k \in Contents |-> 0]
  /\ recorded = [contents |-> {}, reports |-> 0]

Pending(r)  == r.delivery = "pending"

-----------------------------------------------------------------------------
(* GuardianBakeRuntime.record and GuardianBakeSpool.append                   *)

\* Faulty variant: the oldest record makes room, delivered or not.
EvictedOldest(s) == IF Len(s) < MaxRecords THEN s ELSE Tail(s)

\* The oldest delivered record makes room; pending ones are never evicted.
Evicted(s) ==
  LET delivered == {i \in DOMAIN s : ~Pending(s[i])} IN
  IF Len(s) < MaxRecords \/ delivered = {} THEN s
  ELSE RemoveAt(s, CHOOSE i \in delivered : \A j \in delivered : i <= j)

\* A report that repeats the last record, while that is pending, is counted there.
Repeats(k) == spool # <<>> /\ Pending(Last(spool)) /\ Last(spool).content = k

\* Faulty variant: records are numbered by their place.
PlaceId == Len(spool) + 1

\* A fresh token.
NewId == recorded.reports + 1

Report(k) ==
  /\ active /\ recorded.reports < MaxReports
  /\ \/ /\ Repeats(k)
        /\ spool' = [spool EXCEPT ![Len(spool)].repeats = @ + 1]
     \/ /\ ~Repeats(k) /\ Len(Evicted(spool)) < MaxRecords
        /\ spool' = Append(Evicted(spool),
                           [id |-> NewId, content |-> k,
                            repeats |-> 1, delivery |-> "pending"])
  /\ recorded' = [contents |-> recorded.contents \cup {k}, reports |-> recorded.reports + 1]
  /\ UNCHANGED <<active, sink, posted>>

-----------------------------------------------------------------------------
(* GuardianBakeLinearSink.drain                                              *)

Goes(c, pc, r) ==
  sink' = [sink EXCEPT ![c] = [pc |-> pc, record |-> [id |-> r.id, content |-> r.content]]]
Seen(r) == posted[r.content] > 0

\* Nothing is drained after the window, nor soon after a delivery.
Begin(c) ==
  /\ sink[c].pc = "idle" /\ active
  /\ \A r \in ToSet(spool) : r.delivery # "recent"
  /\ Goes(c, "pick", NoRecord) /\ UNCHANGED <<active, spool, posted, recorded>>

\* The oldest pending record is next.
Pick(c) ==
  /\ sink[c].pc = "pick"
  /\ \/ (\A r \in ToSet(spool) : ~Pending(r)) /\ Goes(c, "idle", NoRecord)
     \/ \E i \in DOMAIN spool :
          /\ Pending(spool[i]) /\ \A j \in 1 .. i - 1 : ~Pending(spool[j])
          /\ Goes(c, "look", spool[i])
  /\ UNCHANGED <<active, spool, posted, recorded>>

\* Faulty variant: the comment is made without looking for its marker.
LookAway(c) ==
  /\ sink[c].pc = "look" /\ Goes(c, "create", sink[c].record)
  /\ UNCHANGED <<active, spool, posted, recorded>>

Look(c) ==
  /\ sink[c].pc = "look"
  /\ Goes(c, IF Seen(sink[c].record) THEN "acknowledge" ELSE "create", sink[c].record)
  /\ UNCHANGED <<active, spool, posted, recorded>>

\* The comment is made, whether the answer says so or is lost.
Create(c) ==
  /\ sink[c].pc = "create"
  /\ posted' = [posted EXCEPT ![sink[c].record.content] = @ + 1]
  /\ \/ Goes(c, "verify", sink[c].record)
     \/ Goes(c, "idle", NoRecord)
  /\ UNCHANGED <<active, spool, recorded>>

Verify(c) ==
  /\ sink[c].pc = "verify" /\ Seen(sink[c].record) /\ Goes(c, "acknowledge", sink[c].record)
  /\ UNCHANGED <<active, spool, posted, recorded>>

\* The record may have been acknowledged by another drain, and evicted since.
Acknowledge(c) ==
  /\ sink[c].pc = "acknowledge" /\ Goes(c, "idle", NoRecord)
  /\ spool' = [i \in DOMAIN spool |->
                 IF spool[i].id = sink[c].record.id THEN [spool[i] EXCEPT !.delivery = "recent"]
                 ELSE spool[i]]
  /\ UNCHANGED <<active, posted, recorded>>

\* An exchange fails, the spool cannot be written, or the drain is killed.
Fails(c) ==
  /\ sink[c].pc # "idle" /\ Goes(c, "idle", NoRecord)
  /\ UNCHANGED <<active, spool, posted, recorded>>

-----------------------------------------------------------------------------
IntervalEnds ==
  /\ \E r \in ToSet(spool) : r.delivery = "recent"
  /\ spool' = [i \in DOMAIN spool |->
                 [spool[i] EXCEPT !.delivery = IF @ = "recent" THEN "old" ELSE @]]
  /\ UNCHANGED <<active, sink, posted, recorded>>

\* The window ends, or the bake is uninstalled.
WindowEnds ==
  active /\ active' = FALSE /\ UNCHANGED <<spool, sink, posted, recorded>>

Drain(c) ==
  Begin(c) \/ Pick(c) \/ Look(c) \/ Create(c) \/ Verify(c) \/ Acknowledge(c) \/ Fails(c)

Next ==
  \/ \E k \in Contents : Report(k)
  \/ \E c \in Sinks : Drain(c)
  \/ IntervalEnds \/ WindowEnds

Spec == Init /\ [][Next]_vars

-----------------------------------------------------------------------------
TypeOK ==
  /\ spool \in Seq(Records) /\ Len(spool) <= MaxRecords
  /\ \A i, j \in DOMAIN spool : spool[i].id = spool[j].id => i = j
  /\ \A c \in Sinks :
       sink[c].pc \in {"look", "create", "verify", "acknowledge"} => sink[c].record # NoRecord
  /\ posted \in [Contents -> Nat]

\* No evidence is lost: what was recorded waits in the spool or is a comment,
\* whatever failed, was evicted or was acknowledged since
\* (guardian_bake_spool.py:99-114, guardian_bake_linear.py:75-86).
EvidenceKept ==
  \A k \in recorded.contents :
    posted[k] > 0 \/ \E i \in DOMAIN spool : spool[i].content = k /\ Pending(spool[i])

\* However often a drain is retried, one content is commented once
\* (guardian_bake_linear.py:75-84): of one drain at a time.
PostedOnce == \A k \in Contents : posted[k] <= 1
=============================================================================
