------------------------- MODULE OfflineQueueProofs -------------------------
(* Theorems about OfflineQueue, for every set of mutations and tabs, every  *)
(* set of faults and any number of lost answers.                           *)
EXTENDS OfflineQueue, FiniteSetTheorems, SequenceTheorems, TLAPS

-----------------------------------------------------------------------------
(* Sequences: w is the end of q.                                           *)

IsEnd(w, q) ==
    /\ Len(w) <= Len(q)
    /\ w = SubSeq(q, Len(q) - Len(w) + 1, Len(q))

LEMMA EndPointwise ==
    ASSUME NEW S, NEW w \in Seq(S), NEW q \in Seq(S), Len(w) <= Len(q)
    PROVE  IsEnd(w, q) <=> \A i \in 1..Len(w) : w[i] = q[i + (Len(q) - Len(w))]
  <1> DEFINE e == SubSeq(q, Len(q) - Len(w) + 1, Len(q))
  <1>1. /\ Len(q) \in Nat /\ Len(w) \in Nat
        /\ DOMAIN q = 1..Len(q) /\ DOMAIN w = 1..Len(w)
    OBVIOUS
  <1>2. e \in Seq(S) /\ Len(e) = Len(w)
    BY <1>1
  <1>3. \A i \in 1..Len(w) : e[i] = q[i + (Len(q) - Len(w))]
    BY <1>1
  <1>4. w = e <=> \A i \in 1..Len(w) : w[i] = e[i]
    <2> HIDE DEF e
    <2>1. ASSUME \A i \in 1..Len(w) : w[i] = e[i]
          PROVE  w = e
      BY <1>2, <2>1, SeqEqual
    <2> QED BY <2>1
  <1> QED BY <1>3, <1>4 DEF IsEnd

\* Taking the first away, and adding one to both.
LEMMA EndOfTail ==
    ASSUME NEW S, NEW w \in Seq(S), NEW q \in Seq(S), IsEnd(w, q), w # <<>>
    PROVE  IsEnd(Tail(w), q)
  <1>1. /\ Len(w) <= Len(q) /\ Len(q) \in Nat /\ Len(w) \in Nat \ {0}
        /\ Tail(w) \in Seq(S) /\ Len(Tail(w)) = Len(w) - 1
        /\ \A i \in 1..Len(Tail(w)) : Tail(w)[i] = w[i + 1]
    BY DEF IsEnd
  <1>2. \A i \in 1..Len(w) : w[i] = q[i + (Len(q) - Len(w))]
    BY <1>1, EndPointwise
  <1>3. \A i \in 1..Len(Tail(w)) : Tail(w)[i] = q[i + (Len(q) - Len(Tail(w)))]
    <2> TAKE i \in 1..Len(Tail(w))
    <2>1. i + 1 \in 1..Len(w) /\ (i + 1) + (Len(q) - Len(w)) = i + (Len(q) - Len(Tail(w)))
      BY <1>1
    <2> QED BY <1>1, <1>2, <2>1
  <1>4. Len(Tail(w)) <= Len(q)
    BY <1>1
  <1> QED BY <1>1, <1>3, <1>4, EndPointwise

LEMMA EndOfAppend ==
    ASSUME NEW S, NEW w \in Seq(S), NEW q \in Seq(S), IsEnd(w, q), NEW m \in S
    PROVE  IsEnd(Append(w, m), Append(q, m))
  <1> DEFINE v == Append(w, m)
             r == Append(q, m)
  <1>1. /\ Len(w) <= Len(q) /\ Len(q) \in Nat /\ Len(w) \in Nat
        /\ v \in Seq(S) /\ Len(v) = Len(w) + 1
        /\ r \in Seq(S) /\ Len(r) = Len(q) + 1
        /\ \A i \in 1..Len(w) : v[i] = w[i]
        /\ \A i \in 1..Len(q) : r[i] = q[i]
        /\ v[Len(w) + 1] = m /\ r[Len(q) + 1] = m
    BY DEF IsEnd
  <1>2. \A i \in 1..Len(w) : w[i] = q[i + (Len(q) - Len(w))]
    BY <1>1, EndPointwise
  <1> HIDE DEF v, r
  <1>3. \A i \in 1..Len(v) : v[i] = r[i + (Len(r) - Len(v))]
    <2> TAKE i \in 1..Len(v)
    <2>1. CASE i <= Len(w)
      <3>1. i \in 1..Len(w) /\ i + (Len(q) - Len(w)) \in 1..Len(q)
        BY <1>1, <2>1
      <3>2. i + (Len(r) - Len(v)) = i + (Len(q) - Len(w))
        BY <1>1
      <3> QED BY <1>1, <1>2, <3>1, <3>2
    <2>2. CASE i = Len(w) + 1
      <3>1. i + (Len(r) - Len(v)) = Len(q) + 1
        BY <1>1, <2>2
      <3> QED BY <1>1, <2>2, <3>1
    <2> QED BY <1>1, <2>1, <2>2
  <1>4. v \in Seq(S) /\ r \in Seq(S) /\ Len(v) <= Len(r)
    BY <1>1
  <1>5. IsEnd(v, r)
    BY <1>3, <1>4, EndPointwise
  <1> QED BY <1>5 DEF v, r

\* What is in the end of q is in q, and once if it is there once.
Once(q) == \A i, j \in DOMAIN q : q[i] = q[j] => i = j

LEMMA EndHolds ==
    ASSUME NEW S, NEW w \in Seq(S), NEW q \in Seq(S), IsEnd(w, q)
    PROVE  /\ \A i \in DOMAIN w : \E j \in DOMAIN q : w[i] = q[j]
           /\ Once(q) => Once(w)
  <1>1. /\ Len(w) <= Len(q) /\ Len(q) \in Nat /\ Len(w) \in Nat
        /\ DOMAIN q = 1..Len(q) /\ DOMAIN w = 1..Len(w)
    BY DEF IsEnd
  <1>2. \A i \in 1..Len(w) : w[i] = q[i + (Len(q) - Len(w))]
    BY <1>1, EndPointwise
  <1>3. \A i \in 1..Len(w) : i + (Len(q) - Len(w)) \in 1..Len(q)
    BY <1>1
  <1>4. ASSUME Once(q), NEW i \in 1..Len(w), NEW j \in 1..Len(w), w[i] = w[j]
        PROVE  i = j
    <2>1. i + (Len(q) - Len(w)) = j + (Len(q) - Len(w))
      BY <1>1, <1>2, <1>3, <1>4 DEF Once
    <2> QED BY <1>1, <2>1
  <1> QED BY <1>1, <1>2, <1>3, <1>4 DEF Once

-----------------------------------------------------------------------------
(* The inductive invariant.                                                *)

Has(s, m) == \E i \in DOMAIN s : s[i] = m
Untried(m) == sent[m] \in {"new", "sending"}

\* A mutation that no answer or error has come back for is not in the worker
\* and not on the server: what a page can still hand over is handed over once.
UntriedIsNowhere ==
    \A m \in Mutations : Untried(m) => ~Has(queued, m) /\ ~Has(applied, m)

\* What waits was executed at most as often as answers to it got lost, so that
\* one execution is left to it.
WaitingHasRoom ==
    \A m \in Mutations : Has(Waiting, m) => Copies(m) <= lost[m]

RepeatsBounded == \A m \in Mutations : Copies(m) <= 1 + lost[m]

QueueInv ==
    /\ TypeOK
    /\ replay.at \in {"fetch", "tell", "restore"} => replay.m \in Mutations
    /\ WaitsInOrder
    /\ Once(queued)
    /\ UntriedIsNowhere
    /\ WaitingHasRoom
    /\ RepeatsBounded

-----------------------------------------------------------------------------
(* What a step may do to the server and to the worker.                     *)

Unserved == UNCHANGED <<applied, lost>>
Executed(m) == applied' = Append(applied, m) /\ lost' = lost
Unheard(m) == applied' = Append(applied, m) /\ lost' = [lost EXCEPT ![m] = @ + 1]

WaitsOn == Waiting' = Waiting /\ queued' = queued
Leaves == Waiting # <<>> /\ Waiting' = Tail(Waiting) /\ queued' = queued
Enters(m) == Waiting' = Append(Waiting, m) /\ queued' = Append(queued, m)

Tried(m) == sent[m] = "sending" /\ ~Untried(m)'

Shape ==
    /\ \A m \in Mutations : Untried(m)' => Untried(m)
    /\ \/ Unserved /\ (WaitsOn \/ Leaves)
       \/ \E m \in Mutations : Tried(m) /\ Executed(m) /\ WaitsOn
       \/ \E m \in Mutations : Tried(m) /\ (Unserved \/ Unheard(m)) /\ Enters(m)
       \/ Executed(Head(Waiting)) /\ Leaves
       \/ Unheard(Head(Waiting)) /\ WaitsOn /\ Waiting # <<>>

\* What waits, while the sync holds an entry in no store and otherwise.
LEMMA WaitingIs ==
    ASSUME QueueInv
    PROVE  /\ Waiting \in Seq(Mutations)
           /\ replay.at \in {"fetch", "restore"} => Waiting = <<replay.m>> \o queue
           /\ replay.at \notin {"fetch", "restore"} => Waiting = queue
           /\ replay.at \in {"fetch", "restore"} =>
                 Waiting # <<>> /\ Head(Waiting) = replay.m /\ Tail(Waiting) = queue
  <1>1. queue \in Seq(Mutations)
    BY DEF QueueInv, TypeOK
  <1>2. CASE replay.at \in {"fetch", "restore"}
    <2>1. replay.m \in Mutations /\ replay.m # None
      BY <1>2, KindsAssumption DEF QueueInv
    <2>2. Waiting = <<replay.m>> \o queue
      BY <1>2, <2>1 DEF Waiting, InHand
    <2> QED BY <1>1, <1>2, <2>1, <2>2
  <1>3. CASE replay.at \notin {"fetch", "restore"}
    BY <1>1, <1>3 DEF Waiting
  <1> QED BY <1>2, <1>3

LEMMA ServeShape ==
    ASSUME TypeOK, NEW m \in Mutations, NEW ok \in BOOLEAN, Serve(m, ok)
    PROVE  Unserved \/ Executed(m)
  BY DEF Serve, Unserved, Executed

LEMMA FailsShape ==
    ASSUME TypeOK, NEW m \in Mutations, FetchFails(m)
    PROVE  Unserved \/ Unheard(m)
  BY DEF FetchFails, Unserved, Unheard, server

\* The steps of the pages.
LEMMA PageShape ==
    ASSUME QueueInv,
           \/ \E t \in Tabs, m \in Mutations : Submit(t, m)
           \/ \E m \in Mutations : Answered(m) \/ Queued(m) \/ Caught(m)
    PROVE  Shape
  <1>0. TypeOK /\ sent \in [Mutations -> {"new", "sending", "failed", "pending", "done", "error"}]
    BY DEF QueueInv, TypeOK
  <1>1. ASSUME NEW t \in Tabs, NEW m \in Mutations, Submit(t, m)
        PROVE  Shape
    <2>1. /\ sent' = [sent EXCEPT ![m] = "sending"] /\ sent[m] = "new"
          /\ UNCHANGED <<queue, replay, queued, applied, lost>>
      BY <1>1 DEF Submit, worker, server
    <2> QED BY <1>0, <2>1 DEF Shape, Untried, Unserved, WaitsOn, Waiting, InHand
  <1>2. ASSUME NEW m \in Mutations, Answered(m)
        PROVE  Shape
    <2>1. PICK ok \in BOOLEAN : Serve(m, ok)
                                 /\ sent' = [sent EXCEPT ![m] = IF ok THEN "done" ELSE "error"]
      BY <1>2 DEF Answered
    <2>2. sent[m] = "sending" /\ UNCHANGED <<queue, replay, queued>>
      BY <1>2 DEF Answered, worker
    <2>3. WaitsOn
      BY <2>2 DEF WaitsOn, Waiting, InHand
    <2>4. Tried(m) /\ \A x \in Mutations : Untried(x)' => Untried(x)
      BY <1>0, <2>1, <2>2 DEF Tried, Untried
    <2> QED BY <1>0, <2>1, <2>3, <2>4, ServeShape DEF Shape
  <1>3. ASSUME NEW m \in Mutations, Queued(m)
        PROVE  Shape
    <2>1. /\ sent[m] = "sending" /\ FetchFails(m)
          /\ queue' = Append(queue, m) /\ queued' = Append(queued, m)
          /\ sent' = [sent EXCEPT ![m] = "failed"] /\ replay' = replay
      BY <1>3 DEF Queued
    <2>2. Waiting' = Append(Waiting, m)
      <3>1. queue \in Seq(Mutations)
        BY <1>0 DEF TypeOK
      <3>2. CASE replay.at \in {"fetch", "restore"}
        <4>1. Waiting = <<replay.m>> \o queue /\ Waiting' = <<replay.m>> \o Append(queue, m)
          BY <2>1, <3>2, KindsAssumption DEF QueueInv, Waiting, InHand
        <4>2. replay.m \in Mutations
          BY <3>2 DEF QueueInv
        <4> QED BY <3>1, <4>1, <4>2
      <3>3. CASE replay.at \notin {"fetch", "restore"}
        BY <2>1, <3>3 DEF Waiting
      <3> QED BY <3>2, <3>3
    <2>3. Enters(m)
      BY <2>1, <2>2 DEF Enters
    <2>4. Tried(m) /\ \A x \in Mutations : Untried(x)' => Untried(x)
      BY <1>0, <2>1 DEF Tried, Untried
    <2> QED BY <1>0, <2>1, <2>3, <2>4, FailsShape DEF Shape
  <1>4. ASSUME NEW m \in Mutations, Caught(m)
        PROVE  Shape
    <2>1. /\ sent' = [sent EXCEPT ![m] = "pending"] \/ sent' = [sent EXCEPT ![m] = "error"]
          /\ UNCHANGED <<queue, replay, queued, applied, lost>>
      BY <1>4 DEF Caught, worker, server
    <2>2. \A x \in Mutations : Untried(x)' => Untried(x)
      BY <1>0, <2>1 DEF Untried
    <2> QED BY <2>1, <2>2 DEF Shape, Unserved, WaitsOn, Waiting, InHand
  <1> QED BY <1>1, <1>2, <1>3, <1>4

\* The steps of the sync.
LEMMA SyncShape ==
    ASSUME QueueInv, Sync \/ WorkerKilled
    PROVE  Shape
  <1>0. /\ TypeOK /\ queue \in Seq(Mutations) /\ replay \in Replays
        /\ UNCHANGED sent
    BY DEF QueueInv, TypeOK, Sync, SyncStarts, ReplayShift, ReplayAnswered, ReplayFails,
           ReplayTell, ReplayRestore, WorkerKilled
  <1>1. \A x \in Mutations : Untried(x)' => Untried(x)
    BY <1>0 DEF Untried
  <1>2. CASE SyncStarts \/ ReplayTell
    <2>1. /\ UNCHANGED <<queue, queued, applied, lost>>
          /\ replay.at \in {"idle", "tell"} /\ replay'.at = "shift"
      BY <1>2 DEF SyncStarts, ReplayTell, server, Idle
    <2>2. Waiting = queue /\ Waiting' = queue
      BY <2>1 DEF Waiting
    <2> QED BY <1>1, <2>1, <2>2 DEF Shape, Unserved, WaitsOn
  <1>3. CASE ReplayShift
    <2>1. UNCHANGED <<queued, applied, lost>> /\ Waiting = queue
      BY <1>3 DEF ReplayShift, server, Waiting
    <2>2. CASE queue = <<>>
      <3>1. Waiting' = <<>>
        BY <1>3, <2>2 DEF ReplayShift, Waiting, Idle
      <3> QED BY <1>1, <2>1, <2>2, <3>1 DEF Shape, Unserved, WaitsOn
    <2>3. CASE queue # <<>> /\ replay' = [at |-> "fetch", m |-> Head(queue), ok |-> FALSE]
      <3>1. queue' = Tail(queue) /\ Head(queue) \in Mutations
        BY <1>0, <1>3, <2>3 DEF ReplayShift
      <3>2. Waiting' = <<Head(queue)>> \o Tail(queue)
        BY <2>3, <3>1, KindsAssumption DEF Waiting, InHand
      <3>3. <<Head(queue)>> \o Tail(queue) = queue
        BY <1>0, <2>3
      <3> QED BY <1>1, <2>1, <3>2, <3>3 DEF Shape, Unserved, WaitsOn
    <2>4. CASE queue # <<>> /\ UNCHANGED replay
      <3>1. queue' = Tail(queue) /\ replay.at = "shift"
        BY <1>3, <2>4 DEF ReplayShift
      <3>2. Waiting' = Tail(queue)
        BY <2>4, <3>1 DEF Waiting
      <3> QED BY <1>1, <2>1, <2>4, <3>2 DEF Shape, Unserved, Leaves
    <2> QED BY <1>3, <2>2, <2>3, <2>4 DEF ReplayShift
  <1>4. CASE ReplayAnswered
    <2>1. PICK ok \in BOOLEAN : Serve(replay.m, ok) /\ replay' = [replay EXCEPT !.at = "tell", !.ok = ok]
      BY <1>4 DEF ReplayAnswered
    <2>2. replay.at = "fetch" /\ UNCHANGED <<queue, queued>>
      BY <1>4 DEF ReplayAnswered
    <2>3. replay'.at = "tell"
      BY <1>0, <2>1 DEF Replays
    <2>4. Leaves /\ Head(Waiting) = replay.m /\ replay.m \in Mutations
      BY <2>2, <2>3, WaitingIs DEF Leaves, Waiting, QueueInv
    <2>5. Unserved \/ Executed(replay.m)
      BY <1>0, <2>1, <2>4, ServeShape
    <2> QED BY <1>1, <2>4, <2>5 DEF Shape
  <1>5. CASE ReplayFails
    <2>1. /\ replay.at = "fetch" /\ FetchFails(replay.m) /\ replay' = [replay EXCEPT !.at = "restore"]
          /\ UNCHANGED <<queue, queued>>
      BY <1>5 DEF ReplayFails
    <2>2. replay'.at = "restore" /\ replay'.m = replay.m
      BY <1>0, <2>1 DEF Replays
    <2>3. WaitsOn
      BY <2>1, <2>2 DEF WaitsOn, Waiting, InHand
    <2>4. Waiting # <<>> /\ Head(Waiting) = replay.m /\ replay.m \in Mutations
      BY <2>1, WaitingIs DEF QueueInv
    <2>5. Unserved \/ Unheard(replay.m)
      BY <1>0, <2>1, <2>4, FailsShape
    <2> QED BY <1>1, <2>3, <2>4, <2>5 DEF Shape
  <1>6. CASE ReplayRestore
    <2>1. /\ replay.at = "restore" /\ queue' = <<replay.m>> \o queue /\ replay'.at = "idle"
          /\ UNCHANGED <<queued, applied, lost>>
      BY <1>6 DEF ReplayRestore, server, Idle
    <2>2. Waiting' = Waiting
      BY <2>1, WaitingIs DEF Waiting
    <2> QED BY <1>1, <2>1, <2>2 DEF Shape, Unserved, WaitsOn
  <1>7. CASE WorkerKilled
    <2>1. /\ replay.at \in {"fetch", "tell", "restore"} /\ replay'.at = "idle"
          /\ UNCHANGED <<queue, queued, applied, lost>>
      BY <1>7 DEF WorkerKilled, server, Idle
    <2>2. Waiting' = queue
      BY <2>1 DEF Waiting
    <2>3. WaitsOn \/ Leaves
      BY <2>1, <2>2, WaitingIs DEF WaitsOn, Leaves
    <2> QED BY <1>1, <2>1, <2>3 DEF Shape, Unserved
  <1> QED BY <1>2, <1>3, <1>4, <1>5, <1>6, <1>7 DEF Sync

LEMMA StepShape ==
    ASSUME QueueInv, [Next]_vars
    PROVE  Shape
  <1>1. ASSUME NEW t \in Tabs, Dispatch(t) \/ \E to \in Pages : Navigate(t, to)
        PROVE  UNCHANGED <<sent, queue, replay, queued, applied, lost>>
    BY <1>1 DEF Dispatch, Navigate, worker, server
  <1>2. ASSUME NEW to \in Nets, NetChanges(to)
        PROVE  UNCHANGED <<sent, queue, replay, queued, applied, lost>>
    BY <1>2 DEF NetChanges, worker, server
  <1>3. UNCHANGED vars => UNCHANGED <<sent, queue, replay, queued, applied, lost>>
    BY DEF vars, worker, server
  <1>4. UNCHANGED <<sent, queue, replay, queued, applied, lost>> => Shape
    BY DEF Shape, Unserved, WaitsOn, Waiting, InHand, Untried
  <1> QED BY <1>1, <1>2, <1>3, <1>4, PageShape, SyncShape DEF Next

-----------------------------------------------------------------------------
(* How often a mutation was executed.                                      *)

LEMMA CopiesType ==
    ASSUME applied \in Seq(Mutations), NEW x
    PROVE  Copies(x) \in Nat /\ (~Has(applied, x) => Copies(x) = 0)
  <1> DEFINE at == {i \in DOMAIN applied : applied[i] = x}
  <1>1. IsFiniteSet(1..Len(applied)) /\ DOMAIN applied = 1..Len(applied)
    BY FS_Interval
  <1>2. at \in SUBSET (1..Len(applied))
    BY <1>1
  <1>3. IsFiniteSet(at)
    BY <1>1, <1>2, FS_Subset
  <1>4. Cardinality(at) \in Nat
    BY <1>3, FS_CardinalityType
  <1>5. ~Has(applied, x) => at = {}
    BY DEF Has
  <1> QED BY <1>4, <1>5, FS_EmptySet DEF Copies

LEMMA CopiesAppend ==
    ASSUME applied \in Seq(Mutations), NEW m \in Mutations, applied' = Append(applied, m), NEW x
    PROVE  Copies(x)' = Copies(x) + (IF x = m THEN 1 ELSE 0)
  <1> DEFINE at == {i \in DOMAIN applied : applied[i] = x}
             n == Len(applied) + 1
             then == {i \in DOMAIN applied' : applied'[i] = x}
  <1>1. /\ IsFiniteSet(1..Len(applied)) /\ DOMAIN applied = 1..Len(applied)
        /\ Len(applied) \in Nat
    BY FS_Interval
  <1>2. IsFiniteSet(at)
    <2>1. at \in SUBSET (1..Len(applied))
      BY <1>1
    <2> QED BY <1>1, <2>1, FS_Subset
  <1>3. /\ DOMAIN applied' = 1..n
        /\ \A i \in 1..Len(applied) : applied'[i] = applied[i]
        /\ applied'[n] = m
    BY <1>1
  <1>4. then = IF x = m THEN at \cup {n} ELSE at
    BY <1>1, <1>3
  <1>5. n \notin at
    BY <1>1
  <1>6. Cardinality(at) \in Nat
    BY <1>2, FS_CardinalityType
  <1>7. Cardinality(then) = Cardinality(at) + (IF x = m THEN 1 ELSE 0)
    <2> HIDE DEF at, n, then
    <2>1. Cardinality(at \cup {n}) = Cardinality(at) + 1
      BY <1>2, <1>5, FS_AddElement
    <2> QED BY <1>4, <1>6, <2>1
  <1> QED BY <1>7 DEF Copies

-----------------------------------------------------------------------------
(* Each conjunct of the invariant is kept by a step of that shape.         *)

LEMMA InvTypes ==
    ASSUME QueueInv
    PROVE  /\ queue \in Seq(Mutations) /\ queued \in Seq(Mutations)
           /\ applied \in Seq(Mutations) /\ lost \in [Mutations -> Nat]
           /\ Waiting \in Seq(Mutations) /\ IsEnd(Waiting, queued)
  BY WaitingIs DEF QueueInv, TypeOK, WaitsInOrder, IsEnd

\* An entry that is not at the head, or not in the worker, is not the head.
LEMMA HeadApart ==
    ASSUME QueueInv, Waiting # <<>>
    PROVE  /\ Head(Waiting) = Waiting[1] /\ 1 \in DOMAIN Waiting
           /\ Head(Waiting) \in Mutations /\ ~Untried(Head(Waiting))
           /\ ~Has(Tail(Waiting), Head(Waiting))
           /\ \A x : Has(Tail(Waiting), x) => Has(Waiting, x)
  <1>1. /\ Waiting \in Seq(Mutations) /\ Once(Waiting)
        /\ \A i \in DOMAIN Waiting : \E j \in DOMAIN queued : Waiting[i] = queued[j]
    BY InvTypes, EndHolds DEF QueueInv
  <1>2. /\ Len(Waiting) \in Nat \ {0} /\ DOMAIN Waiting = 1..Len(Waiting)
        /\ Head(Waiting) = Waiting[1]
        /\ Tail(Waiting) \in Seq(Mutations)
        /\ DOMAIN Tail(Waiting) = 1..(Len(Waiting) - 1)
        /\ \A i \in 1..(Len(Waiting) - 1) : Tail(Waiting)[i] = Waiting[i + 1]
    BY <1>1
  <1>3. 1 \in DOMAIN Waiting /\ Head(Waiting) \in Mutations
    BY <1>1, <1>2
  <1>4. Has(queued, Head(Waiting))
    BY <1>1, <1>2, <1>3 DEF Has
  <1>5. ~Untried(Head(Waiting))
    BY <1>3, <1>4 DEF QueueInv, UntriedIsNowhere
  <1>6. \A i \in 1..(Len(Waiting) - 1) : i + 1 \in 1..Len(Waiting) /\ i + 1 # 1
    BY <1>2
  <1>7. ~Has(Tail(Waiting), Head(Waiting))
    BY <1>1, <1>2, <1>3, <1>6 DEF Has, Once
  <1>8. \A x : Has(Tail(Waiting), x) => Has(Waiting, x)
    BY <1>2, <1>6 DEF Has
  <1> QED BY <1>2, <1>3, <1>5, <1>7, <1>8

LEMMA OrderKept ==
    ASSUME QueueInv, Shape
    PROVE  WaitsInOrder' /\ Once(queued)'
  <1>1. CASE WaitsOn \/ Leaves
    <2>1. Waiting # <<>> => IsEnd(Tail(Waiting), queued)
      BY InvTypes, EndOfTail
    <2>2. IsEnd(Waiting', queued') /\ queued' = queued
      BY <1>1, <2>1, InvTypes DEF WaitsOn, Leaves
    <2> QED BY <2>2 DEF IsEnd, WaitsInOrder, QueueInv, Once
  <1>2. ASSUME NEW m \in Mutations, Tried(m), Enters(m)
        PROVE  WaitsInOrder' /\ Once(queued)'
    <2>1. IsEnd(Waiting', queued')
      BY <1>2, InvTypes, EndOfAppend DEF Enters
    <2>2. ~Has(queued, m)
      BY <1>2 DEF Tried, Untried, QueueInv, UntriedIsNowhere
    <2>3. /\ DOMAIN queued' = 1..(Len(queued) + 1) /\ Len(queued) \in Nat
          /\ DOMAIN queued = 1..Len(queued)
          /\ \A i \in 1..Len(queued) : queued'[i] = queued[i]
          /\ queued'[Len(queued) + 1] = m
      BY <1>2, InvTypes DEF Enters
    <2>4. Once(queued)'
      BY <2>2, <2>3 DEF Has, Once, QueueInv
    <2> QED BY <2>1, <2>4 DEF IsEnd, WaitsInOrder
  <1> QED BY <1>1, <1>2 DEF Shape

\* Who is on the server or was ever queued after the step.
LEMMA NowhereKept ==
    ASSUME QueueInv, Shape
    PROVE  UntriedIsNowhere'
  <1> SUFFICES ASSUME NEW x \in Mutations, Untried(x)'
               PROVE  ~Has(queued, x)' /\ ~Has(applied, x)'
    BY DEF UntriedIsNowhere
  <1>1. Untried(x) /\ ~Has(queued, x) /\ ~Has(applied, x)
    BY DEF Shape, QueueInv, UntriedIsNowhere
  <1>2. ASSUME NEW m \in Mutations, NEW s \in Seq(Mutations), Has(Append(s, m), x)
        PROVE  Has(s, x) \/ x = m
    <2>1. /\ DOMAIN Append(s, m) = 1..(Len(s) + 1) /\ Len(s) \in Nat /\ DOMAIN s = 1..Len(s)
          /\ \A i \in 1..Len(s) : Append(s, m)[i] = s[i]
          /\ Append(s, m)[Len(s) + 1] = m
      OBVIOUS
    <2>2. \A i \in 1..(Len(s) + 1) : i \in 1..Len(s) \/ i = Len(s) + 1
      BY <2>1
    <2> QED BY <1>2, <2>1, <2>2 DEF Has
  <1>3. \A m \in Mutations : Tried(m) => x # m
    BY DEF Tried
  <1>4. Waiting # <<>> => x # Head(Waiting) /\ Head(Waiting) \in Mutations
    BY <1>1, HeadApart
  <1>5. /\ queued' = queued \/ \E m \in Mutations : Tried(m) /\ queued' = Append(queued, m)
        /\ \/ applied' = applied
           \/ \E m \in Mutations : x # m /\ applied' = Append(applied, m)
    BY <1>3, <1>4 DEF Shape, WaitsOn, Leaves, Enters, Unserved, Executed, Unheard
  <1>6. ~Has(queued, x)'
    BY <1>1, <1>2, <1>3, <1>5, InvTypes DEF Has
  <1>7. ~Has(applied, x)'
    BY <1>1, <1>2, <1>5, InvTypes DEF Has
  <1> QED BY <1>6, <1>7

\* The room of one mutation: it grows with a lost answer and is used up by an
\* answer that arrives.
LEMMA RoomOf ==
    ASSUME QueueInv, Shape, NEW x \in Mutations
    PROVE  /\ Has(Waiting, x) => Copies(x) <= lost[x]
           /\ lost[x] \in Nat /\ lost'[x] \in Nat
           /\ Copies(x) \in Nat /\ Copies(x)' \in Nat
           /\ \/ Copies(x)' - lost'[x] <= Copies(x) - lost[x]
              \/ /\ Copies(x)' = Copies(x) + 1 /\ lost'[x] = lost[x]
                 /\ ~Has(Waiting', x)
                 /\ Copies(x) <= lost[x]
  <1>0. /\ applied \in Seq(Mutations) /\ lost \in [Mutations -> Nat] /\ Copies(x) \in Nat
        /\ Untried(x) => Copies(x) = 0 /\ ~Has(Waiting, x)
    <2>1. Untried(x) => ~Has(applied, x) /\ ~Has(queued, x)
      BY DEF QueueInv, UntriedIsNowhere
    <2>2. Has(Waiting, x) => Has(queued, x)
      BY InvTypes, EndHolds DEF Has
    <2> QED BY <2>1, <2>2, InvTypes, CopiesType
  <1>1. Has(Waiting, x) => Copies(x) <= lost[x]
    BY DEF QueueInv, WaitingHasRoom, Has
  <1>2. CASE Unserved
    <2>1. Copies(x)' = Copies(x) /\ lost' = lost
      BY <1>2 DEF Unserved, Copies
    <2> QED BY <1>0, <1>1, <2>1
  <1>3. ASSUME NEW m \in Mutations, Unheard(m)
        PROVE  /\ Copies(x)' - lost'[x] <= Copies(x) - lost[x]
               /\ lost'[x] \in Nat /\ Copies(x)' \in Nat
    <2>1. Copies(x)' = Copies(x) + (IF x = m THEN 1 ELSE 0)
      BY <1>0, <1>3, CopiesAppend DEF Unheard
    <2>2. lost'[x] = lost[x] + (IF x = m THEN 1 ELSE 0)
      BY <1>0, <1>3 DEF Unheard
    <2> QED BY <1>0, <2>1, <2>2
  <1>4. ASSUME NEW m \in Mutations, Executed(m)
        PROVE  /\ lost' = lost /\ Copies(x)' = Copies(x) + (IF x = m THEN 1 ELSE 0)
               /\ Copies(x)' \in Nat
    BY <1>0, <1>4, CopiesAppend DEF Executed
  <1>5. ASSUME NEW m \in Mutations, Tried(m), Executed(m), WaitsOn
        PROVE  x = m => ~Has(Waiting', x) /\ Copies(x) <= lost[x]
    BY <1>0, <1>5 DEF Tried, Untried, WaitsOn
  <1>6. ASSUME Waiting # <<>>, Executed(Head(Waiting)), Leaves
        PROVE  x = Head(Waiting) => ~Has(Waiting', x) /\ Copies(x) <= lost[x]
    BY <1>1, <1>6, HeadApart DEF Leaves, Has
  <1>7. Waiting # <<>> => Head(Waiting) \in Mutations
    BY HeadApart
  <1>8. ASSUME NEW m \in Mutations, Executed(m), x = m => ~Has(Waiting', x) /\ Copies(x) <= lost[x]
        PROVE  /\ lost' = lost /\ Copies(x)' \in Nat
               /\ \/ Copies(x)' - lost'[x] <= Copies(x) - lost[x]
                  \/ /\ Copies(x)' = Copies(x) + 1 /\ lost'[x] = lost[x]
                     /\ ~Has(Waiting', x) /\ Copies(x) <= lost[x]
    <2>1. /\ lost' = lost /\ Copies(x)' = Copies(x) + (IF x = m THEN 1 ELSE 0)
          /\ Copies(x)' \in Nat
      BY <1>4, <1>8
    <2> QED BY <1>0, <1>8, <2>1
  <1>9. CASE \E m \in Mutations : Tried(m) /\ Executed(m) /\ WaitsOn
    <2>1. PICK m \in Mutations : Tried(m) /\ Executed(m) /\ WaitsOn
      BY <1>9
    <2>2. x = m => ~Has(Waiting', x) /\ Copies(x) <= lost[x]
      BY <1>5, <2>1
    <2> QED BY <1>0, <1>1, <1>8, <2>1, <2>2
  <1>10. CASE Executed(Head(Waiting)) /\ Leaves
    <2>1. Waiting # <<>>
      BY <1>10 DEF Leaves
    <2>2. x = Head(Waiting) => ~Has(Waiting', x) /\ Copies(x) <= lost[x]
      BY <1>6, <1>10, <2>1
    <2> QED BY <1>0, <1>1, <1>7, <1>8, <1>10, <2>1, <2>2
  <1>11. CASE \E m \in Mutations : Unheard(m)
    BY <1>0, <1>1, <1>3, <1>11
  <1> QED BY <1>2, <1>7, <1>9, <1>10, <1>11 DEF Shape

LEMMA RoomKept ==
    ASSUME QueueInv, Shape
    PROVE  WaitingHasRoom' /\ RepeatsBounded'
  <1>1. RepeatsBounded'
    <2> SUFFICES ASSUME NEW x \in Mutations
                 PROVE  Copies(x)' <= 1 + lost'[x]
      BY DEF RepeatsBounded
    <2>1. Copies(x) <= 1 + lost[x]
      BY DEF QueueInv, RepeatsBounded
    <2>2. Copies(x)' \in Nat
      BY RoomOf, CopiesType
    <2> QED BY <2>1, <2>2, RoomOf
  <1>2. WaitingHasRoom'
    <2> SUFFICES ASSUME NEW x \in Mutations, Has(Waiting', x)
                 PROVE  Copies(x)' <= lost'[x]
      BY DEF WaitingHasRoom, Has
    <2>1. Has(Waiting, x) \/ Untried(x)
      <3>1. Waiting # <<>> => (Has(Tail(Waiting), x) => Has(Waiting, x))
        BY HeadApart
      <3>2. ASSUME NEW m \in Mutations, Has(Append(Waiting, m), x), x # m
            PROVE  Has(Waiting, x)
        <4>1. /\ DOMAIN Append(Waiting, m) = 1..(Len(Waiting) + 1) /\ Len(Waiting) \in Nat
              /\ DOMAIN Waiting = 1..Len(Waiting)
              /\ \A i \in 1..Len(Waiting) : Append(Waiting, m)[i] = Waiting[i]
              /\ Append(Waiting, m)[Len(Waiting) + 1] = m
          BY InvTypes
        <4> QED BY <3>2, <4>1 DEF Has
      <3>3. \/ Waiting' = Waiting
            \/ Waiting # <<>> /\ Waiting' = Tail(Waiting)
            \/ \E m \in Mutations : Untried(m) /\ Waiting' = Append(Waiting, m)
        BY DEF Shape, WaitsOn, Leaves, Enters, Tried, Untried
      <3> QED BY <3>1, <3>2, <3>3
    <2>2. Untried(x) => Copies(x) = 0
      BY InvTypes, CopiesType DEF QueueInv, UntriedIsNowhere
    <2>3. Copies(x) <= lost[x]
      BY <2>1, <2>2, RoomOf
    <2> QED BY <2>3, RoomOf
  <1> QED BY <1>1, <1>2

-----------------------------------------------------------------------------
(* The types.                                                              *)

HandKnown == replay.at \in {"fetch", "tell", "restore"} => replay.m \in Mutations

Marks == {"new", "sending", "failed", "pending", "done", "error"}

LEMMA Marked ==
    ASSUME TypeOK, NEW m \in Mutations, NEW mark \in Marks, sent' = [sent EXCEPT ![m] = mark]
    PROVE  sent' \in [Mutations -> Marks]
  BY DEF TypeOK, Marks

LEMMA TabMoves ==
    ASSUME TypeOK, NEW t, NEW to \in Pages, tab' = [tab EXCEPT ![t] = to]
    PROVE  tab' \in [Tabs -> Pages]
  BY DEF TypeOK

LEMMA ServerTypes ==
    ASSUME TypeOK, NEW m \in Mutations, Unserved \/ Executed(m) \/ Unheard(m)
    PROVE  applied' \in Seq(Mutations) /\ lost' \in [Mutations -> Nat]
  <1>0. applied \in Seq(Mutations) /\ lost \in [Mutations -> Nat]
    BY DEF TypeOK
  <1>1. CASE Unserved
    BY <1>0, <1>1 DEF Unserved
  <1>2. CASE Executed(m)
    BY <1>0, <1>2 DEF Executed
  <1>3. CASE Unheard(m)
    <2>1. applied' \in Seq(Mutations)
      BY <1>0, <1>3 DEF Unheard
    <2>2. lost[m] + 1 \in Nat
      BY <1>0
    <2>3. lost' \in [Mutations -> Nat]
      BY <1>0, <1>3, <2>2 DEF Unheard
    <2> QED BY <2>1, <2>3
  <1> QED BY <1>1, <1>2, <1>3

LEMMA PageTypes ==
    ASSUME QueueInv,
           \/ \E t \in Tabs, m \in Mutations : Submit(t, m)
           \/ \E m \in Mutations : Answered(m) \/ Queued(m) \/ Caught(m)
    PROVE  TypeOK' /\ HandKnown'
  <1>0. TypeOK /\ HandKnown
    BY DEF QueueInv, HandKnown
  <1>1. ASSUME NEW t \in Tabs, NEW m \in Mutations, Submit(t, m)
        PROVE  TypeOK' /\ HandKnown'
    BY <1>0, <1>1 DEF Submit, TypeOK, HandKnown, page, worker, server
  <1>2. ASSUME NEW m \in Mutations, Answered(m)
        PROVE  TypeOK' /\ HandKnown'
    <2>1. PICK ok \in BOOLEAN :
              /\ Serve(m, ok)
              /\ sent' = [sent EXCEPT ![m] = IF ok THEN "done" ELSE "error"]
              /\ tab' = IF ok /\ m \in Uploads THEN [tab EXCEPT ![by[m]] = "elsewhere"] ELSE tab
      BY <1>2 DEF Answered
    <2>2. applied' \in Seq(Mutations) /\ lost' \in [Mutations -> Nat]
      BY <1>0, <2>1, ServeShape, ServerTypes
    <2>3. (IF ok THEN "done" ELSE "error") \in Marks
      BY DEF Marks
    <2>4. sent' \in [Mutations -> Marks]
      BY <1>0, <2>1, <2>3, Marked
    <2>5. "elsewhere" \in Pages /\ tab \in [Tabs -> Pages]
      BY <1>0 DEF Pages, TypeOK
    <2>6. tab' \in [Tabs -> Pages]
      BY <1>0, <2>1, <2>5, TabMoves
    <2> QED BY <1>0, <1>2, <2>2, <2>4, <2>6 DEF Answered, TypeOK, HandKnown, worker, Marks
  <1>3. ASSUME NEW m \in Mutations, Queued(m)
        PROVE  TypeOK' /\ HandKnown'
    <2>1. applied' \in Seq(Mutations) /\ lost' \in [Mutations -> Nat]
      BY <1>0, <1>3, FailsShape, ServerTypes DEF Queued
    <2>2. queue' \in Seq(Mutations) /\ queued' \in Seq(Mutations)
      BY <1>0, <1>3 DEF Queued, TypeOK
    <2>3. registered' \in BOOLEAN /\ late' \in BOOLEAN
      <3>1. registered \in BOOLEAN /\ late \in BOOLEAN
        BY <1>0 DEF TypeOK
      <3> QED BY Zenon, <1>3, <3>1 DEF Queued
    <2>4. "failed" \in Marks
      BY DEF Marks
    <2>5. sent' \in [Mutations -> Marks]
      BY <1>0, <1>3, <2>4, Marked DEF Queued
    <2> QED BY <1>0, <1>3, <2>1, <2>2, <2>3, <2>5 DEF Queued, TypeOK, HandKnown, page, Marks
  <1>4. ASSUME NEW m \in Mutations, Caught(m)
        PROVE  TypeOK' /\ HandKnown'
    <2>1. pending' \in Seq(Uploads)
      <3>1. pending' = pending \/ (m \in Uploads /\ pending' = Append(pending, m))
        BY Zenon, <1>4 DEF Caught
      <3>2. pending \in Seq(Uploads)
        BY <1>0 DEF TypeOK
      <3> QED BY <3>1, <3>2
    <2>2. "dashboard" \in Pages /\ "pending" \in Marks /\ "error" \in Marks
      BY DEF Pages, Marks
    <2>3. tab' \in [Tabs -> Pages]
      <3>1. tab' = [tab EXCEPT ![by[m]] = "dashboard"] \/ tab' = tab
        BY <1>4 DEF Caught
      <3> QED BY <1>0, <2>2, <3>1, TabMoves DEF TypeOK
    <2>4. sent' \in [Mutations -> Marks]
      BY <1>0, <1>4, <2>2, Marked DEF Caught
    <2> QED BY <1>0, <1>4, <2>1, <2>3, <2>4 DEF Caught, TypeOK, HandKnown, worker, server, Marks
  <1> QED BY <1>1, <1>2, <1>3, <1>4

LEMMA SyncTypes ==
    ASSUME QueueInv, Sync \/ WorkerKilled
    PROVE  TypeOK' /\ HandKnown'
  <1>0. TypeOK /\ HandKnown /\ queue \in Seq(Mutations) /\ replay \in Replays
    BY DEF QueueInv, HandKnown, TypeOK
  <1>1. Idle \in Replays /\ [Idle EXCEPT !.at = "shift"] \in Replays
    BY DEF Idle, Replays
  <1>2. CASE SyncStarts
    BY <1>0, <1>1, <1>2 DEF SyncStarts, TypeOK, HandKnown, Idle, page, server
  <1>3. CASE ReplayShift
    <2>0. registered \in BOOLEAN /\ late \in BOOLEAN
      BY <1>0 DEF TypeOK
    <2>1. registered' \in BOOLEAN /\ late' \in BOOLEAN
      BY Zenon, <1>3, <2>0 DEF ReplayShift
    <2>2. queue' \in Seq(Mutations)
      BY <1>0, <1>3 DEF ReplayShift
    <2>3. ASSUME queue # <<>>
          PROVE  /\ Head(queue) \in Mutations
                 /\ [at |-> "fetch", m |-> Head(queue), ok |-> FALSE] \in Replays
      BY <1>0, <2>3 DEF Replays
    <2>4. replay' \in Replays /\ HandKnown'
      <3>1. \/ replay' = replay \/ replay' = Idle
            \/ /\ queue # <<>>
               /\ replay' = [at |-> "fetch", m |-> Head(queue), ok |-> FALSE]
        BY Zenon, <1>3 DEF ReplayShift
      <3>2. CASE replay' = replay
        BY <1>0, <3>2 DEF HandKnown
      <3>3. CASE replay' = Idle
        BY <1>1, <3>3 DEF HandKnown, Idle
      <3>4. CASE queue # <<>> /\ replay' = [at |-> "fetch", m |-> Head(queue), ok |-> FALSE]
        <4>1. replay'.m = Head(queue)
          BY <3>4
        <4> QED BY <2>3, <3>4, <4>1 DEF HandKnown
      <3> QED BY <3>1, <3>2, <3>3, <3>4
    <2> QED BY <1>0, <1>3, <2>1, <2>2, <2>4 DEF ReplayShift, TypeOK, page, server
  <1>4. CASE ReplayAnswered
    <2>1. PICK ok \in BOOLEAN : /\ Serve(replay.m, ok)
                               /\ replay' = [replay EXCEPT !.at = "tell", !.ok = ok]
      BY <1>4 DEF ReplayAnswered
    <2>2. replay.m \in Mutations
      BY <1>0, <1>4 DEF ReplayAnswered, HandKnown
    <2>3. applied' \in Seq(Mutations) /\ lost' \in [Mutations -> Nat]
      BY <1>0, <2>1, <2>2, ServeShape, ServerTypes
    <2>4. replay' = [at |-> "tell", m |-> replay.m, ok |-> ok]
      BY <1>0, <2>1 DEF Replays
    <2>5. replay' \in Replays /\ replay'.m = replay.m
      BY <2>2, <2>4 DEF Replays
    <2> QED BY <1>0, <1>4, <2>2, <2>3, <2>5 DEF ReplayAnswered, TypeOK, HandKnown, page
  <1>5. CASE ReplayFails
    <2>1. replay.m \in Mutations /\ replay' \in Replays /\ replay'.m = replay.m
      BY <1>0, <1>5 DEF ReplayFails, HandKnown, Replays
    <2>2. applied' \in Seq(Mutations) /\ lost' \in [Mutations -> Nat]
      BY <1>0, <1>5, <2>1, FailsShape, ServerTypes DEF ReplayFails
    <2> QED BY <1>0, <1>5, <2>1, <2>2 DEF ReplayFails, TypeOK, HandKnown, page
  <1>6. CASE ReplayTell
    <2>1. inbox' \in [Tabs -> Seq(Uploads)]
      BY <1>0, <1>6 DEF ReplayTell, TypeOK
    <2> QED BY <1>0, <1>1, <1>6, <2>1 DEF ReplayTell, TypeOK, HandKnown, Idle, server
  <1>7. CASE ReplayRestore
    <2>1. queue' \in Seq(Mutations)
      BY <1>0, <1>7 DEF ReplayRestore, HandKnown
    <2> QED BY <1>0, <1>1, <1>7, <2>1 DEF ReplayRestore, TypeOK, HandKnown, Idle, page, server
  <1>8. CASE WorkerKilled
    BY <1>0, <1>1, <1>8 DEF WorkerKilled, TypeOK, HandKnown, Idle, page, server
  <1> QED BY <1>2, <1>3, <1>4, <1>5, <1>6, <1>7, <1>8 DEF Sync

LEMMA StepTypes ==
    ASSUME QueueInv, [Next]_vars
    PROVE  TypeOK' /\ HandKnown'
  <1>0. TypeOK /\ HandKnown
    BY DEF QueueInv, HandKnown
  <1>1. ASSUME NEW t \in Tabs, Dispatch(t)
        PROVE  TypeOK' /\ HandKnown'
    <2>1. inbox' \in [Tabs -> Seq(Uploads)] /\ pending' \in Seq(Uploads)
      BY <1>0, <1>1 DEF Dispatch, TypeOK
    <2> QED BY <1>0, <1>1, <2>1 DEF Dispatch, TypeOK, HandKnown, worker, server
  <1>2. ASSUME NEW t \in Tabs, NEW to \in Pages, Navigate(t, to)
        PROVE  TypeOK' /\ HandKnown'
    BY <1>0, <1>2 DEF Navigate, TypeOK, HandKnown, worker, server
  <1>3. ASSUME NEW to \in Nets, NetChanges(to)
        PROVE  TypeOK' /\ HandKnown'
    BY <1>0, <1>3 DEF NetChanges, TypeOK, HandKnown, page, worker, server
  <1>4. CASE UNCHANGED vars
    BY <1>0, <1>4 DEF vars, TypeOK, HandKnown, page, worker, server
  <1> QED BY <1>1, <1>2, <1>3, <1>4, PageTypes, SyncTypes DEF Next

-----------------------------------------------------------------------------

LEMMA InitInv == Init => QueueInv
  <1> SUFFICES ASSUME Init
               PROVE  QueueInv
    OBVIOUS
  <1>1. TypeOK
    <2>1. Idle \in Replays
      BY DEF Idle, Replays
    <2>2. <<>> \in Seq(Uploads) /\ <<>> \in Seq(Mutations)
      OBVIOUS
    <2> QED BY <2>1, <2>2 DEF Init, TypeOK, Nets, Pages
  <1>2. Waiting = <<>> /\ queued = <<>> /\ applied = <<>>
    BY DEF Init, Waiting, Idle
  <1>3. WaitsInOrder /\ Once(queued) /\ UntriedIsNowhere /\ WaitingHasRoom
    BY <1>2 DEF WaitsInOrder, Once, UntriedIsNowhere, WaitingHasRoom, Has
  <1>4. \A m \in Mutations : Copies(m) = 0 /\ lost[m] = 0
    BY <1>1, <1>2, CopiesType DEF TypeOK, Has, Init
  <1> QED BY <1>1, <1>3, <1>4 DEF QueueInv, RepeatsBounded, Init, Idle

\* The queue and the server stay as QueueInv says, whatever the network, the
\* pages and the worker do.
THEOREM Invariance == Spec => []QueueInv
  <1>1. QueueInv /\ [Next]_vars => QueueInv'
    <2> SUFFICES ASSUME QueueInv, [Next]_vars
                 PROVE  QueueInv'
      OBVIOUS
    <2>1. Shape
      BY StepShape
    <2> QED BY <2>1, StepTypes, OrderKept, NowhereKept, RoomKept DEF QueueInv, HandKnown
  <1> QED BY <1>1, InitInv, PTL DEF Spec

\* What waits in the worker is the end of what was queued, in that order: no
\* restart, expiry or restored entry reorders it (push-handler.ts onSync).
THEOREM OrderKeptAlways == Spec => []WaitsInOrder
  <1>1. QueueInv => WaitsInOrder
    BY DEF QueueInv
  <1> QED BY <1>1, Invariance, PTL

\* No mutation is executed twice unless an answer to it got lost, once for each
\* repetition (push-handler.ts: an entry is shifted before it is sent, and goes
\* back only when the request threw).
THEOREM RepeatsAreLostAnswers == Spec => []RepeatNeedsLostAnswer
  <1>1. QueueInv => RepeatNeedsLostAnswer
    BY DEF QueueInv, RepeatsBounded, RepeatNeedsLostAnswer
  <1> QED BY <1>1, Invariance, PTL

-----------------------------------------------------------------------------
(* The worker and the pages implement Outbox.                              *)

\* What a page still tries to hand over is new to the outbox.
LEMMA TriedIsNew ==
    ASSUME QueueInv, NEW m \in Mutations, Tried(m)
    PROVE  Promise!New(m)
  BY DEF QueueInv, UntriedIsNowhere, Tried, Untried, Promise!New, Promise!Has, Has

\* Each shape of a step is one step of the outbox, or none.
LEMMA OutboxStep ==
    ASSUME QueueInv, [Next]_vars
    PROVE  [Promise!Next]_(Promise!vars)
  <1>1. Shape
    BY StepShape
  <1>2. CASE Unserved /\ WaitsOn
    BY <1>2 DEF Unserved, WaitsOn, Promise!vars
  <1>3. CASE Unserved /\ Leaves
    <2>1. Promise!Drop
      BY <1>3 DEF Unserved, Leaves, Promise!Drop
    <2> QED BY <2>1 DEF Promise!Next
  <1>4. ASSUME NEW m \in Mutations, Tried(m), Executed(m), WaitsOn
        PROVE  Promise!Next
    <2>1. Promise!Pass(m)
      BY <1>4, TriedIsNew DEF Executed, WaitsOn, Promise!Pass, Promise!Executed
    <2> QED BY <2>1 DEF Promise!Next
  <1>5. ASSUME NEW m \in Mutations, Tried(m), Unserved \/ Unheard(m), Enters(m)
        PROVE  Promise!Next
    <2>1. Promise!Keep(m)
      BY <1>5, TriedIsNew DEF Unserved, Unheard, Enters, Promise!Keep, Promise!Unheard
    <2> QED BY <2>1 DEF Promise!Next
  <1>6. CASE Executed(Head(Waiting)) /\ Leaves
    <2>1. Promise!Send
      BY <1>6 DEF Executed, Leaves, Promise!Send, Promise!Executed
    <2> QED BY <2>1 DEF Promise!Next
  <1>7. CASE Unheard(Head(Waiting)) /\ WaitsOn /\ Waiting # <<>>
    <2>1. Promise!SendUnheard
      BY <1>7 DEF Unheard, WaitsOn, Promise!SendUnheard, Promise!Unheard
    <2> QED BY <2>1 DEF Promise!Next
  <1> QED BY <1>1, <1>2, <1>3, <1>4, <1>5, <1>6, <1>7 DEF Shape

\* The queue with its interrupted, restored and expired entries, and the pages that
\* feed it, implement the outbox (push-handler.ts:147-171).
THEOREM Refinement == Spec => ImplementsOutbox
  <1>1. Init => Promise!Init
    BY DEF Init, Promise!Init, Waiting, Idle
  <1>2. QueueInv /\ [Next]_vars => [Promise!Next]_(Promise!vars)
    BY OutboxStep
  <1> QED BY <1>1, <1>2, Invariance, PTL DEF Spec, ImplementsOutbox, Promise!Spec
=============================================================================
