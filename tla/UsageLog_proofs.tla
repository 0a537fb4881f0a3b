--------------------------- MODULE UsageLog_proofs ---------------------------
(***************************************************************************)
(* Proofs about UsageLog, for any requests and bounds.  EventsAccountedFor *)
(* is inductive beside the types, once it is known that a request that     *)
(* finished stays answered (Answered), so that none finishes twice, and     *)
(* that a new row's id is larger than those in the table (LastIdIsLast).    *)
(***************************************************************************)
EXTENDS UsageLog, TLAPS, SequenceTheorems, WellFoundedInduction

(* What a request that left an event went through. *)
Answered == \A q \in ToSet(finished) : pc[q] = "answered"

(* Ids are bounded. *)
Numbered == \E n \in Nat : \A row \in usage : row.id <= n

IInv == TypeOK /\ Answered /\ Numbered /\ EventsAccountedFor

USE SizesAssumption, TimeAssumption

-----------------------------------------------------------------------------
(* Lemmas about numbers and sequences. *)

LEMMA LeastNumber ==
  ASSUME NEW S \in SUBSET Nat, S # {}
  PROVE \E n \in S : \A m \in S : n <= m
<1> DEFINE R == OpToRel(<, Nat)
<1>1. IsWellFoundedOn(R, Nat)
  BY NatLessThanWellFounded
<1>2. \A m, n \in Nat : m < n => <<m, n>> \in R
  BY DEF OpToRel
<1> HIDE DEF R
<1>3. PICK n \in S : \A m \in S : ~ (<<m, n>> \in R)
  BY <1>1, WFMin
<1>4. \A m \in S : ~ (m < n)
  BY <1>2, <1>3, Zenon
<1> QED
  BY <1>4

(* A bounded set of numbers has a largest. *)
LEMMA LargestNumber ==
  ASSUME NEW S \in SUBSET Nat, S # {}, NEW b \in Nat, \A m \in S : m <= b
  PROVE Max(S) \in S /\ \A m \in S : m <= Max(S)
<1> DEFINE Bounds == {n \in Nat : \A m \in S : m <= n}
<1>1. PICK n \in Bounds : \A k \in Bounds : n <= k
  BY LeastNumber
<1>2. n \in S
  <2> SUFFICES ASSUME n \notin S PROVE FALSE
    OBVIOUS
  <2>1. \A m \in S : m <= n - 1 /\ n - 1 \in Nat
    OBVIOUS
  <2>2. n - 1 \in Bounds
    BY <2>1
  <2> QED
    BY <1>1, <2>2
<1>3. \E x \in S : \A y \in S : x >= y
  BY <1>2
<1> QED
  BY <1>3 DEF Max

(* New rows are numbered after all that are there. *)
LEMMA LastIdIsLast ==
  ASSUME TypeOK, Numbered
  PROVE LastId \in Nat /\ \A row \in usage : row.id <= LastId
<1> DEFINE Ids == {row.id : row \in usage}
<1>1. Ids \in SUBSET Nat
  BY DEF TypeOK
<1>2. CASE usage = {}
  BY <1>2 DEF LastId
<1>3. CASE usage # {}
  <2>1. PICK b \in Nat : \A m \in Ids : m <= b
    BY DEF Numbered
  <2>2. Ids # {}
    BY <1>3
  <2> HIDE DEF Ids
  <2>3. Max(Ids) \in Ids /\ \A m \in Ids : m <= Max(Ids)
    BY <1>1, <2>1, <2>2, LargestNumber
  <2>4. LastId = Max(Ids)
    BY <1>3 DEF LastId, Ids
  <2> QED
    BY <1>1, <2>3, <2>4 DEF Ids
<1> QED
  BY <1>2, <1>3

LEMMA ToSetOfConcat ==
  ASSUME NEW S, NEW s \in Seq(S), NEW t \in Seq(S)
  PROVE ToSet(s \o t) = ToSet(s) \cup ToSet(t)
<1>1. \A f : ToSet(f) = Range(f)
  BY Zenon DEF ToSet, Range
<1> QED
  BY <1>1, RangeConcatenation

LEMMA ToSetOfAppend ==
  ASSUME NEW S, NEW s \in Seq(S), NEW x \in S
  PROVE ToSet(Append(s, x)) = ToSet(s) \cup {x}
<1>1. DOMAIN Append(s, x) = 1..(Len(s) + 1) /\ DOMAIN s = 1..Len(s)
  OBVIOUS
<1>2. \A i \in 1..Len(s) : Append(s, x)[i] = s[i]
  OBVIOUS
<1>3. Append(s, x)[Len(s) + 1] = x /\ Len(s) \in Nat
  OBVIOUS
<1>4. 1..(Len(s) + 1) = 1..Len(s) \cup {Len(s) + 1}
  BY <1>3
<1> QED
  BY <1>1, <1>2, <1>3, <1>4 DEF ToSet

LEMMA AppendElements ==
  ASSUME NEW S, NEW s \in Seq(S), NEW x \in S
  PROVE /\ DOMAIN Append(s, x) = DOMAIN s \cup {Len(s) + 1}
        /\ \A i \in DOMAIN s : i \in Nat /\ Append(s, x)[i] = s[i] /\ i < Len(s) + 1
        /\ Append(s, x)[Len(s) + 1] = x
        /\ Len(s) \in Nat
<1>1. DOMAIN Append(s, x) = 1..(Len(s) + 1) /\ DOMAIN s = 1..Len(s) /\ Len(s) \in Nat
  OBVIOUS
<1>2. \A i \in 1..Len(s) : Append(s, x)[i] = s[i]
  OBVIOUS
<1>3. Append(s, x)[Len(s) + 1] = x
  OBVIOUS
<1> QED
  BY <1>1, <1>2, <1>3

LEMMA ElementsInSet ==
  ASSUME NEW S, NEW s \in Seq(S)
  PROVE ToSet(s) \subseteq S
BY DEF ToSet

-----------------------------------------------------------------------------
(* The order in which requests were answered. *)

LEMMA NotBeforeItself ==
  ASSUME TypeOK, NEW q PROVE ~ AnsweredBefore(q, q)
BY DEF TypeOK, AnsweredBefore, IsInjective

(* One more answer comes after all earlier ones, which keep their order. *)
LEMMA AnswerIsLast ==
  ASSUME TypeOK, NEW q \in Requests, finished' = Append(finished, q)
  PROVE /\ \A a, b : AnsweredBefore(a, b) => AnsweredBefore(a, b)'
        /\ \A a \in ToSet(finished) : AnsweredBefore(a, q)'
<1>1. /\ DOMAIN finished' = 1..(Len(finished) + 1) /\ DOMAIN finished = 1..Len(finished)
      /\ Len(finished) \in Nat
  BY DEF TypeOK
<1>2. \A i \in DOMAIN finished : i \in DOMAIN finished' /\ finished'[i] = finished[i]
  BY SMTT(30) DEF TypeOK
<1>3. finished'[Len(finished) + 1] = q /\ Len(finished) + 1 \in DOMAIN finished'
  BY <1>1 DEF TypeOK
<1>4. \A i \in DOMAIN finished : i < Len(finished) + 1
  BY <1>1
<1>5. ASSUME NEW a, NEW b, AnsweredBefore(a, b) PROVE AnsweredBefore(a, b)'
  BY <1>2, <1>5 DEF AnsweredBefore
<1>6. ASSUME NEW a \in ToSet(finished) PROVE AnsweredBefore(a, q)'
  BY <1>2, <1>3, <1>4 DEF AnsweredBefore, ToSet
<1> QED
  BY <1>5, <1>6

(* An event is in one place only. *)
LEMMA OnePlace ==
  ASSUME TypeOK, EventsAccountedFor
  PROVE /\ \A row \in usage : row.event \notin ToSet(Unlogged)
        /\ \A a, b \in usage : a.event = b.event => a = b
        /\ ToSet(Unlogged) = ToSet(batch) \cup ToSet(queue)
        /\ ToSet(batch) \cap ToSet(queue) = {}
<1>1. \A row \in usage : row.event \notin ToSet(Unlogged)
  BY NotBeforeItself DEF EventsAccountedFor
<1>2. ASSUME NEW a \in usage, NEW b \in usage, a.event = b.event PROVE a = b
  <2>1. ~ (a.id < b.id) /\ ~ (b.id < a.id)
    BY <1>2, NotBeforeItself DEF EventsAccountedFor
  <2>2. a.id \in Nat /\ b.id \in Nat
    BY DEF TypeOK
  <2>3. a.id = b.id
    BY <2>1, <2>2
  <2> QED
    BY <2>3 DEF TypeOK
<1>3. ToSet(Unlogged) = ToSet(batch) \cup ToSet(queue)
  BY ToSetOfConcat DEF TypeOK, Unlogged
<1>4. ToSet(batch) \cap ToSet(queue) = {}
  <2> SUFFICES ASSUME NEW i \in DOMAIN batch, NEW k \in DOMAIN queue, batch[i] = queue[k]
               PROVE FALSE
    BY DEF ToSet
  <2>1. batch \in Seq(Requests) /\ queue \in Seq(Requests)
    BY DEF TypeOK
  <2>2. /\ i \in DOMAIN Unlogged /\ Len(batch) + k \in DOMAIN Unlogged
        /\ i < Len(batch) + k
        /\ Unlogged[i] = batch[i] /\ Unlogged[Len(batch) + k] = queue[k]
    BY <2>1 DEF Unlogged
  <2> QED
    BY <2>2, NotBeforeItself DEF EventsAccountedFor
<1> QED
  BY <1>1, <1>2, <1>3, <1>4

(* The batch and the queue are each in order, and the batch is before the queue. *)
LEMMA PlacesInOrder ==
  ASSUME TypeOK, EventsAccountedFor
  PROVE /\ \A i, k \in DOMAIN batch : i < k => AnsweredBefore(batch[i], batch[k])
        /\ \A i, k \in DOMAIN queue : i < k => AnsweredBefore(queue[i], queue[k])
        /\ \A q \in ToSet(batch), r \in ToSet(queue) : AnsweredBefore(q, r)
<1>1. batch \in Seq(Requests) /\ queue \in Seq(Requests)
  BY DEF TypeOK
<1>2. \A i \in DOMAIN batch : i \in DOMAIN Unlogged /\ Unlogged[i] = batch[i]
  BY <1>1 DEF Unlogged
<1>3. \A k \in DOMAIN queue : /\ Len(batch) + k \in DOMAIN Unlogged
                             /\ Unlogged[Len(batch) + k] = queue[k]
  BY <1>1 DEF Unlogged
<1>4. /\ \A i, k \in DOMAIN queue : i < k => Len(batch) + i < Len(batch) + k
      /\ \A i \in DOMAIN batch, k \in DOMAIN queue : i < Len(batch) + k
  BY <1>1
<1>5. \A i, k \in DOMAIN Unlogged : i < k => AnsweredBefore(Unlogged[i], Unlogged[k])
  BY DEF EventsAccountedFor
<1>6. ASSUME NEW i \in DOMAIN batch, NEW k \in DOMAIN batch, i < k
      PROVE AnsweredBefore(batch[i], batch[k])
  BY <1>2, <1>5, <1>6, Zenon
<1>7. ASSUME NEW i \in DOMAIN queue, NEW k \in DOMAIN queue, i < k
      PROVE AnsweredBefore(queue[i], queue[k])
  BY <1>3, <1>4, <1>5, <1>7, Zenon
<1>8. ASSUME NEW i \in DOMAIN batch, NEW k \in DOMAIN queue
      PROVE AnsweredBefore(batch[i], queue[k])
  BY <1>2, <1>3, <1>4, <1>5, Zenon
<1> QED
  BY <1>6, <1>7, <1>8 DEF ToSet

(* What a batch and the rest of the queue were before is what they are after. *)
LEMMA SplitQueue ==
  ASSUME NEW s \in Seq(Requests), NEW n \in 0..Len(s)
  PROVE /\ SubSeq(s, 1, n) \in Seq(Requests) /\ Len(SubSeq(s, 1, n)) = n
        /\ SubSeq(s, n + 1, Len(s)) \in Seq(Requests)
        /\ Len(SubSeq(s, n + 1, Len(s))) = Len(s) - n
        /\ SubSeq(s, 1, n) \o SubSeq(s, n + 1, Len(s)) = s
<1>1. /\ SubSeq(s, 1, n) \in Seq(Requests) /\ Len(SubSeq(s, 1, n)) = n
      /\ SubSeq(s, n + 1, Len(s)) \in Seq(Requests)
      /\ Len(SubSeq(s, n + 1, Len(s))) = Len(s) - n
  OBVIOUS
<1>2. SubSeq(s, 1, n) \o SubSeq(s, n + 1, Len(s)) = SubSeq(s, 1, Len(s))
  <2>1. 1 \in 1..Len(s) + 1 /\ n \in 1 - 1..Len(s) /\ Len(s) \in n..Len(s)
    OBVIOUS
  <2> QED
    BY <2>1, ConcatAdjacentSubSeq, Zenon
<1>3. SubSeq(s, 1, Len(s)) = s
  BY SubSeqFull
<1> QED
  BY <1>1, <1>2, <1>3

-----------------------------------------------------------------------------
(* The invariant holds at first, and each kind of step keeps it. *)

LEMMA InitInv == Init => IInv
<1> SUFFICES ASSUME Init PROVE IInv
  OBVIOUS
<1>1. TypeOK
  <2>1. /\ Len(queue) = 0 /\ Len(batch) = 0 /\ DOMAIN finished = {}
        /\ \A s \in {queue, batch, finished} : s \in Seq(Requests)
    BY DEF Init
  <2>2. pc \in [Requests -> InFlight \cup {"new", "answered", "refused", "gone"}]
    BY DEF Init
  <2>3. IsInjective(finished) /\ lost \subseteq ToSet(finished)
    BY <2>1 DEF Init, IsInjective
  <2>4. batch # <<>> <=> writer \in {"begin", "write"}
    BY DEF Init
  <2>5. lock = (writer = "write") /\ writer \in {"idle", "begin", "write", "prune"}
    BY DEF Init
  <2>6. Len(queue) <= Capacity /\ Len(batch) <= MaxBatch
    BY <2>1
  <2>7. /\ usage \subseteq [id : Nat, event : Requests, ts : 0..MaxTime]
        /\ \A a, b \in usage : a.id = b.id => a = b
    BY DEF Init
  <2>8. now \in 0..MaxTime /\ prune \in 0..(MaxTime + 1) /\ crashes \in 0..MaxCrashes
    BY DEF Init
  <2> QED
    BY <2>1, <2>2, <2>3, <2>4, <2>5, <2>6, <2>7, <2>8 DEF TypeOK
<1>2. DOMAIN Unlogged = {}
  BY DEF Init, Unlogged
<1>3. ToSet(Unlogged) = {} /\ ToSet(finished) = {}
  BY <1>2 DEF Init, ToSet
<1>4. Answered /\ Numbered
  BY <1>3 DEF Init, Answered, Numbered
<1>5. EventsAccountedFor
  BY <1>2, <1>3 DEF Init, EventsAccountedFor
<1> QED
  BY <1>1, <1>4, <1>5 DEF IInv

(* Steps that touch no event. *)
Unchanged == UNCHANGED <<usage, batch, queue, finished, lost>>

LEMMA NothingMoved == ASSUME EventsAccountedFor, Unchanged PROVE EventsAccountedFor'
<1>1. \A a, b : AnsweredBefore(a, b)' <=> AnsweredBefore(a, b)
  BY DEF Unchanged, AnsweredBefore
<1>2. UNCHANGED <<usage, finished, lost>> /\ Unlogged' = Unlogged
  BY DEF Unchanged, Unlogged
<1> QED
  BY <1>1, <1>2 DEF EventsAccountedFor

(* A call with a key is answered. *)
LEMMA AnswerKeepsEvents ==
  ASSUME IInv, NEW q \in Requests, pc[q] = "key_call", AnswerCall(q)
  PROVE EventsAccountedFor'
<1>1. /\ finished' = Append(finished, q) /\ UNCHANGED <<usage, batch>>
      /\ \/ queue' = Append(queue, q) /\ lost' = lost
         \/ queue' = queue /\ lost' = lost \cup {q}
  BY DEF AnswerCall, Record
<1>2. queue \in Seq(Requests) /\ batch \in Seq(Requests) /\ finished \in Seq(Requests)
  BY DEF IInv, TypeOK
<1>3. lost \subseteq ToSet(finished)
  BY DEF IInv, TypeOK
<1>4. q \notin ToSet(finished)
  BY DEF IInv, Answered
<1>5. ToSet(finished') = ToSet(finished) \cup {q}
  BY <1>1, <1>2, ToSetOfAppend
<1>6. /\ \A a, b : AnsweredBefore(a, b) => AnsweredBefore(a, b)'
      /\ \A a \in ToSet(finished) : AnsweredBefore(a, q)'
  BY <1>1, AnswerIsLast DEF IInv
<1>7. Unlogged \in Seq(Requests)
  BY <1>2 DEF Unlogged
<1>8. CASE queue' = queue /\ lost' = lost \cup {q}
  <2>1. Unlogged' = Unlogged
    BY <1>1, <1>8 DEF Unlogged
  <2>2. ToSet(finished') \ lost' = ToSet(finished) \ lost
    BY <1>4, <1>5, <1>8
  <2> QED
    BY <1>1, <1>6, <2>1, <2>2 DEF IInv, EventsAccountedFor
<1>9. CASE queue' = Append(queue, q) /\ lost' = lost
  <2>1. Unlogged' = Append(Unlogged, q)
    <3>1. batch \o Append(queue, q) = Append(batch \o queue, q)
      <4>1. batch \o (queue \o <<q>>) = (batch \o queue) \o <<q>>
        BY <1>2, ConcatAssociative
      <4> QED
        BY <1>2, <1>7, <4>1, AppendIsConcat DEF Unlogged
    <3> QED
      BY <1>1, <1>9, <3>1 DEF Unlogged
  <2>2. ToSet(Unlogged') = ToSet(Unlogged) \cup {q}
    BY <1>7, <2>1, ToSetOfAppend
  <2>3. /\ \A row \in usage : row.event \in ToSet(finished)
        /\ ToSet(Unlogged) \subseteq ToSet(finished)
    BY DEF IInv, EventsAccountedFor
  <2>4. {row.event : row \in usage'} \cup ToSet(Unlogged') = ToSet(finished') \ lost'
    BY <1>1, <1>3, <1>4, <1>5, <1>9, <2>2 DEF IInv, EventsAccountedFor
  <2>5. ASSUME NEW a \in usage', NEW b \in usage', a.id < b.id
        PROVE AnsweredBefore(a.event, b.event)'
    <3>1. AnsweredBefore(a.event, b.event)
      BY <1>1, <2>5 DEF IInv, EventsAccountedFor
    <3> QED
      BY <1>6, <3>1
  <2>6. ASSUME NEW row \in usage', NEW r \in ToSet(Unlogged')
        PROVE AnsweredBefore(row.event, r)'
    <3>1. CASE r = q
      BY <1>1, <1>6, <2>3, <3>1
    <3>2. CASE r \in ToSet(Unlogged)
      <4>1. AnsweredBefore(row.event, r)
        BY <1>1, <3>2 DEF IInv, EventsAccountedFor
      <4> QED
        BY <1>6, <4>1
    <3> QED
      BY <2>2, <3>1, <3>2
  <2>7. ASSUME NEW i \in DOMAIN Unlogged', NEW k \in DOMAIN Unlogged', i < k
        PROVE AnsweredBefore(Unlogged[i], Unlogged[k])'
    <3> DEFINE u == Unlogged
               w == Unlogged'
    <3>1. /\ DOMAIN w = DOMAIN u \cup {Len(u) + 1}
          /\ \A m \in DOMAIN u : m \in Nat /\ w[m] = u[m] /\ m < Len(u) + 1
          /\ w[Len(u) + 1] = q /\ Len(u) \in Nat
      BY <1>7, <2>1, AppendElements
    <3>2. \A a, b \in DOMAIN u : a < b => AnsweredBefore(u[a], u[b])
      BY DEF IInv, EventsAccountedFor
    <3>3. \A a \in DOMAIN u : u[a] \in ToSet(finished)
      BY <2>3 DEF ToSet
    <3> SUFFICES \A a, b : a = w[i] /\ b = w[k] => AnsweredBefore(a, b)'
      OBVIOUS
    <3> HIDE DEF u, w
    <3>4. i \in DOMAIN w /\ k \in DOMAIN w
      BY <2>7 DEF w
    <3>5. i \in DOMAIN u
      BY <2>7, <3>1, <3>4
    <3>6. CASE k \in DOMAIN u
      BY <1>6, <2>7, <3>1, <3>2, <3>5, <3>6
    <3>7. CASE k = Len(u) + 1
      BY <1>6, <3>1, <3>3, <3>5, <3>7
    <3> QED
      BY <3>1, <3>4, <3>6, <3>7
  <2> QED
    BY <2>4, <2>5, <2>6, <2>7 DEF EventsAccountedFor
<1> QED
  BY <1>1, <1>8, <1>9

(* A batch is taken off the queue. *)
LEMMA ReceiveMoves ==
  ASSUME TypeOK, Receive
  PROVE /\ batch' \in Seq(Requests) /\ Len(batch') <= MaxBatch /\ batch' # <<>>
        /\ queue' \in Seq(Requests) /\ Len(queue') <= Capacity
        /\ Unlogged' = Unlogged
<1>1. /\ queue \in Seq(Requests) /\ queue # <<>> /\ Len(queue) <= Capacity
      /\ Capacity \in Nat /\ MaxBatch \in Nat \ {0} /\ batch = <<>>
  BY DEF TypeOK, Receive
<1>2. Len(queue) \in Nat \ {0}
  BY <1>1
<1> DEFINE n == IF Len(queue) < MaxBatch THEN Len(queue) ELSE MaxBatch
<1>3. /\ n \in 1..Len(queue) /\ n <= MaxBatch
      /\ batch' = SubSeq(queue, 1, n)
      /\ queue' = SubSeq(queue, n + 1, Len(queue))
  BY <1>1, <1>2 DEF Receive
<1> HIDE DEF n
<1>4. /\ batch' \in Seq(Requests) /\ Len(batch') = n
      /\ queue' \in Seq(Requests) /\ Len(queue') = Len(queue) - n
      /\ batch' \o queue' = queue
  <2>1. n \in 0..Len(queue)
    BY <1>2, <1>3
  <2> QED
    BY <1>1, <1>3, <2>1, SplitQueue
<1>5. Unlogged' = Unlogged
  BY <1>1, <1>4 DEF Unlogged
<1>6. batch' # <<>> /\ Len(queue') <= Capacity
  <2>1. Len(batch') # 0 /\ Len(queue') <= Capacity
    BY <1>1, <1>2, <1>3, <1>4
  <2> QED
    BY <2>1
<1> QED
  BY <1>3, <1>4, <1>5, <1>6

(* The batch becomes rows, with ids after all that are there. *)
LEMMA CommitKeepsEvents ==
  ASSUME IInv, Commit
  PROVE /\ usage' \subseteq [id : Nat, event : Requests, ts : 0..MaxTime]
        /\ \A a, b \in usage' : a.id = b.id => a = b
        /\ Numbered' /\ EventsAccountedFor'
<1> DEFINE Row(i) == [id |-> LastId + i, event |-> batch[i], ts |-> now]
           New == {Row(i) : i \in DOMAIN batch}
<1>1. batch' = <<>> /\ usage' = usage \cup New /\ UNCHANGED <<queue, finished, lost>>
  BY DEF Commit, Finish
<1>2. /\ TypeOK /\ Numbered /\ EventsAccountedFor
      /\ batch \in Seq(Requests) /\ queue \in Seq(Requests) /\ now \in 0..MaxTime
      /\ usage \subseteq [id : Nat, event : Requests, ts : 0..MaxTime]
      /\ \A a, b \in usage : a.id = b.id => a = b
  BY DEF IInv, TypeOK
<1>3. LastId \in Nat /\ \A row \in usage : row.id \in Nat /\ row.id <= LastId
  BY <1>2, LastIdIsLast
<1>4. \A i \in DOMAIN batch : i \in Nat \ {0} /\ i <= Len(batch) /\ batch[i] \in Requests
  BY <1>2
<1>5. ASSUME NEW i \in DOMAIN batch
      PROVE /\ Row(i) \in [id : Nat, event : Requests, ts : 0..MaxTime]
            /\ Row(i).id = LastId + i /\ Row(i).event = batch[i]
            /\ LastId + i > LastId /\ LastId + i \in Nat
  BY <1>2, <1>3, <1>4
<1> HIDE DEF Row
<1>6. usage' \subseteq [id : Nat, event : Requests, ts : 0..MaxTime]
  BY <1>1, <1>2, <1>5
<1>7. ASSUME NEW a \in usage', NEW b \in usage', a.id = b.id PROVE a = b
  <2>1. CASE a \in usage /\ b \in usage
    BY <1>2, <1>7, <2>1
  <2>2. CASE a \in New \/ b \in New
    BY <1>1, <1>3, <1>4, <1>5, <1>7, <2>2, SMTT(30)
  <2> QED
    BY <1>1, <2>1, <2>2
<1>8. Numbered'
  <2>1. Len(batch) \in Nat
    BY <1>2
  <2>2. \A row \in usage' : row.id <= LastId + Len(batch)
    BY <1>1, <1>3, <1>4, <1>5, <2>1
  <2> QED
    BY <1>3, <2>1, <2>2 DEF Numbered
<1>9. \A a, b : AnsweredBefore(a, b)' <=> AnsweredBefore(a, b)
  BY <1>1 DEF AnsweredBefore
<1>10. Unlogged' = queue
  BY <1>1, <1>2 DEF Unlogged
<1>11. ToSet(Unlogged) = ToSet(batch) \cup ToSet(queue)
  BY <1>2, OnePlace
<1>12. /\ \A i, k \in DOMAIN batch : i < k => AnsweredBefore(batch[i], batch[k])
       /\ \A i, k \in DOMAIN queue : i < k => AnsweredBefore(queue[i], queue[k])
       /\ \A q \in ToSet(batch), r \in ToSet(queue) : AnsweredBefore(q, r)
  BY <1>2, PlacesInOrder
<1>13. \A i \in DOMAIN batch : batch[i] \in ToSet(batch)
  BY DEF ToSet
<1>14. {row.event : row \in usage'} \cup ToSet(Unlogged') = ToSet(finished') \ lost'
  <2>1. {row.event : row \in New} = ToSet(batch)
    BY <1>5 DEF ToSet
  <2>2. {row.event : row \in usage'} = {row.event : row \in usage} \cup ToSet(batch)
    BY <1>1, <2>1
  <2> QED
    BY <1>1, <1>2, <1>10, <1>11, <2>2 DEF EventsAccountedFor
<1>15. ASSUME NEW a \in usage', NEW b \in usage', a.id < b.id
       PROVE AnsweredBefore(a.event, b.event)
  <2>1. CASE a \in usage /\ b \in usage
    BY <1>2, <1>15, <2>1 DEF EventsAccountedFor
  <2>2. CASE a \in usage /\ b \in New
    BY <1>2, <1>5, <1>11, <1>13, <2>2 DEF EventsAccountedFor
  <2>3. CASE a \in New /\ b \in usage
    BY <1>3, <1>4, <1>5, <1>15, <2>3
  <2>4. CASE a \in New /\ b \in New
    BY <1>3, <1>4, <1>5, <1>12, <1>15, <2>4, SMTT(30)
  <2> QED
    BY <1>1, <2>1, <2>2, <2>3, <2>4
<1>16. ASSUME NEW row \in usage', NEW q \in ToSet(queue) PROVE AnsweredBefore(row.event, q)
  <2>1. CASE row \in usage
    BY <1>2, <1>11, <2>1 DEF EventsAccountedFor
  <2>2. CASE row \in New
    BY <1>5, <1>12, <1>13, <2>2
  <2> QED
    BY <1>1, <2>1, <2>2
<1>17. EventsAccountedFor'
  BY <1>1, <1>9, <1>10, <1>12, <1>14, <1>15, <1>16 DEF EventsAccountedFor
<1> QED
  BY <1>6, <1>7, <1>8, <1>17

(* What is on its way to the table may be lost, the batch alone or all of it. *)
LEMMA LossKeepsEvents ==
  ASSUME IInv, UNCHANGED <<usage, finished>>, batch' = <<>>,
         \/ queue' = queue /\ lost' = lost \cup ToSet(batch)
         \/ queue' = <<>> /\ lost' = lost \cup ToSet(batch) \cup ToSet(queue)
  PROVE EventsAccountedFor'
<1>1. /\ TypeOK /\ EventsAccountedFor
      /\ batch \in Seq(Requests) /\ queue \in Seq(Requests)
  BY DEF IInv, TypeOK
<1>2. /\ \A row \in usage : row.event \notin ToSet(Unlogged)
      /\ ToSet(Unlogged) = ToSet(batch) \cup ToSet(queue)
      /\ ToSet(batch) \cap ToSet(queue) = {}
  BY <1>1, OnePlace
<1>3. \A i, k \in DOMAIN queue : i < k => AnsweredBefore(queue[i], queue[k])
  BY <1>1, PlacesInOrder
<1>4. \A a, b : AnsweredBefore(a, b)' <=> AnsweredBefore(a, b)
  BY DEF AnsweredBefore
<1>5. Unlogged' = queue'
  BY <1>1 DEF Unlogged
<1>6. ToSet(Unlogged') \subseteq ToSet(queue) /\ DOMAIN Unlogged' \subseteq DOMAIN queue
  <2>1. DOMAIN <<>> = {} /\ ToSet(<<>>) = {}
    BY DEF ToSet
  <2> QED
    BY <1>5, <2>1
<1>7. {row.event : row \in usage'} \cup ToSet(Unlogged') = ToSet(finished') \ lost'
  <2>1. CASE queue' = queue /\ lost' = lost \cup ToSet(batch)
    BY <1>1, <1>2, <1>5, <2>1 DEF EventsAccountedFor
  <2>2. CASE queue' = <<>> /\ lost' = lost \cup ToSet(batch) \cup ToSet(queue)
    <3>1. ToSet(<<>>) = {}
      BY DEF ToSet
    <3> QED
      BY <1>1, <1>2, <1>5, <2>2, <3>1 DEF EventsAccountedFor
  <2> QED
    BY <2>1, <2>2
<1>8. ASSUME NEW i \in DOMAIN Unlogged', NEW k \in DOMAIN Unlogged', i < k
      PROVE AnsweredBefore(Unlogged[i], Unlogged[k])'
  <2>1. CASE queue' = queue
    BY <1>3, <1>4, <1>5, <1>8, <2>1
  <2>2. CASE queue' = <<>>
    BY <1>5, <2>2
  <2> QED
    BY <2>1, <2>2
<1> QED
  BY <1>1, <1>2, <1>4, <1>6, <1>7, <1>8 DEF EventsAccountedFor

(* Old rows go. *)
LEMMA PruneKeepsEvents ==
  ASSUME IInv, NEW old \in SUBSET usage, UNCHANGED <<batch, queue, finished>>,
         usage' = usage \ old, lost' = lost \cup {row.event : row \in old}
  PROVE EventsAccountedFor'
<1>1. TypeOK /\ EventsAccountedFor
  BY DEF IInv
<1>2. /\ \A row \in usage : row.event \notin ToSet(Unlogged)
      /\ \A a, b \in usage : a.event = b.event => a = b
  BY <1>1, OnePlace
<1>3. \A a, b : AnsweredBefore(a, b)' <=> AnsweredBefore(a, b)
  BY DEF AnsweredBefore
<1>4. Unlogged' = Unlogged
  BY DEF Unlogged
<1>5. {row.event : row \in usage'} = {row.event : row \in usage} \ {row.event : row \in old}
  BY <1>2
<1>6. {row.event : row \in usage'} \cup ToSet(Unlogged') = ToSet(finished') \ lost'
  BY <1>1, <1>2, <1>4, <1>5 DEF EventsAccountedFor
<1> QED
  BY <1>1, <1>3, <1>4, <1>6 DEF EventsAccountedFor

-----------------------------------------------------------------------------
(* The invariant. *)

LEMMA StutterKeepsInv == ASSUME IInv, UNCHANGED vars PROVE IInv'
<1>1. EventsAccountedFor'
  BY NothingMoved DEF IInv, Unchanged, vars
<1>2. TypeOK' /\ Answered' /\ Numbered'
  BY DEF IInv, TypeOK, Answered, Numbered, vars
<1> QED
  BY <1>1, <1>2 DEF IInv

(* A request that leaves the log alone. *)
LEMMA RequestKeepsInv ==
  ASSUME IInv, NEW q \in Requests, UNCHANGED <<lock, log>>,
         NEW where \in InFlight \cup {"answered", "refused", "gone"},
         pc[q] \in InFlight \cup {"new"}, Goto(q, where)
  PROVE IInv'
<1>1. pc' = [pc EXCEPT ![q] = where] /\ UNCHANGED <<lock, queue, writer, batch, usage, now, prune, finished, lost, crashes>>
  BY DEF Goto, log
<1>2. TypeOK'
  <2>1. pc' \in [Requests -> InFlight \cup {"new", "answered", "refused", "gone"}]
    BY <1>1 DEF IInv, TypeOK
  <2> QED
    BY <1>1, <2>1 DEF IInv, TypeOK
<1>3. Answered'
  <2> SUFFICES ASSUME NEW r \in ToSet(finished) PROVE pc'[r] = "answered"
    BY <1>1 DEF Answered
  <2>1. pc[r] = "answered" /\ r \in Requests /\ pc[q] # "answered"
    BY ElementsInSet DEF IInv, Answered, TypeOK, InFlight
  <2> QED
    BY <1>1, <2>1 DEF IInv, TypeOK
<1>4. Numbered'
  BY <1>1 DEF IInv, Numbered
<1>5. EventsAccountedFor'
  BY <1>1, NothingMoved DEF IInv, Unchanged
<1> QED
  BY <1>2, <1>3, <1>4, <1>5 DEF IInv

LEMMA AnswerKeepsInv ==
  ASSUME IInv, NEW q \in Requests, pc[q] = "key_call", AnswerCall(q) PROVE IInv'
<1>1. /\ finished' = Append(finished, q) /\ pc' = [pc EXCEPT ![q] = "answered"]
      /\ UNCHANGED <<lock, writer, batch, usage, now, prune, crashes>>
      /\ \/ Len(queue) < Capacity /\ queue' = Append(queue, q) /\ lost' = lost
         \/ queue' = queue /\ lost' = lost \cup {q}
  BY DEF AnswerCall, Record, Goto
<1>2. q \notin ToSet(finished)
  BY DEF IInv, Answered
<1>3. finished \in Seq(Requests) /\ queue \in Seq(Requests) /\ Capacity \in Nat
  BY DEF IInv, TypeOK
<1>4. ToSet(finished') = ToSet(finished) \cup {q}
  BY <1>1, <1>3, ToSetOfAppend
<1>5. pc' \in [Requests -> InFlight \cup {"new", "answered", "refused", "gone"}]
  BY <1>1 DEF IInv, TypeOK
<1>6. queue' \in Seq(Requests) /\ Len(queue') <= Capacity
  <2>1. Len(queue) <= Capacity
    BY DEF IInv, TypeOK
  <2>2. CASE queue' = queue
    BY <1>3, <2>1, <2>2
  <2>3. CASE queue' = Append(queue, q) /\ Len(queue) < Capacity
    <3>1. Append(queue, q) \in Seq(Requests) /\ Len(Append(queue, q)) = Len(queue) + 1
      BY <1>3
    <3> QED
      BY <1>3, <2>3, <3>1
  <2> QED
    BY <1>1, <2>2, <2>3
<1>7. IsInjective(finished')
  <2>1. \A a, b \in DOMAIN finished : finished[a] = finished[b] => a = b
    BY DEF IInv, TypeOK, IsInjective
  <2>2. \A a \in DOMAIN finished : finished[a] # q
    BY <1>2 DEF ToSet
  <2> HIDE DEF IInv
  <2> QED
    BY <1>1, <1>3, <2>1, <2>2, AppendElements DEF IsInjective
<1>8. finished' \in Seq(Requests)
  BY <1>1, <1>3
<1>9. lost' \subseteq ToSet(finished')
  <2>1. lost \subseteq ToSet(finished)
    BY DEF IInv, TypeOK
  <2> QED
    BY <1>1, <1>4, <2>1
<1>10. TypeOK'
  BY <1>1, <1>5, <1>6, <1>7, <1>8, <1>9 DEF IInv, TypeOK
<1>11. Answered'
  <2> SUFFICES ASSUME NEW r \in ToSet(finished) \cup {q} PROVE pc'[r] = "answered"
    BY <1>4 DEF Answered
  <2>1. r = q \/ pc[r] = "answered"
    BY DEF IInv, Answered
  <2>2. r \in Requests /\ pc \in [Requests -> InFlight \cup {"new", "answered", "refused", "gone"}]
    BY ElementsInSet DEF IInv, TypeOK
  <2> QED
    BY <1>1, <2>1, <2>2
<1>12. Answered' /\ Numbered'
  BY <1>1, <1>11 DEF IInv, Numbered
<1>13. EventsAccountedFor'
  BY AnswerKeepsEvents
<1> QED
  BY <1>10, <1>12, <1>13 DEF IInv

LEMMA RequestsKeepInv ==
  ASSUME IInv, NEW q \in Requests, Arrive(q) \/ Serve(q) \/ HangUp(q) PROVE IInv'
<1>1. CASE Arrive(q)
  BY <1>1, RequestKeepsInv DEF Arrive, InFlight
<1>2. CASE LookUpKey(q)
  BY <1>2, RequestKeepsInv DEF LookUpKey, InFlight
<1>3. CASE LookUpToken(q)
  BY <1>3, RequestKeepsInv DEF LookUpToken, InFlight
<1>4. CASE AnswerCall(q)
  <2>1. CASE pc[q] = "key_call"
    BY <1>4, <2>1, AnswerKeepsInv
  <2>2. CASE pc[q] = "oauth_call"
    BY <1>4, <2>2, RequestKeepsInv DEF AnswerCall, InFlight, log
  <2> QED
    BY <1>4, <2>1, <2>2 DEF AnswerCall
<1>5. CASE HangUp(q)
  BY <1>5, RequestKeepsInv DEF HangUp
<1> QED
  BY <1>1, <1>2, <1>3, <1>4, <1>5 DEF Serve

LEMMA WriterKeepsInv ==
  ASSUME IInv, Receive \/ Begin \/ Commit \/ Rollback \/ PruneTick \/ Prune
  PROVE IInv'
<1> USE DEF IInv
<1>1. CASE Receive
  <2>1. /\ batch' \in Seq(Requests) /\ Len(batch') <= MaxBatch /\ batch' # <<>>
        /\ queue' \in Seq(Requests) /\ Len(queue') <= Capacity
        /\ Unlogged' = Unlogged
    BY <1>1, ReceiveMoves
  <2>2. UNCHANGED <<pc, lock, usage, now, prune, finished, lost, crashes>>
        /\ writer = "idle" /\ writer' = "begin"
    BY <1>1 DEF Receive
  <2>3. TypeOK'
    BY <2>1, <2>2 DEF TypeOK
  <2>4. \A a, b : AnsweredBefore(a, b)' <=> AnsweredBefore(a, b)
    BY <2>2 DEF AnsweredBefore
  <2>5. EventsAccountedFor'
    BY <2>1, <2>2, <2>4 DEF EventsAccountedFor
  <2> QED
    BY <2>2, <2>3, <2>5 DEF Answered, Numbered
<1>2. CASE Begin
  <2>1. TypeOK' /\ Answered' /\ Numbered'
    BY <1>2 DEF Begin, TypeOK, Answered, Numbered
  <2> QED
    BY <1>2, <2>1, NothingMoved DEF Begin, Unchanged
<1>3. CASE Commit
  <2>1. /\ usage' \subseteq [id : Nat, event : Requests, ts : 0..MaxTime]
        /\ \A a, b \in usage' : a.id = b.id => a = b
        /\ Numbered' /\ EventsAccountedFor'
    BY <1>3, CommitKeepsEvents
  <2>2. /\ writer' = "idle" /\ batch' = <<>> /\ lock' = FALSE
        /\ UNCHANGED <<pc, queue, now, prune, finished, lost, crashes>>
    BY <1>3 DEF Commit, Finish
  <2>3. batch' \in Seq(Requests) /\ Len(batch') <= MaxBatch
    BY <2>2
  <2>4. TypeOK' /\ Answered'
    BY <2>1, <2>2, <2>3 DEF TypeOK, Answered
  <2> QED
    BY <2>1, <2>4
<1>4. CASE Rollback
  <2>1. /\ writer' = "idle" /\ batch' = <<>> /\ lock' = FALSE /\ lost' = lost \cup ToSet(batch)
        /\ UNCHANGED <<pc, queue, usage, now, prune, finished, crashes>>
    BY <1>4 DEF Rollback, Finish
  <2>2. EventsAccountedFor'
    BY <2>1, LossKeepsEvents
  <2>3. lost' \subseteq ToSet(finished')
    BY <2>1, OnePlace, PlacesInOrder DEF TypeOK, EventsAccountedFor
  <2>4. batch' \in Seq(Requests) /\ Len(batch') <= MaxBatch
    BY <2>1
  <2>5. TypeOK' /\ Answered' /\ Numbered'
    BY <2>1, <2>3, <2>4 DEF TypeOK, Answered, Numbered
  <2> QED
    BY <2>2, <2>5
<1>5. CASE PruneTick
  <2>1. prune' \in 0..(MaxTime + 1)
    BY <1>5 DEF PruneTick, TypeOK
  <2>2. TypeOK' /\ Answered' /\ Numbered'
    BY <1>5, <2>1 DEF PruneTick, TypeOK, Answered, Numbered
  <2> QED
    BY <1>5, <2>2, NothingMoved DEF PruneTick, Unchanged
<1>6. CASE Prune
  <2>1. /\ writer = "prune" /\ writer' = "idle"
        /\ UNCHANGED <<pc, lock, queue, batch, now, prune, finished, crashes>>
    BY <1>6 DEF Prune
  <2>2. PICK old \in SUBSET usage : /\ usage' = usage \ old
                                   /\ lost' = lost \cup {row.event : row \in old}
    <3>1. CASE UNCHANGED <<usage, lost>>
      <4>1. usage' = usage \ {} /\ lost' = lost \cup {row.event : row \in {}}
        BY <3>1
      <4> QED
        BY <4>1
    <3>2. CASE ~ UNCHANGED <<usage, lost>>
      BY <1>6, <3>2 DEF Prune
    <3> QED
      BY <3>1, <3>2
  <2>3. EventsAccountedFor'
    BY <2>1, <2>2, PruneKeepsEvents
  <2>4. lost' \subseteq ToSet(finished')
    BY <2>1, <2>2 DEF TypeOK, EventsAccountedFor
  <2>5. TypeOK' /\ Answered' /\ Numbered'
    BY <2>1, <2>2, <2>4 DEF TypeOK, Answered, Numbered
  <2> QED
    BY <2>3, <2>5
<1> QED
  BY <1>1, <1>2, <1>3, <1>4, <1>5, <1>6

LEMMA CrashKeepsInv == ASSUME IInv, Crash PROVE IInv'
<1> USE DEF IInv
<1>1. /\ writer' = "idle" /\ batch' = <<>> /\ queue' = <<>> /\ lock' = FALSE
      /\ lost' = lost \cup ToSet(batch) \cup ToSet(queue)
      /\ pc' = [q \in Requests |-> IF pc[q] \in InFlight THEN "gone" ELSE pc[q]]
      /\ prune' = now /\ UNCHANGED <<usage, now, finished>>
  BY DEF Crash, Finish
<1>2. EventsAccountedFor'
  BY <1>1, LossKeepsEvents
<1>3. lost' \subseteq ToSet(finished')
  <2>1. ToSet(Unlogged) = ToSet(batch) \cup ToSet(queue)
    BY OnePlace
  <2> QED
    BY <1>1, <2>1 DEF TypeOK, EventsAccountedFor
<1>4. /\ batch' \in Seq(Requests) /\ Len(batch') <= MaxBatch
      /\ queue' \in Seq(Requests) /\ Len(queue') <= Capacity
  BY <1>1
<1>5. pc' \in [Requests -> InFlight \cup {"new", "answered", "refused", "gone"}]
  BY <1>1 DEF TypeOK
<1>6. crashes' \in 0..MaxCrashes /\ prune' \in 0..(MaxTime + 1)
  BY <1>1 DEF Crash, TypeOK
<1>7. TypeOK' /\ Answered' /\ Numbered'
  <2>1. TypeOK'
    BY <1>1, <1>3, <1>4, <1>5, <1>6 DEF TypeOK
  <2>2. Answered'
    <3> SUFFICES ASSUME NEW q \in ToSet(finished) PROVE pc'[q] = "answered"
      BY <1>1 DEF Answered
    <3>1. pc[q] = "answered" /\ q \in Requests
      BY ElementsInSet DEF Answered, TypeOK
    <3> QED
      BY <1>1, <3>1 DEF InFlight
  <2> QED
    BY <1>1, <2>1, <2>2 DEF Numbered
<1> QED
  BY <1>2, <1>7

LEMMA Invariance == Spec => []IInv
<1>1. ASSUME IInv, [Next]_vars PROVE IInv'
  <2>1. CASE Tick
    <3>2. now' \in 0..MaxTime
      BY <1>1, <2>1 DEF Tick, IInv, TypeOK
    <3>1. TypeOK' /\ Answered' /\ Numbered'
      BY <1>1, <2>1, <3>2 DEF Tick, IInv, TypeOK, Answered, Numbered
    <3> QED
      BY <1>1, <2>1, <3>1, NothingMoved DEF Tick, IInv, Unchanged
  <2> QED
    BY <1>1, <2>1, RequestsKeepInv, WriterKeepsInv, CrashKeepsInv, StutterKeepsInv DEF Next
<1> QED
  BY <1>1, InitInv, PTL DEF Spec

(* The types, with what the bounds on queue and batch promise. *)
THEOREM TypeCorrectness == Spec => []TypeOK
<1>1. IInv => TypeOK
  BY DEF IInv
<1> QED
  BY <1>1, Invariance, PTL

(* Whatever is dropped at a full queue, rolled back, pruned or lost with the  *)
(* process, every other call answered with a key is in the table, the batch   *)
(* or the queue, once, and in the order in which the calls were answered.     *)
THEOREM UsageIsAccountedFor == Spec => []EventsAccountedFor
<1>1. IInv => EventsAccountedFor
  BY DEF IInv
<1> QED
  BY <1>1, Invariance, PTL
=============================================================================
