------------------------------ MODULE UsageLog ------------------------------
(***************************************************************************)
(* The bearer gate on /mcp (src/auth.rs) and the usage log behind it       *)
(* (src/keys.rs).  A request is looked up as an API key, then as an OAuth  *)
(* token, handled, and, when it came with a key, recorded in a bounded     *)
(* queue on its way out; when the queue is full its event is dropped.  One *)
(* writer takes batches off the queue, writes each in one transaction, and *)
(* prunes old rows now and then.  Lookups and writer share one database    *)
(* connection behind a lock.  What the queue and the writer hold dies with *)
(* the process.  A request is also the event it leaves behind.             *)
(***************************************************************************)
EXTENDS Naturals, SequencesExt

CONSTANTS
  Requests,   \* requests to /mcp, each made once
  Capacity,   \* of the queue (4096)
  MaxBatch,   \* events taken at once (128)
  Keep,       \* how long rows are kept (90 days)
  MaxTime,    \* bound on the clock, which counts pruning intervals (6 hours)
  MaxCrashes  \* bound on restarts

ASSUME SizesAssumption == {Capacity, MaxBatch} \subseteq Nat \ {0}
ASSUME TimeAssumption == {Keep, MaxTime, MaxCrashes} \subseteq Nat

VARIABLES
  pc,        \* where each request is
  lock,      \* is the writer in a transaction
  queue,     \* events recorded and not yet taken
  writer,    \* what the writer does
  batch,     \* the events it holds
  usage,     \* the usage table: rows of an id, an event, and the time of its insertion
  now, prune,   \* the clock, and the writer's next pruning tick
  finished,  \* history: requests with a key, in the order they were answered
  lost,      \* history: those whose event was dropped, failed, pruned or lost
  crashes

vars == <<pc, lock, queue, writer, batch, usage, now, prune, finished, lost, crashes>>

InFlight == {"keys", "tokens", "key_call", "oauth_call"}

TypeOK ==
  /\ pc \in [Requests -> InFlight \cup {"new", "answered", "refused", "gone"}]
  /\ lock = (writer = "write")
  /\ queue \in Seq(Requests) /\ Len(queue) <= Capacity
  /\ batch \in Seq(Requests) /\ Len(batch) <= MaxBatch
  /\ writer \in {"idle", "begin", "write", "prune"}
  /\ batch # <<>> <=> writer \in {"begin", "write"}
  /\ usage \subseteq [id : Nat, event : Requests, ts : 0..MaxTime]
  /\ \A a, b \in usage : a.id = b.id => a = b
  /\ now \in 0..MaxTime /\ prune \in 0..(MaxTime + 1)
  /\ finished \in Seq(Requests) /\ IsInjective(finished)
  /\ lost \subseteq ToSet(finished)
  /\ crashes \in 0..MaxCrashes

Init ==
  /\ pc = [q \in Requests |-> "new"]
  /\ lock = FALSE
  /\ queue = <<>> /\ batch = <<>> /\ usage = {}
  /\ writer = "idle"
  /\ now = 0 /\ prune = 0
  /\ finished = <<>> /\ lost = {} /\ crashes = 0

-----------------------------------------------------------------------------
(* Requests. *)

Goto(q, where) == pc' = [pc EXCEPT ![q] = where]

log == <<queue, writer, batch, usage, now, prune, finished, lost, crashes>>

Arrive(q) ==
  pc[q] = "new" /\ Goto(q, "keys") /\ UNCHANGED <<lock, log>>

\* Either lookup may find the credential, or fail; a body that is too large is
\* refused after it.
LookUpKey(q) ==
  /\ pc[q] = "keys" /\ ~ lock
  /\ \E next \in {"key_call", "tokens", "refused"} : Goto(q, next)
  /\ UNCHANGED <<lock, log>>

LookUpToken(q) ==
  /\ pc[q] = "tokens" /\ ~ lock
  /\ \E next \in {"oauth_call", "refused"} : Goto(q, next)
  /\ UNCHANGED <<lock, log>>

\* Mutant: the answer waits until the queue has room.
Record_Wait(q) ==
  /\ Len(queue) < Capacity
  /\ queue' = Append(queue, q)
  /\ UNCHANGED lost

\* Mutant: the bound is off by one.
Record_OneMore(q) ==
  \/ Len(queue) <= Capacity /\ queue' = Append(queue, q) /\ UNCHANGED lost
  \/ Len(queue) > Capacity /\ lost' = lost \cup {q} /\ UNCHANGED queue

Record(q) ==
  \/ Len(queue) < Capacity /\ queue' = Append(queue, q) /\ UNCHANGED lost
  \/ Len(queue) = Capacity /\ lost' = lost \cup {q} /\ UNCHANGED queue

\* Only a request with a key leaves an event.
AnswerCall(q) ==
  /\ \/ pc[q] = "key_call" /\ Record(q) /\ finished' = Append(finished, q)
     \/ pc[q] = "oauth_call" /\ UNCHANGED <<queue, lost, finished>>
  /\ Goto(q, "answered")
  /\ UNCHANGED <<lock, writer, batch, usage, now, prune, crashes>>

\* The client hangs up, and the middleware is dropped with the request: it
\* leaves no event, whatever the call has done.
HangUp(q) ==
  pc[q] \in InFlight /\ Goto(q, "gone") /\ UNCHANGED <<lock, log>>

-----------------------------------------------------------------------------
(* The writer. *)

\* Mutant: the last event of the batch stays in the queue.
Receive_KeepLast ==
  /\ writer = "idle" /\ queue # <<>>
  /\ LET n == IF Len(queue) < MaxBatch THEN Len(queue) ELSE MaxBatch
     IN batch' = SubSeq(queue, 1, n) /\ queue' = SubSeq(queue, n, Len(queue))
  /\ writer' = "begin"
  /\ UNCHANGED <<pc, lock, usage, now, prune, finished, lost, crashes>>

Receive ==
  /\ writer = "idle" /\ queue # <<>>
  /\ LET n == IF Len(queue) < MaxBatch THEN Len(queue) ELSE MaxBatch
     IN batch' = SubSeq(queue, 1, n) /\ queue' = SubSeq(queue, n + 1, Len(queue))
  /\ writer' = "begin"
  /\ UNCHANGED <<pc, lock, usage, now, prune, finished, lost, crashes>>

Begin ==
  /\ writer = "begin"
  /\ writer' = "write" /\ lock' = TRUE
  /\ UNCHANGED <<pc, queue, batch, usage, now, prune, finished, lost, crashes>>

Finish == writer' = "idle" /\ batch' = <<>> /\ lock' = FALSE

\* A new row's id is one more than the largest in the table (INTEGER PRIMARY
\* KEY without AUTOINCREMENT): ids of pruned rows may come back.
LastId == IF usage = {} THEN 0 ELSE Max({row.id : row \in usage})

Commit ==
  /\ writer = "write" /\ Finish
  /\ usage' = usage \cup
       {[id |-> LastId + i, event |-> batch[i], ts |-> now] : i \in DOMAIN batch}
  /\ UNCHANGED <<pc, queue, now, prune, finished, lost, crashes>>

\* An error or a panic anywhere in the transaction undoes all of it, and the
\* batch is not tried again.
Rollback ==
  /\ writer = "write" /\ Finish
  /\ lost' = lost \cup ToSet(batch)
  /\ UNCHANGED <<pc, queue, usage, now, prune, finished, crashes>>

\* Mutant: the next tick is due at once.
PruneTick_Always ==
  /\ writer = "idle" /\ prune <= now
  /\ writer' = "prune" /\ prune' = now
  /\ UNCHANGED <<pc, lock, queue, batch, usage, now, finished, lost, crashes>>

\* A tick that was missed while the writer was busy is not made up for.
PruneTick ==
  /\ writer = "idle" /\ prune <= now
  /\ writer' = "prune" /\ prune' = now + 1
  /\ UNCHANGED <<pc, lock, queue, batch, usage, now, finished, lost, crashes>>

Prune ==
  /\ writer = "prune" /\ writer' = "idle"
  /\ \/ LET old == {row \in usage : row.ts + Keep < now} IN
          usage' = usage \ old /\ lost' = lost \cup {row.event : row \in old}
     \/ UNCHANGED <<usage, lost>>
  /\ UNCHANGED <<pc, lock, queue, batch, now, prune, finished, crashes>>

-----------------------------------------------------------------------------
Tick ==
  /\ now < MaxTime /\ now' = now + 1
  /\ UNCHANGED <<pc, lock, queue, writer, batch, usage, prune, finished, lost, crashes>>

\* The process stops, an orderly shutdown included, and is started again.
Crash ==
  /\ crashes < MaxCrashes /\ crashes' = crashes + 1
  /\ pc' = [q \in Requests |-> IF pc[q] \in InFlight THEN "gone" ELSE pc[q]]
  /\ lost' = lost \cup ToSet(batch) \cup ToSet(queue)
  /\ queue' = <<>> /\ Finish /\ prune' = now
  /\ UNCHANGED <<usage, now, finished>>

Serve(q) == LookUpKey(q) \/ LookUpToken(q) \/ AnswerCall(q)

Next ==
  \/ \E q \in Requests : Arrive(q) \/ Serve(q) \/ HangUp(q)
  \/ Receive \/ Begin \/ Commit \/ Rollback \/ PruneTick \/ Prune
  \/ Tick \/ Crash

Spec == Init /\ [][Next]_vars

\* Requests are served, and a transaction, once begun, ends.  Nothing is said
\* here of the writer taking up work.
FairSpec ==
  /\ Spec
  /\ \A q \in Requests : WF_vars(Serve(q))
  /\ WF_vars(Commit \/ Rollback)

WriterFairness == WF_vars(Receive) /\ WF_vars(Begin) /\ WF_vars(Prune)

-----------------------------------------------------------------------------
(* Properties. *)

Unlogged == batch \o queue

AnsweredBefore(q, r) ==
  \E m, n \in DOMAIN finished : m < n /\ finished[m] = q /\ finished[n] = r

\* Usage is accounted for, once and in order: what is in the table, the batch
\* and the queue is exactly what was not dropped at a full queue, rolled back,
\* pruned, or lost with the process; and rows by their ids, then what is on its
\* way to the table, are in the order in which the calls were answered.
EventsAccountedFor ==
  /\ {row.event : row \in usage} \cup ToSet(Unlogged) = ToSet(finished) \ lost
  /\ \A a, b \in usage : a.id < b.id => AnsweredBefore(a.event, b.event)
  /\ \A row \in usage, q \in ToSet(Unlogged) : AnsweredBefore(row.event, q)
  /\ \A i, k \in DOMAIN Unlogged : i < k => AnsweredBefore(Unlogged[i], Unlogged[k])

\* "without blocking the request path" (keys.rs:376): every request is answered,
\* refused or given up even if the writer never takes up work again.
RequestsEnd == \A q \in Requests : pc[q] \in InFlight ~> pc[q] \notin InFlight

\* No event stays in the queue for good while the writer runs, the pruning it
\* does in between notwithstanding.
QueueDrains ==
  WriterFairness =>
    \A q \in Requests : q \in ToSet(queue) ~> q \notin ToSet(queue) \cup ToSet(batch)

\* "the request path never ... contends on the DB" (keys.rs:328): no request
\* waits for the writer's transaction.  It does: lookups use its connection.
NoContention == \A q \in Requests : pc[q] \in {"keys", "tokens"} => ~ lock
=============================================================================
