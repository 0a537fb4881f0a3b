---------------------------- MODULE ServingPool ----------------------------
(***************************************************************************)
(* The connection pool of one built serving database (src/analytics.rs,    *)
(* `Serving`): a semaphore of permits and a mutex-protected vector of idle *)
(* read-only connections.  Every analytical call (`run_query`,             *)
(* `query_json`, `describe`) takes a permit, pops a connection, moves it   *)
(* into a blocking task that runs a few SQL statements, and waits for that *)
(* task under a timeout.  On time the handler checks the connection back   *)
(* in; on timeout it fires the connection's interrupt handle, answers an   *)
(* error, and leaves a detached task behind that reclaims the connection   *)
(* when the query finally stops; on a panic the connection is gone and the *)
(* permit is forgotten.                                                    *)
(*                                                                         *)
(* Handler, blocking task and reclaim task run on different threads and    *)
(* share the pool only through the semaphore, the mutex and the handle, so *)
(* each access to one of those is an action of its own.                    *)
(***************************************************************************)
EXTENDS Integers, FiniteSets

CONSTANTS
  Jobs,            \* the calls in flight; a job is reused once it is over
  Conns,           \* the connections `open_serving_ro` clones
  MaxStatements,   \* bound on the SQL statements one blocking task executes
  NoConn           \* "holds no connection"

ASSUME ConnsAssumption   == IsFiniteSet(Conns) /\ Conns # {}
ASSUME JobsAssumption    == IsFiniteSet(Jobs) /\ {"free", "lost"} \cap Jobs = {}
ASSUME NoConnAssumption  == NoConn \notin Conns
ASSUME StatementsAssumption == MaxStatements \in Nat

VARIABLES
  permits,      \* available permits of the semaphore
  idle,         \* the idle connections (the mutex-protected vector)
  pc,           \* where the handler of a job, or its reclaim task, stands
  task,         \* what the blocking task of a job is doing
  slot,         \* the connection a job's tasks own
  handle,       \* the interrupt handle the handler kept a clone of
  left,         \* statements the blocking task has still to start
  interrupted,  \* DuckDB's interrupt flag, per connection
  lost          \* connections dropped by a panicking task

vars == <<permits, idle, pc, task, slot, handle, left, interrupted, lost>>

PcStates ==
  {"idle",        \* no call
   "waiting",     \* in acquire_owned().await
   "permitted",   \* has the permit, not yet popped
   "running",     \* in timeout(.., &mut task).await
   "releasing",   \* checked in, permit not yet dropped
   "expired",     \* timed out, interrupt not yet fired
   "reclaiming",  \* answered; the reclaim task awaits the blocking task
   "reclaimed"}   \* the reclaim task checked in, permit not yet dropped

TaskStates ==
  {"none", "between", "stmt", "ended", "interrupted", "panicked"}

TypeOK ==
  /\ permits \in Nat
  /\ idle \subseteq Conns
  /\ pc \in [Jobs -> PcStates]
  /\ task \in [Jobs -> TaskStates]
  /\ slot \in [Jobs -> Conns \cup {NoConn}]
  /\ handle \in [Jobs -> Conns \cup {NoConn}]
  /\ left \in [Jobs -> 0..MaxStatements]
  /\ interrupted \in [Conns -> BOOLEAN]
  /\ lost \subseteq Conns

Init ==
  /\ permits = Cardinality(Conns)
  /\ idle = Conns
  /\ pc = [j \in Jobs |-> "idle"]
  /\ task = [j \in Jobs |-> "none"]
  /\ slot = [j \in Jobs |-> NoConn]
  /\ handle = [j \in Jobs |-> NoConn]
  /\ left = [j \in Jobs |-> 0]
  /\ interrupted = [c \in Conns |-> FALSE]
  /\ lost = {}

TaskOver(j) == task[j] \in {"ended", "interrupted", "panicked"}

-----------------------------------------------------------------------------
(* The request handler. *)

Goto(j, where) == pc' = [pc EXCEPT ![j] = where]

\* A call that passed its early returns (an empty query never gets here)
\* reaches checkout.
Call(j) ==
  /\ pc[j] = "idle"
  /\ Goto(j, "waiting")
  /\ UNCHANGED <<permits, idle, task, slot, handle, left, interrupted, lost>>

\* Mutant: the connection is taken without waiting for a permit.
Acquire_NoWait(j) ==
  /\ pc[j] = "waiting"
  /\ permits' = permits - 1
  /\ Goto(j, "permitted")
  /\ UNCHANGED <<idle, task, slot, handle, left, interrupted, lost>>

\* checkout: the semaphore grants a permit ...
Acquire(j) ==
  /\ pc[j] = "waiting"
  /\ permits > 0
  /\ permits' = permits - 1
  /\ Goto(j, "permitted")
  /\ UNCHANGED <<idle, task, slot, handle, left, interrupted, lost>>

\* Take c out of the pool, keep a clone of h's interrupt handle, and spawn the
\* blocking task with n statements to run.
Dispatch(j, c, h, n) ==
  /\ slot' = [slot EXCEPT ![j] = c]
  /\ handle' = [handle EXCEPT ![j] = h]
  /\ left' = [left EXCEPT ![j] = n]
  /\ task' = [task EXCEPT ![j] = "between"]
  /\ Goto(j, "running")
  /\ UNCHANGED <<permits, interrupted, lost>>

\* Mutant: the handle is cloned from some other connection (the primary, say).
Pop_WrongHandle(j) ==
  /\ pc[j] = "permitted"
  /\ \E c \in idle, h \in Conns, n \in 0..MaxStatements :
       idle' = idle \ {c} /\ Dispatch(j, c, h, n)

\* Mutant: the connection is borrowed and stays in the vector.
Pop_Peek(j) ==
  /\ pc[j] = "permitted"
  /\ \E c \in idle, n \in 0..MaxStatements : Dispatch(j, c, c, n)
  /\ UNCHANGED idle

\* ... then a connection is popped (the vector is modelled as a set: which
\* connection it is makes no difference) and the query dispatched: probe and
\* query for run_query, one statement for query_json, one per relation asked
\* for in describe.
Pop(j) ==
  /\ pc[j] = "permitted"
  /\ \E c \in idle, n \in 0..MaxStatements :
       idle' = idle \ {c} /\ Dispatch(j, c, c, n)

Clear(j) ==
  /\ task' = [task EXCEPT ![j] = "none"]
  /\ slot' = [slot EXCEPT ![j] = NoConn]
  /\ handle' = [handle EXCEPT ![j] = NoConn]
  /\ left' = [left EXCEPT ![j] = 0]

\* serving.checkin(slot): the connection a finished task gave back.
PutBack(j, where) ==
  /\ task[j] \in {"ended", "interrupted"}
  /\ idle' = idle \cup {slot[j]}
  /\ Clear(j)
  /\ Goto(j, where)
  /\ UNCHANGED <<permits, interrupted, lost>>

\* drop(permit)
DropPermit(j) ==
  /\ permits' = permits + 1
  /\ Goto(j, "idle")
  /\ UNCHANGED <<idle, task, slot, handle, left, interrupted, lost>>

\* permit.forget(): the semaphore never gets it back.
ForgetPermit(j) ==
  /\ task[j] = "panicked"
  /\ Clear(j)
  /\ Goto(j, "idle")
  /\ UNCHANGED <<permits, idle, interrupted, lost>>

CheckIn(j)    == pc[j] = "running" /\ PutBack(j, "releasing")
Release(j)    == pc[j] = "releasing" /\ DropPermit(j)

\* Mutant: dropping the permit of a lost connection.
TaskFailed_DropsPermit(j) ==
  /\ pc[j] = "running" /\ task[j] = "panicked"
  /\ Clear(j)
  /\ permits' = permits + 1
  /\ Goto(j, "idle")
  /\ UNCHANGED <<idle, interrupted, lost>>

TaskFailed(j) == pc[j] = "running" /\ ForgetPermit(j)

\* Mutant: the deadline is only looked at between two statements.
Expire_BetweenStatements(j) ==
  /\ pc[j] = "running"
  /\ task[j] = "between"
  /\ Goto(j, "expired")
  /\ UNCHANGED <<permits, idle, task, slot, handle, left, interrupted, lost>>

\* The timer is polled after the task, so it only wins over an unfinished one.
Expire(j) ==
  /\ pc[j] = "running"
  /\ ~ TaskOver(j)
  /\ Goto(j, "expired")
  /\ UNCHANGED <<permits, idle, task, slot, handle, left, interrupted, lost>>

\* Mutant: the timed-out connection goes back to the pool at once.
Interrupt_ChecksInNow(j) ==
  /\ pc[j] = "expired"
  /\ interrupted' = [interrupted EXCEPT ![handle[j]] = handle[j] \notin lost]
  /\ idle' = idle \cup {handle[j]}
  /\ Goto(j, "reclaiming")
  /\ UNCHANGED <<permits, task, slot, handle, left, lost>>

\* interrupt.interrupt() sets the flag of the connection the handle was cloned
\* from (nothing happens if it is closed), the reclaim task is spawned, and the
\* call answers its timeout error.
Interrupt(j) ==
  /\ pc[j] = "expired"
  /\ interrupted' = [interrupted EXCEPT ![handle[j]] = handle[j] \notin lost]
  /\ Goto(j, "reclaiming")
  /\ UNCHANGED <<permits, idle, task, slot, handle, left, lost>>

-----------------------------------------------------------------------------
(* The blocking task.  A statement clears the interrupt flag when it starts *)
(* and polls it while it runs (DuckDB).                                     *)

SetTask(j, what) == task' = [task EXCEPT ![j] = what]

BeginStatement(j) ==
  /\ task[j] = "between"
  /\ left[j] > 0
  /\ left' = [left EXCEPT ![j] = @ - 1]
  /\ interrupted' = [interrupted EXCEPT ![slot[j]] = FALSE]
  /\ SetTask(j, "stmt")
  /\ UNCHANGED <<permits, idle, pc, slot, handle, lost>>

FinishStatement(j) ==
  /\ task[j] = "stmt"
  /\ SetTask(j, "between")
  /\ UNCHANGED <<permits, idle, pc, slot, handle, left, interrupted, lost>>

\* `?` on a failed statement, or the validator refusing the query: the task
\* returns the connection with an error.
FailStatement(j) ==
  /\ task[j] = "stmt"
  /\ SetTask(j, "ended")
  /\ UNCHANGED <<permits, idle, pc, slot, handle, left, interrupted, lost>>

StopOnInterrupt(j) ==
  /\ task[j] = "stmt"
  /\ interrupted[slot[j]]
  /\ SetTask(j, "interrupted")
  /\ UNCHANGED <<permits, idle, pc, slot, handle, left, interrupted, lost>>

EndTask(j) ==
  /\ task[j] = "between"
  /\ left[j] = 0
  /\ SetTask(j, "ended")
  /\ UNCHANGED <<permits, idle, pc, slot, handle, left, interrupted, lost>>

\* A panic unwinds the task's closure and drops the connection it owns.
PanicTask(j) ==
  /\ task[j] \in {"between", "stmt"}
  /\ SetTask(j, "panicked")
  /\ lost' = lost \cup {slot[j]}
  /\ slot' = [slot EXCEPT ![j] = NoConn]
  /\ UNCHANGED <<permits, idle, pc, handle, left, interrupted>>

-----------------------------------------------------------------------------
(* The detached task of spawn_reclaim. *)

\* Mutant: only a query that ended by itself gives its connection back.
ReclaimCheckIn_EndedOnly(j) ==
  pc[j] = "reclaiming" /\ task[j] = "ended" /\ PutBack(j, "reclaimed")

ReclaimCheckIn(j) == pc[j] = "reclaiming" /\ PutBack(j, "reclaimed")

\* Mutant: the permit is forgotten although the connection came back.
ReclaimRelease_Forgets(j) ==
  /\ pc[j] = "reclaimed"
  /\ Goto(j, "idle")
  /\ UNCHANGED <<permits, idle, task, slot, handle, left, interrupted, lost>>

ReclaimRelease(j) == pc[j] = "reclaimed" /\ DropPermit(j)

ReclaimLost(j) == pc[j] = "reclaiming" /\ ForgetPermit(j)

-----------------------------------------------------------------------------
HandlerStep(j) ==
  \/ Call(j) \/ Acquire(j) \/ Pop(j) \/ CheckIn(j) \/ Release(j)
  \/ TaskFailed(j) \/ Expire(j) \/ Interrupt(j)

TaskStep(j) ==
  \/ BeginStatement(j) \/ FinishStatement(j) \/ FailStatement(j)
  \/ StopOnInterrupt(j) \/ EndTask(j) \/ PanicTask(j)

ReclaimStep(j) == ReclaimCheckIn(j) \/ ReclaimRelease(j) \/ ReclaimLost(j)

Next == \E j \in Jobs : HandlerStep(j) \/ TaskStep(j) \/ ReclaimStep(j)

Spec == Init /\ [][Next]_vars

(***************************************************************************)
(* Fairness.  The runtime keeps polling ready futures and the timer fires; *)
(* the OS runs the blocking threads; tokio's semaphore is FIFO, hence the  *)
(* strong fairness of Acquire.  A running statement polls its interrupt    *)
(* flag, but nothing makes it finish by itself: FairSpec says nothing of   *)
(* FinishStatement, and the properties that need it say StatementsEnd.     *)
(***************************************************************************)
HandlerFairness(j) ==
  /\ SF_vars(Acquire(j))
  /\ WF_vars(Pop(j)) /\ WF_vars(CheckIn(j)) /\ WF_vars(Release(j))
  /\ WF_vars(TaskFailed(j)) /\ WF_vars(Expire(j)) /\ WF_vars(Interrupt(j))

TaskFairness(j) ==
  /\ WF_vars(BeginStatement(j))
  /\ WF_vars(StopOnInterrupt(j))
  /\ WF_vars(EndTask(j))
  /\ WF_vars(ReclaimStep(j))

Fairness == \A j \in Jobs : HandlerFairness(j) /\ TaskFairness(j)

FairSpec == Spec /\ Fairness

\* No SQL statement runs forever.
StatementsEnd == \A j \in Jobs : WF_vars(FinishStatement(j))

-----------------------------------------------------------------------------
(* Safety. *)

HoldingPermitOnly == {j \in Jobs : pc[j] \in {"permitted", "releasing", "reclaimed"}}

\* Permits and idle connections stay in step: the available permits, and those
\* of jobs between taking one of the two and taking (or after giving back) the
\* other, add up to the idle connections, through timeouts and panics ("keeps
\* the permit count equal to the number of idle connections", analytics.rs:86).
PermitsMatchIdle == permits + Cardinality(HoldingPermitOnly) = Cardinality(idle)

\* The `expect` of checkout never fires: whoever holds a fresh permit finds a
\* connection to pop (analytics.rs:99), whatever the other jobs did meanwhile.
PermitGuaranteesIdle ==
  (\E j \in Jobs : pc[j] = "permitted") => idle # {}

Holders(c) == {j \in Jobs : slot[j] = c}

\* Every connection is in exactly one place: idle, owned by exactly one job, or
\* lost to a panic.  None leaks and none is shared, whichever of the handler,
\* the blocking task and the reclaim task returns it.
ConnectionExclusive ==
  \A c \in Conns :
    \/ c \in idle /\ c \notin lost /\ Holders(c) = {}
    \/ c \notin idle /\ c \in lost /\ Holders(c) = {}
    \/ c \notin idle /\ c \notin lost /\ \E j \in Jobs : Holders(c) = {j}

\* An interrupt only ever stops the query of the call that timed out, "never a
\* neighbour's" (analytics.rs:66): a call still inside its time limit does not
\* find its statement stopped by a handle some earlier call left behind.
NoForeignInterrupt ==
  \A j \in Jobs : task[j] = "interrupted" => pc[j] = "reclaiming"

-----------------------------------------------------------------------------
(* Liveness. *)

\* Once it has a connection, a call is answered, even if its query never ends:
\* by the task's result, by its panic, or by the timeout.
RunningCallAnswered ==
  \A j \in Jobs : pc[j] = "running" ~> pc[j] \in {"idle", "reclaiming"}

\* An interrupt that finds the last statement of a task running brings the
\* connection and its permit back, however long the query would have run: a
\* slow query does not shrink the pool (analytics.rs:112).
InterruptedStatementReclaimed ==
  \A j \in Jobs :
    (/\ pc[j] = "reclaiming" /\ task[j] = "stmt" /\ left[j] = 0
     /\ interrupted[slot[j]])
      ~> (pc[j] = "idle")

\* If no statement runs forever, a call that waits for a connection gets one,
\* however many timeouts are being reclaimed, unless panics lost them all.
WaitingCallServed ==
  StatementsEnd =>
    \A j \in Jobs : pc[j] = "waiting" ~> (pc[j] = "permitted" \/ lost = Conns)

\* What the module's header says of the timeout (analytics.rs:13, "an external
\* timeout that interrupts a runaway query"): a timed-out query stops.
TimedOutQueryStops ==
  \A j \in Jobs : pc[j] = "reclaiming" ~> pc[j] = "idle"

\* What Cargo.toml:37 says ("the connection pool and auth path deliberately
\* recover from panicked spawn_blocking tasks"): if no statement runs forever,
\* panicked tasks do not keep later calls from getting a connection.
PoolRecoversFromPanics ==
  StatementsEnd => \A j \in Jobs : pc[j] = "waiting" ~> pc[j] = "permitted"

-----------------------------------------------------------------------------
(* Refinement. *)

\* The lease of each connection: free while idle, lost after a panic, else
\* held by the job whose tasks own it.
LeaseOf ==
  [c \in Conns |->
     IF c \in idle THEN "free"
     ELSE IF c \in lost THEN "lost"
     ELSE CHOOSE j \in Jobs : slot[j] = c]

\* The jobs whose query was cut short by an interrupt.
CutJobs == {j \in Jobs : task[j] = "interrupted"}

Lease == INSTANCE ConnectionLease WITH lease <- LeaseOf, cut <- CutJobs,
           late <- {j \in Jobs : pc[j] = "reclaiming"}

\* The pool hands out leases: every step is one grant, return, loss, timeout or
\* cut of the abstract pool, or invisible to it.
ImplementsLease == Lease!Spec
=============================================================================
