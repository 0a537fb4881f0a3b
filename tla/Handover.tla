------------------------------ MODULE Handover ------------------------------
(***************************************************************************)
(* A rebuild hands over from one Serving to the next (src/analytics.rs,    *)
(* `rebuild` and `current`): two copies of ServingPool side by side.       *)
(* Calls clone the Arc of the Serving that is current when they begin, and *)
(* stay with its connections, permits and interrupt handles to their end;  *)
(* the replaced one closes with its last Arc.  What rebuild writes to disk *)
(* is Refresh; one handover stands for each of many.                       *)
(***************************************************************************)
EXTENDS Integers, FiniteSets

CONSTANTS Jobs, Conns, MaxStatements, NoConn   \* as in ServingPool

ASSUME PoolsAssumption ==
  /\ IsFiniteSet(Conns) /\ Conns # {} /\ NoConn \notin Conns
  /\ IsFiniteSet(Jobs) /\ {"free", "lost"} \cap Jobs = {}
  /\ MaxStatements \in Nat

VARIABLES
  permits1, idle1, pc1, task1, slot1, handle1, left1, interrupted1, lost1,
  permits2, idle2, pc2, task2, slot2, handle2, left2, interrupted2, lost2,
  rebuild   \* "built" (the second Serving is open), "swapped", "returned"

first  == <<permits1, idle1, pc1, task1, slot1, handle1, left1, interrupted1, lost1>>
second == <<permits2, idle2, pc2, task2, slot2, handle2, left2, interrupted2, lost2>>
vars == <<first, second, rebuild>>

First == INSTANCE ServingPool WITH
  permits <- permits1, idle <- idle1, pc <- pc1, task <- task1, slot <- slot1,
  handle <- handle1, left <- left1, interrupted <- interrupted1, lost <- lost1

Second == INSTANCE ServingPool WITH
  permits <- permits2, idle <- idle2, pc <- pc2, task <- task2, slot <- slot2,
  handle <- handle2, left <- left2, interrupted <- interrupted2, lost <- lost2

\* build_and_open returned: the second Serving has connections and permits of
\* its own.
Init == First!Init /\ Second!Init /\ rebuild = "built"

Free(j) == pc1[j] = "idle" /\ pc2[j] = "idle"

\* Mutant: a session keeps the Arc it cloned for its first call.
Begin_Cached(j) == Free(j) /\ First!Call(j) /\ UNCHANGED <<second, rebuild>>

\* A call begins: current() clones the Arc and checkout starts to wait.
Begin(j) ==
  /\ Free(j)
  /\ \/ rebuild = "built" /\ First!Call(j) /\ UNCHANGED second
     \/ rebuild # "built" /\ Second!Call(j) /\ UNCHANGED first
  /\ UNCHANGED rebuild

\* A call, its blocking task or its reclaim task goes on where it began.
GoOn(j) ==
  \/ /\ pc1[j] # "idle"
     /\ First!HandlerStep(j) \/ First!TaskStep(j) \/ First!ReclaimStep(j)
     /\ UNCHANGED <<second, rebuild>>
  \/ /\ pc2[j] # "idle"
     /\ Second!HandlerStep(j) \/ Second!TaskStep(j) \/ Second!ReclaimStep(j)
     /\ UNCHANGED <<first, rebuild>>

\* Mutant: the new Serving is given the semaphore of the old one.
Swap_SharesSemaphore ==
  /\ rebuild = "built"
  /\ rebuild' = "swapped"
  /\ permits2' = permits1
  /\ UNCHANGED <<first, idle2, pc2, task2, slot2, handle2, left2, interrupted2, lost2>>

\* mem::replace under the write lock.
Swap ==
  /\ rebuild = "built"
  /\ rebuild' = "swapped"
  /\ UNCHANGED <<first, second>>

\* The old file is removed and rebuild's own Arc dropped.
Return ==
  /\ rebuild = "swapped"
  /\ rebuild' = "returned"
  /\ UNCHANGED <<first, second>>

Next == Swap \/ Return \/ \E j \in Jobs : Begin(j) \/ GoOn(j)

Spec == Init /\ [][Next]_vars

\* Both pools are scheduled as one is; rebuild, once past the build, returns.
FairSpec == Spec /\ First!Fairness /\ Second!Fairness /\ WF_vars(Return)

-----------------------------------------------------------------------------
\* Nobody has an Arc of the first Serving: its connections and its database
\* are closed.
Closed == rebuild = "returned" /\ \A j \in Jobs : pc1[j] = "idle"

\* If no statement runs forever, a replaced Serving is closed in the end, and
\* stays so, with the calls it had, timed out and reclaimed ones among them:
\* refreshes do not pile up databases (analytics.rs:231).  Unless panics lost
\* all of its connections: then a call that waits for one keeps it open.
ReplacedServingCloses ==
  First!StatementsEnd => <>[](rebuild = "built" \/ Closed \/ lost1 = Conns)

\* A call that begins after the swap gets a connection of the new Serving,
\* however many of the old one's are lost or stuck in statements that never end
\* (analytics.rs:226): only the new pool's own statements have to end.
FreshCallServed ==
  Second!StatementsEnd =>
    \A j \in Jobs : pc2[j] = "waiting" ~> (pc2[j] = "permitted" \/ lost2 = Conns)
=============================================================================
