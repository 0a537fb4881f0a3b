------------------------- MODULE ServingPool_proofs -------------------------
(***************************************************************************)
(* Theorems about ServingPool, for any finite sets of jobs and connections *)
(* and any number of statements.                                           *)
(***************************************************************************)
EXTENDS ServingPool, FiniteSetTheorems, TLAPS


-----------------------------------------------------------------------------
(* The inductive invariant. *)

\* A job has a blocking task between Pop and the check-in (or the forgotten
\* permit); the task owns a connection until it panics, and the handler keeps
\* a handle as long as there is a task.
TaskShape ==
  \A j \in Jobs :
    /\ task[j] # "none" <=> pc[j] \in {"running", "expired", "reclaiming"}
    /\ slot[j] # NoConn <=> task[j] \notin {"none", "panicked"}
    /\ handle[j] # NoConn <=> task[j] # "none"

\* Idle, lost and owned connections do not overlap ...
Disjoint ==
  /\ idle \cap lost = {}
  /\ \A j \in Jobs : slot[j] \notin idle \cup lost
  /\ \A i, j \in Jobs : slot[i] = slot[j] /\ slot[i] # NoConn => i = j

\* ... and are all there are.
Complete == \A c \in Conns : c \in idle \cup lost \/ \E j \in Jobs : slot[j] = c

\* Until the interrupt has been fired, the handle is that of the connection
\* the job's task owns or has lost.
OwnHandle ==
  \A j \in Jobs :
    pc[j] \in {"running", "expired"} =>
      handle[j] \in lost \cup {slot[j]}

\* The interrupt flag of a running statement was set for that very call.
OwnInterrupt ==
  \A j \in Jobs :
    task[j] = "stmt" /\ interrupted[slot[j]] => pc[j] = "reclaiming"

Inv ==
  /\ TypeOK
  /\ TaskShape
  /\ Disjoint
  /\ Complete
  /\ OwnHandle
  /\ OwnInterrupt
  /\ NoForeignInterrupt
  /\ PermitsMatchIdle

-----------------------------------------------------------------------------

\* A step is a stutter or an action of one job.
LEMMA StepCases ==
  ASSUME [Next]_vars
  PROVE  \/ UNCHANGED vars
         \/ \E j \in Jobs : HandlerStep(j) \/ TaskStep(j) \/ ReclaimStep(j)
  BY DEF Next

Shaped == TypeOK /\ TaskShape

LEMMA InitShaped == Init => Shaped
  BY ConnsAssumption, StatementsAssumption, NoConnAssumption, FS_CardinalityType
  DEF Init, Shaped, TypeOK, TaskShape, PcStates, TaskStates

LEMMA StepShaped == Shaped /\ [Next]_vars => Shaped'
  <1> USE NoConnAssumption, StatementsAssumption DEF Shaped, TypeOK, TaskShape, PcStates, TaskStates
  <1> SUFFICES ASSUME Shaped, [Next]_vars PROVE Shaped'
    OBVIOUS
  <1>0. CASE UNCHANGED vars
    BY <1>0 DEF vars
  <1>1. CASE \E j \in Jobs : HandlerStep(j) \/ TaskStep(j) \/ ReclaimStep(j)
    <2> SUFFICES ASSUME NEW j \in Jobs,
                        HandlerStep(j) \/ TaskStep(j) \/ ReclaimStep(j)
                 PROVE  Shaped'
      BY <1>1
    <2>1. CASE Call(j)
      BY <2>1 DEF Call, Goto
    <2>2. CASE Acquire(j)
      BY <2>2 DEF Acquire, Goto
    <2>3. CASE Pop(j)
      BY <2>3 DEF Pop, Dispatch, Goto
    <2>4. CASE CheckIn(j)
      BY <2>4 DEF CheckIn, PutBack, Clear, Goto
    <2>5. CASE Release(j)
      BY <2>5 DEF Release, DropPermit, Goto
    <2>6. CASE TaskFailed(j)
      BY <2>6 DEF TaskFailed, ForgetPermit, Clear, Goto
    <2>7. CASE Expire(j)
      BY <2>7 DEF Expire, Goto
    <2>8. CASE Interrupt(j)
      BY <2>8 DEF Interrupt, Goto
    <2>9. CASE BeginStatement(j)
      BY <2>9 DEF BeginStatement, SetTask
    <2>10. CASE FinishStatement(j)
      BY <2>10 DEF FinishStatement, SetTask
    <2>11. CASE FailStatement(j)
      BY <2>11 DEF FailStatement, SetTask
    <2>12. CASE StopOnInterrupt(j)
      BY <2>12 DEF StopOnInterrupt, SetTask
    <2>13. CASE EndTask(j)
      BY <2>13 DEF EndTask, SetTask
    <2>14. CASE PanicTask(j)
      BY <2>14 DEF PanicTask, SetTask
    <2>15. CASE ReclaimCheckIn(j)
      BY <2>15 DEF ReclaimCheckIn, PutBack, Clear, Goto
    <2>16. CASE ReclaimRelease(j)
      BY <2>16 DEF ReclaimRelease, DropPermit, Goto
    <2>17. CASE ReclaimLost(j)
      BY <2>17 DEF ReclaimLost, ForgetPermit, Clear, Goto
    <2> QED
      BY <2>1, <2>2, <2>3, <2>4, <2>5, <2>6, <2>7, <2>8, <2>9, <2>10, <2>11, <2>12, <2>13, <2>14, <2>15, <2>16, <2>17
      DEF HandlerStep, TaskStep, ReclaimStep
  <1> QED
    BY <1>0, <1>1, StepCases

-----------------------------------------------------------------------------

Placed == Disjoint /\ Complete

LEMMA InitPlaced == Init => Placed
  BY NoConnAssumption DEF Init, Placed, Disjoint, Complete

LEMMA StepPlaced == Shaped /\ Placed /\ [Next]_vars => Placed'
  <1> USE NoConnAssumption DEF Shaped, TypeOK, TaskShape, PcStates, TaskStates, Placed, Disjoint, Complete
  <1> SUFFICES ASSUME Shaped /\ Placed, [Next]_vars PROVE Placed'
    OBVIOUS
  <1>0. CASE UNCHANGED vars
    BY <1>0 DEF vars
  <1>1. CASE \E j \in Jobs : HandlerStep(j) \/ TaskStep(j) \/ ReclaimStep(j)
    <2> SUFFICES ASSUME NEW j \in Jobs,
                        HandlerStep(j) \/ TaskStep(j) \/ ReclaimStep(j)
                 PROVE  Placed'
      BY <1>1
    <2>1. CASE Call(j)
      BY <2>1 DEF Call, Goto
    <2>2. CASE Acquire(j)
      BY <2>2 DEF Acquire, Goto
    <2>3. CASE Pop(j)
      BY <2>3 DEF Pop, Dispatch, Goto
    <2>4. CASE CheckIn(j)
      BY <2>4 DEF CheckIn, PutBack, Clear, Goto
    <2>5. CASE Release(j)
      BY <2>5 DEF Release, DropPermit, Goto
    <2>6. CASE TaskFailed(j)
      BY <2>6 DEF TaskFailed, ForgetPermit, Clear, Goto
    <2>7. CASE Expire(j)
      BY <2>7 DEF Expire, Goto
    <2>8. CASE Interrupt(j)
      BY <2>8 DEF Interrupt, Goto
    <2>9. CASE BeginStatement(j)
      BY <2>9 DEF BeginStatement, SetTask
    <2>10. CASE FinishStatement(j)
      BY <2>10 DEF FinishStatement, SetTask
    <2>11. CASE FailStatement(j)
      BY <2>11 DEF FailStatement, SetTask
    <2>12. CASE StopOnInterrupt(j)
      BY <2>12 DEF StopOnInterrupt, SetTask
    <2>13. CASE EndTask(j)
      BY <2>13 DEF EndTask, SetTask
    <2>14. CASE PanicTask(j)
      BY <2>14 DEF PanicTask, SetTask
    <2>15. CASE ReclaimCheckIn(j)
      BY <2>15 DEF ReclaimCheckIn, PutBack, Clear, Goto
    <2>16. CASE ReclaimRelease(j)
      BY <2>16 DEF ReclaimRelease, DropPermit, Goto
    <2>17. CASE ReclaimLost(j)
      BY <2>17 DEF ReclaimLost, ForgetPermit, Clear, Goto
    <2> QED
      BY <2>1, <2>2, <2>3, <2>4, <2>5, <2>6, <2>7, <2>8, <2>9, <2>10, <2>11, <2>12, <2>13, <2>14, <2>15, <2>16, <2>17
      DEF HandlerStep, TaskStep, ReclaimStep
  <1> QED
    BY <1>0, <1>1, StepCases

-----------------------------------------------------------------------------

Targeted == OwnHandle /\ OwnInterrupt /\ NoForeignInterrupt

LEMMA InitTargeted == Init => Targeted
  BY DEF Init, Targeted, OwnHandle, OwnInterrupt, NoForeignInterrupt

LEMMA StepTargeted == Shaped /\ Disjoint /\ Targeted /\ [Next]_vars => Targeted'
  <1> USE NoConnAssumption DEF Shaped, TypeOK, TaskShape, PcStates, TaskStates, Disjoint, Targeted, OwnHandle, OwnInterrupt,
          NoForeignInterrupt
  <1> SUFFICES ASSUME Shaped /\ Disjoint /\ Targeted, [Next]_vars PROVE Targeted'
    OBVIOUS
  <1>0. CASE UNCHANGED vars
    BY <1>0 DEF vars
  <1>1. CASE \E j \in Jobs : HandlerStep(j) \/ TaskStep(j) \/ ReclaimStep(j)
    <2> SUFFICES ASSUME NEW j \in Jobs,
                        HandlerStep(j) \/ TaskStep(j) \/ ReclaimStep(j)
                 PROVE  Targeted'
      BY <1>1
    <2>1. CASE Call(j)
      BY <2>1 DEF Call, Goto
    <2>2. CASE Acquire(j)
      BY <2>2 DEF Acquire, Goto
    <2>3. CASE Pop(j)
      BY <2>3 DEF Pop, Dispatch, Goto
    <2>4. CASE CheckIn(j)
      BY <2>4 DEF CheckIn, PutBack, Clear, Goto
    <2>5. CASE Release(j)
      BY <2>5 DEF Release, DropPermit, Goto
    <2>6. CASE TaskFailed(j)
      BY <2>6 DEF TaskFailed, ForgetPermit, Clear, Goto
    <2>7. CASE Expire(j)
      BY <2>7 DEF Expire, Goto
    <2>8. CASE Interrupt(j)
      BY <2>8 DEF Interrupt, Goto
    <2>9. CASE BeginStatement(j)
      BY <2>9 DEF BeginStatement, SetTask
    <2>10. CASE FinishStatement(j)
      BY <2>10 DEF FinishStatement, SetTask
    <2>11. CASE FailStatement(j)
      BY <2>11 DEF FailStatement, SetTask
    <2>12. CASE StopOnInterrupt(j)
      BY <2>12 DEF StopOnInterrupt, SetTask
    <2>13. CASE EndTask(j)
      BY <2>13 DEF EndTask, SetTask
    <2>14. CASE PanicTask(j)
      BY <2>14 DEF PanicTask, SetTask
    <2>15. CASE ReclaimCheckIn(j)
      BY <2>15 DEF ReclaimCheckIn, PutBack, Clear, Goto
    <2>16. CASE ReclaimRelease(j)
      BY <2>16 DEF ReclaimRelease, DropPermit, Goto
    <2>17. CASE ReclaimLost(j)
      BY <2>17 DEF ReclaimLost, ForgetPermit, Clear, Goto
    <2> QED
      BY <2>1, <2>2, <2>3, <2>4, <2>5, <2>6, <2>7, <2>8, <2>9, <2>10, <2>11, <2>12, <2>13, <2>14, <2>15, <2>16, <2>17
      DEF HandlerStep, TaskStep, ReclaimStep
  <1> QED
    BY <1>0, <1>1, StepCases

-----------------------------------------------------------------------------
(* Counting permits. *)

LEMMA InitCounted == Init => PermitsMatchIdle
<1> SUFFICES ASSUME Init PROVE PermitsMatchIdle
  OBVIOUS
<1>1. HoldingPermitOnly = {}
  BY DEF Init, HoldingPermitOnly
<1>2. Cardinality(HoldingPermitOnly) = 0
  BY <1>1, FS_EmptySet
<1>3. Cardinality(Conns) \in Nat
  BY ConnsAssumption, FS_CardinalityType
<1> QED
  BY <1>2, <1>3 DEF Init, PermitsMatchIdle

LEMMA FiniteParts ==
  ASSUME Shaped
  PROVE  /\ IsFiniteSet(HoldingPermitOnly) /\ Cardinality(HoldingPermitOnly) \in Nat
         /\ IsFiniteSet(idle) /\ Cardinality(idle) \in Nat
<1>1. HoldingPermitOnly \in SUBSET Jobs /\ idle \in SUBSET Conns
  BY DEF Shaped, TypeOK, HoldingPermitOnly
<1>2. IsFiniteSet(HoldingPermitOnly) /\ IsFiniteSet(idle)
  BY <1>1, JobsAssumption, ConnsAssumption, FS_Subset
<1> QED
  BY <1>2, FS_CardinalityType

\* An action that moves neither a connection nor a permit.
LEMMA CountUnchanged ==
  ASSUME PermitsMatchIdle, HoldingPermitOnly' = HoldingPermitOnly,
         idle' = idle, permits' = permits
  PROVE  PermitsMatchIdle'
  BY DEF PermitsMatchIdle

LEMMA StepCounted ==
  Shaped /\ Disjoint /\ PermitsMatchIdle /\ [Next]_vars => PermitsMatchIdle'
  <1> USE DEF Shaped, TypeOK, PcStates
  <1> SUFFICES ASSUME Shaped, Disjoint, PermitsMatchIdle, [Next]_vars
               PROVE  PermitsMatchIdle'
    OBVIOUS
  <1>0. CASE UNCHANGED vars
    BY <1>0, CountUnchanged DEF vars, HoldingPermitOnly
  <1>1. CASE \E j \in Jobs : HandlerStep(j) \/ TaskStep(j) \/ ReclaimStep(j)
    <2> SUFFICES ASSUME NEW j \in Jobs,
                        HandlerStep(j) \/ TaskStep(j) \/ ReclaimStep(j)
                 PROVE  PermitsMatchIdle'
      BY <1>1
    <2> DEFINE H == HoldingPermitOnly
    <2>1. CASE Call(j)
      BY <2>1, CountUnchanged DEF Call, Goto, HoldingPermitOnly
    <2>2. CASE Acquire(j)
      <3>1. j \notin H /\ H' = H \cup {j}
        BY <2>2 DEF Acquire, Goto, HoldingPermitOnly
      <3>2. Cardinality(H') = Cardinality(H) + 1
        BY <3>1, FiniteParts, FS_AddElement
      <3> QED
        BY <2>2, <3>2, FiniteParts DEF Acquire, PermitsMatchIdle
    <2>3. CASE Pop(j)
      <3>1. PICK c \in idle : idle' = idle \ {c}
        BY <2>3 DEF Pop
      <3>2. j \in H /\ H' = H \ {j}
        BY <2>3 DEF Pop, Dispatch, Goto, HoldingPermitOnly
      <3>3. Cardinality(H') = Cardinality(H) - 1
        BY <3>2, FiniteParts, FS_RemoveElement
      <3>4. Cardinality(idle') = Cardinality(idle) - 1
        BY <3>1, FiniteParts, FS_RemoveElement
      <3> QED
        BY <2>3, <3>3, <3>4, FiniteParts DEF Pop, Dispatch, PermitsMatchIdle
    <2>4. CASE CheckIn(j)
      <3>1. j \notin H /\ H' = H \cup {j}
        BY <2>4 DEF CheckIn, PutBack, Goto, HoldingPermitOnly
      <3>2. slot[j] \notin idle /\ idle' = idle \cup {slot[j]}
        BY <2>4 DEF CheckIn, PutBack, Disjoint
      <3>3. Cardinality(H') = Cardinality(H) + 1
        BY <3>1, FiniteParts, FS_AddElement
      <3>4. Cardinality(idle') = Cardinality(idle) + 1
        BY <3>2, FiniteParts, FS_AddElement
      <3> QED
        BY <2>4, <3>3, <3>4, FiniteParts DEF CheckIn, PutBack, PermitsMatchIdle
    <2>5. CASE Release(j)
      <3>1. j \in H /\ H' = H \ {j}
        BY <2>5 DEF Release, DropPermit, Goto, HoldingPermitOnly
      <3>2. Cardinality(H') = Cardinality(H) - 1
        BY <3>1, FiniteParts, FS_RemoveElement
      <3> QED
        BY <2>5, <3>2, FiniteParts DEF Release, DropPermit, PermitsMatchIdle
    <2>6. CASE TaskFailed(j)
      BY <2>6, CountUnchanged DEF TaskFailed, ForgetPermit, Clear, Goto, HoldingPermitOnly
    <2>7. CASE Expire(j)
      BY <2>7, CountUnchanged DEF Expire, Goto, HoldingPermitOnly
    <2>8. CASE Interrupt(j)
      BY <2>8, CountUnchanged DEF Interrupt, Goto, HoldingPermitOnly
    <2>9. CASE BeginStatement(j)
      BY <2>9, CountUnchanged DEF BeginStatement, SetTask, HoldingPermitOnly
    <2>10. CASE FinishStatement(j)
      BY <2>10, CountUnchanged DEF FinishStatement, SetTask, HoldingPermitOnly
    <2>11. CASE FailStatement(j)
      BY <2>11, CountUnchanged DEF FailStatement, SetTask, HoldingPermitOnly
    <2>12. CASE StopOnInterrupt(j)
      BY <2>12, CountUnchanged DEF StopOnInterrupt, SetTask, HoldingPermitOnly
    <2>13. CASE EndTask(j)
      BY <2>13, CountUnchanged DEF EndTask, SetTask, HoldingPermitOnly
    <2>14. CASE PanicTask(j)
      BY <2>14, CountUnchanged DEF PanicTask, SetTask, HoldingPermitOnly
    <2>15. CASE ReclaimCheckIn(j)
      <3>1. j \notin H /\ H' = H \cup {j}
        BY <2>15 DEF ReclaimCheckIn, PutBack, Goto, HoldingPermitOnly
      <3>2. slot[j] \notin idle /\ idle' = idle \cup {slot[j]}
        BY <2>15 DEF ReclaimCheckIn, PutBack, Disjoint
      <3>3. Cardinality(H') = Cardinality(H) + 1
        BY <3>1, FiniteParts, FS_AddElement
      <3>4. Cardinality(idle') = Cardinality(idle) + 1
        BY <3>2, FiniteParts, FS_AddElement
      <3> QED
        BY <2>15, <3>3, <3>4, FiniteParts DEF ReclaimCheckIn, PutBack, PermitsMatchIdle
    <2>16. CASE ReclaimRelease(j)
      <3>1. j \in H /\ H' = H \ {j}
        BY <2>16 DEF ReclaimRelease, DropPermit, Goto, HoldingPermitOnly
      <3>2. Cardinality(H') = Cardinality(H) - 1
        BY <3>1, FiniteParts, FS_RemoveElement
      <3> QED
        BY <2>16, <3>2, FiniteParts DEF ReclaimRelease, DropPermit, PermitsMatchIdle
    <2>17. CASE ReclaimLost(j)
      BY <2>17, CountUnchanged DEF ReclaimLost, ForgetPermit, Clear, Goto, HoldingPermitOnly
    <2> QED
      BY <2>1, <2>2, <2>3, <2>4, <2>5, <2>6, <2>7, <2>8, <2>9, <2>10, <2>11, <2>12, <2>13, <2>14, <2>15, <2>16, <2>17
      DEF HandlerStep, TaskStep, ReclaimStep
  <1> QED
    BY <1>0, <1>1, StepCases

-----------------------------------------------------------------------------
(* The theorems. *)

LEMMA Invariance == Spec => []Inv
<1>1. Init => Inv
  BY InitShaped, InitPlaced, InitTargeted, InitCounted
  DEF Inv, Shaped, Placed, Targeted
<1>2. Inv /\ [Next]_vars => Inv'
  BY StepShaped, StepPlaced, StepTargeted, StepCounted
  DEF Inv, Shaped, Placed, Targeted
<1> QED
  BY <1>1, <1>2, PTL DEF Spec

\* Type correctness.
THEOREM TypeCorrectness == Spec => []TypeOK
  BY Invariance, PTL DEF Inv

\* checkin and forget keep the permits equal to the idle connections, for any
\* pool size and any number of concurrent calls, timeouts and panics.
THEOREM PermitsStayInStep == Spec => []PermitsMatchIdle
  BY Invariance, PTL DEF Inv

\* No call that holds a permit ever fails the `expect` of checkout.
THEOREM CheckoutFindsAConnection == Spec => []PermitGuaranteesIdle
<1>1. Inv => PermitGuaranteesIdle
  <2> SUFFICES ASSUME Inv, NEW j \in Jobs, pc[j] = "permitted", idle = {}
               PROVE  FALSE
    BY DEF PermitGuaranteesIdle
  <2>1. j \in HoldingPermitOnly
    BY DEF HoldingPermitOnly
  <2>2. Cardinality(HoldingPermitOnly) # 0
    BY <2>1, FiniteParts, FS_EmptySet DEF Inv, Shaped
  <2>3. Cardinality(idle) = 0
    BY FS_EmptySet
  <2> QED
    BY <2>2, <2>3, FiniteParts DEF Inv, Shaped, TypeOK, PermitsMatchIdle
<1> QED
  BY <1>1, Invariance, PTL

\* Every connection is idle, lost, or owned by exactly one call, always.
THEOREM ConnectionsAreExclusive == Spec => []ConnectionExclusive
<1>1. Inv => ConnectionExclusive
  <2> SUFFICES ASSUME Inv, NEW c \in Conns
               PROVE  \/ c \in idle /\ c \notin lost /\ Holders(c) = {}
                      \/ c \notin idle /\ c \in lost /\ Holders(c) = {}
                      \/ /\ c \notin idle /\ c \notin lost
                         /\ \E j \in Jobs : Holders(c) = {j}
    BY DEF ConnectionExclusive
  <2>1. CASE c \in idle
    BY <2>1 DEF Inv, Disjoint, Holders
  <2>2. CASE c \in lost
    BY <2>2 DEF Inv, Disjoint, Holders
  <2>3. CASE c \notin idle \cup lost
    <3>1. PICK j \in Jobs : slot[j] = c
      BY <2>3 DEF Inv, Complete
    <3>2. Holders(c) = {j}
      BY <3>1, NoConnAssumption DEF Inv, Disjoint, Holders
    <3> QED
      BY <2>3, <3>2
  <2> QED
    BY <2>1, <2>2, <2>3
<1> QED
  BY <1>1, Invariance, PTL

\* A timeout never stops the query of another call.
THEOREM InterruptsHitTheirOwnQuery == Spec => []NoForeignInterrupt
  BY Invariance, PTL DEF Inv

-----------------------------------------------------------------------------
(* The pool implements ConnectionLease. *)

LeaseFacts ==
  /\ LeaseOf \in [Conns -> Jobs \cup {"free", "lost"}]
  /\ \A c \in Conns :
       /\ c \in idle => LeaseOf[c] = "free"
       /\ c \in lost => LeaseOf[c] = "lost"
       /\ \A j \in Jobs : slot[j] = c => LeaseOf[c] = j

LEMMA LeaseOfIsTheHolder == Inv => LeaseFacts
<1> SUFFICES ASSUME Inv PROVE LeaseFacts
  OBVIOUS
<1>1. ASSUME NEW c \in Conns
      PROVE  /\ c \in idle => LeaseOf[c] = "free"
             /\ c \in lost => LeaseOf[c] = "lost"
             /\ \A j \in Jobs : slot[j] = c => LeaseOf[c] = j
             /\ LeaseOf[c] \in Jobs \cup {"free", "lost"}
  <2>1. CASE c \in idle
    BY <2>1 DEF LeaseOf, Inv, Disjoint
  <2>2. CASE c \in lost
    BY <2>2 DEF LeaseOf, Inv, Disjoint
  <2>3. CASE c \notin idle \cup lost
    <3>1. PICK j \in Jobs : slot[j] = c
      BY <2>3 DEF Inv, Complete
    <3>2. \A i \in Jobs : slot[i] = c => i = j
      BY <3>1, NoConnAssumption DEF Inv, Disjoint
    <3>3. LeaseOf[c] = CHOOSE i \in Jobs : slot[i] = c
      BY <2>3 DEF LeaseOf
    <3>4. LeaseOf[c] = j
      BY <3>1, <3>2, <3>3
    <3> QED
      BY <2>3, <3>2, <3>4
  <2> QED
    BY <2>1, <2>2, <2>3
<1>2. LeaseOf = [c \in Conns |-> LeaseOf[c]]
  BY DEF LeaseOf
<1> QED
  BY <1>1, <1>2 DEF LeaseFacts

LEMMA LeaseOfIsTheHolderNext == Inv' => LeaseFacts'
  BY LeaseOfIsTheHolder, PTL

LEMMA HasLeaseIffSlot ==
  Inv => \A j \in Jobs : Lease!HasLease(j) <=> slot[j] # NoConn
<1> SUFFICES ASSUME Inv, NEW j \in Jobs
             PROVE  Lease!HasLease(j) <=> slot[j] # NoConn
  OBVIOUS
<1>1. ASSUME NEW c \in Conns, LeaseOf[c] = j PROVE slot[j] = c
  <2>1. c \notin idle \cup lost
    BY <1>1, LeaseOfIsTheHolder, JobsAssumption DEF LeaseFacts
  <2>2. PICK i \in Jobs : slot[i] = c
    BY <2>1 DEF Inv, Complete
  <2> QED
    BY <1>1, <2>2, LeaseOfIsTheHolder DEF LeaseFacts
<1>2. ASSUME slot[j] # NoConn PROVE LeaseOf[slot[j]] = j /\ slot[j] \in Conns
  BY <1>2, LeaseOfIsTheHolder DEF LeaseFacts, Inv, TypeOK
<1> QED
  BY <1>1, <1>2, NoConnAssumption DEF Lease!HasLease

\* The connection that moves is the only one whose lease changes.
LEMMA OnlyOneLeaseChanges ==
  ASSUME Inv, Inv', NEW c \in Conns,
         \A x \in Conns \ {c} :
           /\ x \in idle => x \in idle'
           /\ x \in lost => x \in lost'
           /\ \A j \in Jobs : slot[j] = x => slot'[j] = x
  PROVE  LeaseOf' = [LeaseOf EXCEPT ![c] = LeaseOf'[c]]
<1>1. ASSUME NEW x \in Conns \ {c} PROVE LeaseOf'[x] = LeaseOf[x]
  <2>1. CASE x \in idle \cup lost
    BY <2>1, LeaseOfIsTheHolder, LeaseOfIsTheHolderNext DEF LeaseFacts
  <2>2. CASE \E j \in Jobs : slot[j] = x
    BY <2>2, LeaseOfIsTheHolder, LeaseOfIsTheHolderNext DEF LeaseFacts
  <2> QED
    BY <2>1, <2>2 DEF Inv, Complete
<1>2. LeaseOf \in [Conns -> Jobs \cup {"free", "lost"}]
      /\ LeaseOf' \in [Conns -> Jobs \cup {"free", "lost"}]
  BY LeaseOfIsTheHolder, LeaseOfIsTheHolderNext DEF LeaseFacts
<1> QED
  BY <1>1, <1>2

Late == {j \in Jobs : pc[j] = "reclaiming"}

LEMMA StepLease ==
  Inv /\ Inv' /\ [Next]_vars => [Lease!Next]_(Lease!leaseVars)
  <1> USE DEF Inv, TypeOK, PcStates, TaskStates, TaskShape
  <1> SUFFICES ASSUME Inv, Inv', [Next]_vars
               PROVE  Lease!Next \/ UNCHANGED <<LeaseOf, Late, CutJobs>>
    BY DEF Lease!leaseVars, Late
  <1>0. CASE UNCHANGED vars
    BY <1>0 DEF vars, LeaseOf, Late, CutJobs
  <1>1. CASE \E j \in Jobs : HandlerStep(j) \/ TaskStep(j) \/ ReclaimStep(j)
    <2> SUFFICES ASSUME NEW j \in Jobs,
                        HandlerStep(j) \/ TaskStep(j) \/ ReclaimStep(j)
                 PROVE  Lease!Next \/ UNCHANGED <<LeaseOf, Late, CutJobs>>
      BY <1>1
    <2>1. CASE Call(j)
      BY <2>1 DEF Call, Goto, LeaseOf, Late, CutJobs
    <2>2. CASE Acquire(j)
      BY <2>2 DEF Acquire, Goto, LeaseOf, Late, CutJobs
    <2>3. CASE Pop(j)
      <3>1. PICK c \in idle : idle' = idle \ {c} /\ slot' = [slot EXCEPT ![j] = c]
        BY <2>3 DEF Pop, Dispatch
      <3>2. LeaseOf' = [LeaseOf EXCEPT ![c] = j]
        <4>1. LeaseOf' = [LeaseOf EXCEPT ![c] = LeaseOf'[c]]
          BY <2>3, <3>1, OnlyOneLeaseChanges, NoConnAssumption DEF Pop, Dispatch
        <4>2. LeaseOf'[c] = j
          BY <3>1, LeaseOfIsTheHolderNext DEF LeaseFacts
        <4> QED
          BY <4>1, <4>2
      <3>3. LeaseOf[c] = "free" /\ ~ Lease!HasLease(j) /\ j \notin Late
        BY <2>3, <3>1, LeaseOfIsTheHolder, HasLeaseIffSlot DEF Pop, LeaseFacts, Late
      <3>4. Late' = Late /\ CutJobs' = CutJobs
        BY <2>3 DEF Pop, Dispatch, Goto, Late, CutJobs
      <3>5. Lease!Grant(j, c)
        BY <3>2, <3>3, <3>4 DEF Lease!Grant, Late
      <3> QED
        BY <3>1, <3>5 DEF Lease!Next
    <2>4. CASE CheckIn(j)
      <3>0. PICK c \in Conns : c = slot[j]
        BY <2>4 DEF CheckIn, PutBack
      <3>1. c \in Conns /\ idle' = idle \cup {c} /\ slot' = [slot EXCEPT ![j] = NoConn]
        BY <2>4, <3>0 DEF CheckIn, PutBack, Clear
      <3>2. LeaseOf' = [LeaseOf EXCEPT ![c] = "free"]
        <4>1. LeaseOf' = [LeaseOf EXCEPT ![c] = LeaseOf'[c]]
          BY <2>4, <3>0, <3>1, OnlyOneLeaseChanges DEF CheckIn, PutBack
        <4>2. LeaseOf'[c] = "free"
          BY <3>1, LeaseOfIsTheHolderNext DEF LeaseFacts
        <4> QED
          BY <4>1, <4>2
      <3>3. LeaseOf[c] = j
        BY <3>0, LeaseOfIsTheHolder DEF LeaseFacts
      <3>4. Late' = Late \ {j} /\ CutJobs' = CutJobs \ {j}
        BY <2>4 DEF CheckIn, PutBack, Clear, Goto, Late, CutJobs
      <3>5. Lease!Return(j, c)
        BY <3>2, <3>3, <3>4 DEF Lease!Return, Late
      <3> QED
        BY <3>1, <3>5 DEF Lease!Next
    <2>5. CASE Release(j)
      BY <2>5 DEF Release, DropPermit, Goto, LeaseOf, Late, CutJobs
    <2>6. CASE TaskFailed(j)
      <3>1. slot' = slot /\ idle' = idle /\ lost' = lost
        BY <2>6 DEF TaskFailed, ForgetPermit, Clear, Goto
      <3>2. LeaseOf' = LeaseOf
        BY <3>1 DEF LeaseOf
      <3>3. Late' = Late /\ CutJobs' = CutJobs
        BY <2>6 DEF TaskFailed, ForgetPermit, Clear, Goto, Late, CutJobs
      <3> QED
        BY <3>2, <3>3
    <2>7. CASE Expire(j)
      BY <2>7 DEF Expire, Goto, LeaseOf, Late, CutJobs
    <2>8. CASE Interrupt(j)
      <3>1. Late' = Late \cup {j} /\ CutJobs' = CutJobs /\ LeaseOf' = LeaseOf
        BY <2>8 DEF Interrupt, Goto, Late, CutJobs, LeaseOf
      <3> QED
        BY <3>1 DEF Lease!RunLate, Lease!Next, Late
    <2>9. CASE BeginStatement(j)
      BY <2>9 DEF BeginStatement, SetTask, LeaseOf, Late, CutJobs
    <2>10. CASE FinishStatement(j)
      BY <2>10 DEF FinishStatement, SetTask, LeaseOf, Late, CutJobs
    <2>11. CASE FailStatement(j)
      BY <2>11 DEF FailStatement, SetTask, LeaseOf, Late, CutJobs
    <2>12. CASE StopOnInterrupt(j)
      <3>1. Late' = Late /\ CutJobs' = CutJobs \cup {j} /\ LeaseOf' = LeaseOf
        BY <2>12 DEF StopOnInterrupt, SetTask, Late, CutJobs, LeaseOf
      <3>2. j \in Late /\ Lease!HasLease(j)
        BY <2>12, HasLeaseIffSlot DEF StopOnInterrupt, OwnInterrupt, Late
      <3> QED
        BY <3>1, <3>2 DEF Lease!Cut, Lease!Next, Late
    <2>13. CASE EndTask(j)
      BY <2>13 DEF EndTask, SetTask, LeaseOf, Late, CutJobs
    <2>14. CASE PanicTask(j)
      <3>0. PICK c \in Conns : c = slot[j]
        BY <2>14 DEF PanicTask
      <3>1. /\ c \in Conns /\ lost' = lost \cup {c} /\ idle' = idle
            /\ slot' = [slot EXCEPT ![j] = NoConn]
        BY <2>14, <3>0 DEF PanicTask
      <3>2. LeaseOf' = [LeaseOf EXCEPT ![c] = "lost"]
        <4>1. LeaseOf' = [LeaseOf EXCEPT ![c] = LeaseOf'[c]]
          BY <3>0, <3>1, OnlyOneLeaseChanges
        <4>2. LeaseOf'[c] = "lost"
          BY <3>1, LeaseOfIsTheHolderNext DEF LeaseFacts
        <4> QED
          BY <4>1, <4>2
      <3>3. LeaseOf[c] = j /\ j \notin CutJobs
        BY <2>14, <3>0, LeaseOfIsTheHolder DEF LeaseFacts, CutJobs, PanicTask
      <3>4. Late' = Late /\ CutJobs' = CutJobs
        BY <2>14 DEF PanicTask, SetTask, Late, CutJobs
      <3>5. Lease!Lose(j, c)
        BY <3>2, <3>3, <3>4 DEF Lease!Lose, Late
      <3> QED
        BY <3>1, <3>5 DEF Lease!Next
    <2>15. CASE ReclaimCheckIn(j)
      <3>0. PICK c \in Conns : c = slot[j]
        BY <2>15 DEF ReclaimCheckIn, PutBack
      <3>1. c \in Conns /\ idle' = idle \cup {c} /\ slot' = [slot EXCEPT ![j] = NoConn]
        BY <2>15, <3>0 DEF ReclaimCheckIn, PutBack, Clear
      <3>2. LeaseOf' = [LeaseOf EXCEPT ![c] = "free"]
        <4>1. LeaseOf' = [LeaseOf EXCEPT ![c] = LeaseOf'[c]]
          BY <2>15, <3>0, <3>1, OnlyOneLeaseChanges DEF ReclaimCheckIn, PutBack
        <4>2. LeaseOf'[c] = "free"
          BY <3>1, LeaseOfIsTheHolderNext DEF LeaseFacts
        <4> QED
          BY <4>1, <4>2
      <3>3. LeaseOf[c] = j
        BY <3>0, LeaseOfIsTheHolder DEF LeaseFacts
      <3>4. Late' = Late \ {j} /\ CutJobs' = CutJobs \ {j}
        BY <2>15 DEF ReclaimCheckIn, PutBack, Clear, Goto, Late, CutJobs
      <3>5. Lease!Return(j, c)
        BY <3>2, <3>3, <3>4 DEF Lease!Return, Late
      <3> QED
        BY <3>1, <3>5 DEF Lease!Next
    <2>16. CASE ReclaimRelease(j)
      BY <2>16 DEF ReclaimRelease, DropPermit, Goto, LeaseOf, Late, CutJobs
    <2>17. CASE ReclaimLost(j)
      <3>1. slot[j] = NoConn /\ slot' = slot /\ idle' = idle /\ lost' = lost
        BY <2>17 DEF ReclaimLost, ForgetPermit, Clear
      <3>2. Late' = Late \ {j} /\ CutJobs' = CutJobs /\ LeaseOf' = LeaseOf
        <4>1. LeaseOf' = LeaseOf
          BY <3>1 DEF LeaseOf
        <4>2. Late' = Late \ {j} /\ CutJobs' = CutJobs
          BY <2>17 DEF ReclaimLost, ForgetPermit, Clear, Goto, Late, CutJobs
        <4> QED
          BY <4>1, <4>2
      <3>3. j \in Late /\ ~ Lease!HasLease(j)
        BY <2>17, <3>1, HasLeaseIffSlot DEF ReclaimLost, Late
      <3> QED
        BY <3>2, <3>3 DEF Lease!GiveUp, Lease!Next, Late
    <2> QED
      BY <2>1, <2>2, <2>3, <2>4, <2>5, <2>6, <2>7, <2>8, <2>9, <2>10, <2>11, <2>12, <2>13, <2>14, <2>15, <2>16, <2>17
      DEF HandlerStep, TaskStep, ReclaimStep
  <1> QED
    BY <1>0, <1>1, StepCases

\* Every step of the pool is a step of the abstract lease, or invisible to it.
THEOREM PoolImplementsLease == Spec => ImplementsLease
<1>1. Init => Lease!Init
  BY DEF Init, Lease!Init, LeaseOf, CutJobs
<1> QED
  BY <1>1, StepLease, Invariance, PTL DEF Spec, ImplementsLease, Lease!Spec
=============================================================================
