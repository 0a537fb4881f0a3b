-------------------------- MODULE Handover_proofs --------------------------
(***************************************************************************)
(* Across a handover both pools are what ServingPool says, whatever the    *)
(* other one does: what is proved of ServingPool holds of each.            *)
(***************************************************************************)
EXTENDS Handover, TLAPS

LEMMA InitBoth == Init => First!Init /\ Second!Init
BY DEF Init

(* A step moves one pool, or none. *)
LEMMA StepOfFirst == ASSUME [Next]_vars PROVE [First!Next]_first
<1>1. CASE UNCHANGED vars
  BY <1>1 DEF vars
<1>2. CASE Swap \/ Return
  BY <1>2 DEF Swap, Return
<1>3. ASSUME NEW j \in Jobs, Begin(j) PROVE [First!Next]_first
  BY <1>3 DEF Begin, First!Next, First!HandlerStep
<1>4. ASSUME NEW j \in Jobs, GoOn(j) PROVE [First!Next]_first
  BY <1>4 DEF GoOn, First!Next
<1> QED
  BY <1>1, <1>2, <1>3, <1>4 DEF Next

LEMMA StepOfSecond == ASSUME [Next]_vars PROVE [Second!Next]_second
<1>1. CASE UNCHANGED vars
  BY <1>1 DEF vars
<1>2. CASE Swap \/ Return
  BY <1>2 DEF Swap, Return
<1>3. ASSUME NEW j \in Jobs, Begin(j) PROVE [Second!Next]_second
  BY <1>3 DEF Begin, Second!Next, Second!HandlerStep
<1>4. ASSUME NEW j \in Jobs, GoOn(j) PROVE [Second!Next]_second
  BY <1>4 DEF GoOn, Second!Next
<1> QED
  BY <1>1, <1>2, <1>3, <1>4 DEF Next

\* Through the swap of a rebuild, the replaced Serving's pool and the new one's
\* both behave as a pool on its own (rebuild, current).
THEOREM BothArePools == Spec => First!Spec /\ Second!Spec
<1>1. Init => First!Init /\ Second!Init
  BY InitBoth
<1>2. [Next]_vars => [First!Next]_First!vars /\ [Second!Next]_Second!vars
  BY StepOfFirst, StepOfSecond DEF first, second, First!vars, Second!vars
<1> QED
  BY <1>1, <1>2, PTL DEF Spec, First!Spec, Second!Spec

-----------------------------------------------------------------------------
(* So what ServingPool_proofs proves holds of each of them. *)

OfFirst == INSTANCE ServingPool_proofs WITH
  permits <- permits1, idle <- idle1, pc <- pc1, task <- task1, slot <- slot1,
  handle <- handle1, left <- left1, interrupted <- interrupted1, lost <- lost1

OfSecond == INSTANCE ServingPool_proofs WITH
  permits <- permits2, idle <- idle2, pc <- pc2, task <- task2, slot <- slot2,
  handle <- handle2, left <- left2, interrupted <- interrupted2, lost <- lost2

LEMMA InstancesAssumption ==
  /\ OfFirst!IsFiniteSet(Conns) /\ OfFirst!IsFiniteSet(Jobs)
  /\ OfSecond!IsFiniteSet(Conns) /\ OfSecond!IsFiniteSet(Jobs)
BY PoolsAssumption DEF IsFiniteSet, OfFirst!IsFiniteSet, OfSecond!IsFiniteSet

LEMMA FirstIsInstance == First!Spec => OfFirst!Spec
<1>1. First!Init => OfFirst!Init
  <2>1. First!Cardinality(Conns) = OfFirst!Cardinality(Conns)
    BY DEF First!Cardinality, OfFirst!Cardinality
  <2> QED
    BY <2>1 DEF First!Init, OfFirst!Init
<1>2. [First!Next]_First!vars => [OfFirst!Next]_OfFirst!vars
  BY DEF
        First!Next, First!HandlerStep, First!TaskStep, First!ReclaimStep, First!Call,
        First!Acquire, First!Pop, First!Dispatch, First!Goto, First!CheckIn, First!PutBack,
        First!Clear, First!Release, First!DropPermit, First!TaskFailed, First!ForgetPermit,
        First!Expire, First!TaskOver, First!Interrupt, First!BeginStatement,
        First!FinishStatement, First!FailStatement, First!StopOnInterrupt, First!EndTask,
        First!PanicTask, First!SetTask, First!ReclaimCheckIn, First!ReclaimRelease,
        First!ReclaimLost, First!vars,
        OfFirst!Next, OfFirst!HandlerStep, OfFirst!TaskStep, OfFirst!ReclaimStep, OfFirst!Call,
        OfFirst!Acquire, OfFirst!Pop, OfFirst!Dispatch, OfFirst!Goto, OfFirst!CheckIn,
        OfFirst!PutBack, OfFirst!Clear, OfFirst!Release, OfFirst!DropPermit, OfFirst!TaskFailed,
        OfFirst!ForgetPermit, OfFirst!Expire, OfFirst!TaskOver, OfFirst!Interrupt,
        OfFirst!BeginStatement, OfFirst!FinishStatement, OfFirst!FailStatement,
        OfFirst!StopOnInterrupt, OfFirst!EndTask, OfFirst!PanicTask, OfFirst!SetTask,
        OfFirst!ReclaimCheckIn, OfFirst!ReclaimRelease, OfFirst!ReclaimLost, OfFirst!vars
<1> QED
  BY <1>1, <1>2, PTL DEF First!Spec, OfFirst!Spec

LEMMA SecondIsInstance == Second!Spec => OfSecond!Spec
<1>1. Second!Init => OfSecond!Init
  <2>1. Second!Cardinality(Conns) = OfSecond!Cardinality(Conns)
    BY DEF Second!Cardinality, OfSecond!Cardinality
  <2> QED
    BY <2>1 DEF Second!Init, OfSecond!Init
<1>2. [Second!Next]_Second!vars => [OfSecond!Next]_OfSecond!vars
  BY DEF
        Second!Next, Second!HandlerStep, Second!TaskStep, Second!ReclaimStep, Second!Call,
        Second!Acquire, Second!Pop, Second!Dispatch, Second!Goto, Second!CheckIn, Second!PutBack,
        Second!Clear, Second!Release, Second!DropPermit, Second!TaskFailed, Second!ForgetPermit,
        Second!Expire, Second!TaskOver, Second!Interrupt, Second!BeginStatement,
        Second!FinishStatement, Second!FailStatement, Second!StopOnInterrupt, Second!EndTask,
        Second!PanicTask, Second!SetTask, Second!ReclaimCheckIn, Second!ReclaimRelease,
        Second!ReclaimLost, Second!vars,
        OfSecond!Next, OfSecond!HandlerStep, OfSecond!TaskStep, OfSecond!ReclaimStep,
        OfSecond!Call, OfSecond!Acquire, OfSecond!Pop, OfSecond!Dispatch, OfSecond!Goto,
        OfSecond!CheckIn, OfSecond!PutBack, OfSecond!Clear, OfSecond!Release,
        OfSecond!DropPermit, OfSecond!TaskFailed, OfSecond!ForgetPermit, OfSecond!Expire,
        OfSecond!TaskOver, OfSecond!Interrupt, OfSecond!BeginStatement, OfSecond!FinishStatement,
        OfSecond!FailStatement, OfSecond!StopOnInterrupt, OfSecond!EndTask, OfSecond!PanicTask,
        OfSecond!SetTask, OfSecond!ReclaimCheckIn, OfSecond!ReclaimRelease, OfSecond!ReclaimLost,
        OfSecond!vars
<1> QED
  BY <1>1, <1>2, PTL DEF Second!Spec, OfSecond!Spec

LEMMA FirstIsSafe ==
  Spec => [](/\ First!PermitsMatchIdle /\ First!PermitGuaranteesIdle
             /\ First!ConnectionExclusive /\ First!NoForeignInterrupt)
<1> USE InstancesAssumption, PoolsAssumption
<1>1. /\ OfFirst!Spec => []OfFirst!PermitsMatchIdle
      /\ OfFirst!Spec => []OfFirst!PermitGuaranteesIdle
      /\ OfFirst!Spec => []OfFirst!ConnectionExclusive
      /\ OfFirst!Spec => []OfFirst!NoForeignInterrupt
  BY OfFirst!PermitsStayInStep, OfFirst!CheckoutFindsAConnection,
     OfFirst!ConnectionsAreExclusive, OfFirst!InterruptsHitTheirOwnQuery
<1>2. \A S : First!Cardinality(S) = OfFirst!Cardinality(S)
  BY DEF First!Cardinality, OfFirst!Cardinality
<1>3. OfFirst!PermitsMatchIdle => First!PermitsMatchIdle
  BY <1>2 DEF First!PermitsMatchIdle, OfFirst!PermitsMatchIdle, First!HoldingPermitOnly,
              OfFirst!HoldingPermitOnly
<1>4. OfFirst!PermitGuaranteesIdle => First!PermitGuaranteesIdle
  BY DEF First!PermitGuaranteesIdle, OfFirst!PermitGuaranteesIdle
<1>5. OfFirst!ConnectionExclusive => First!ConnectionExclusive
  BY DEF First!ConnectionExclusive, OfFirst!ConnectionExclusive, First!Holders, OfFirst!Holders
<1>6. OfFirst!NoForeignInterrupt => First!NoForeignInterrupt
  BY DEF First!NoForeignInterrupt, OfFirst!NoForeignInterrupt
<1> QED
  BY <1>1, <1>3, <1>4, <1>5, <1>6, BothArePools, FirstIsInstance, PTL

LEMMA SecondIsSafe ==
  Spec => [](/\ Second!PermitsMatchIdle /\ Second!PermitGuaranteesIdle
             /\ Second!ConnectionExclusive /\ Second!NoForeignInterrupt)
<1> USE InstancesAssumption, PoolsAssumption
<1>1. /\ OfSecond!Spec => []OfSecond!PermitsMatchIdle
      /\ OfSecond!Spec => []OfSecond!PermitGuaranteesIdle
      /\ OfSecond!Spec => []OfSecond!ConnectionExclusive
      /\ OfSecond!Spec => []OfSecond!NoForeignInterrupt
  BY OfSecond!PermitsStayInStep, OfSecond!CheckoutFindsAConnection,
     OfSecond!ConnectionsAreExclusive, OfSecond!InterruptsHitTheirOwnQuery
<1>2. \A S : Second!Cardinality(S) = OfSecond!Cardinality(S)
  BY DEF Second!Cardinality, OfSecond!Cardinality
<1>3. OfSecond!PermitsMatchIdle => Second!PermitsMatchIdle
  BY <1>2 DEF Second!PermitsMatchIdle, OfSecond!PermitsMatchIdle, Second!HoldingPermitOnly,
              OfSecond!HoldingPermitOnly
<1>4. OfSecond!PermitGuaranteesIdle => Second!PermitGuaranteesIdle
  BY DEF Second!PermitGuaranteesIdle, OfSecond!PermitGuaranteesIdle
<1>5. OfSecond!ConnectionExclusive => Second!ConnectionExclusive
  BY DEF Second!ConnectionExclusive, OfSecond!ConnectionExclusive, Second!Holders, OfSecond!Holders
<1>6. OfSecond!NoForeignInterrupt => Second!NoForeignInterrupt
  BY DEF Second!NoForeignInterrupt, OfSecond!NoForeignInterrupt
<1> QED
  BY <1>1, <1>3, <1>4, <1>5, <1>6, BothArePools, SecondIsInstance, PTL


\* Through a handover and after it, in the replaced Serving and in the new one:
\* permits are in step with idle connections, a permit finds a connection,
\* each connection has one owner, and no call interrupts another's statement.
THEOREM BothPoolsAreSafe ==
  Spec => [](/\ First!PermitsMatchIdle /\ First!PermitGuaranteesIdle
             /\ First!ConnectionExclusive /\ First!NoForeignInterrupt
             /\ Second!PermitsMatchIdle /\ Second!PermitGuaranteesIdle
             /\ Second!ConnectionExclusive /\ Second!NoForeignInterrupt)
BY FirstIsSafe, SecondIsSafe, PTL

-----------------------------------------------------------------------------
(* What ReplacedServingCloses says, but for its "in the end". *)

\* Once the replaced Serving is closed, no call gets hold of it again.
THEOREM ClosedForGood == Spec => [][Closed => Closed']_vars
<1>1. ASSUME Next, Closed PROVE Closed'
  <2>1. CASE Swap \/ Return
    BY <1>1, <2>1 DEF Swap, Return, Closed
  <2>2. ASSUME NEW j \in Jobs, Begin(j) PROVE Closed'
    BY <1>1, <2>2 DEF Begin, Closed, first
  <2>3. ASSUME NEW j \in Jobs, GoOn(j) PROVE Closed'
    BY <1>1, <2>3 DEF GoOn, Closed, first
  <2> QED
    BY <1>1, <2>1, <2>2, <2>3 DEF Next
<1>2. [Next]_vars => [Closed => Closed']_vars
  BY <1>1
<1> QED
  BY <1>2, PTL DEF Spec

\* And when it closes, nothing is left running on it: no blocking task owns a
\* connection or waits to be reclaimed; all are idle, or lost to panics.
THEOREM ClosedHoldsNothing ==
  Spec => [](Closed => /\ \A j \in Jobs : task1[j] = "none" /\ slot1[j] = NoConn
                       /\ idle1 \cup lost1 = Conns)
<1>1. OfFirst!Spec => []OfFirst!Inv
  BY OfFirst!Invariance, InstancesAssumption, PoolsAssumption
<1>2. ASSUME OfFirst!Inv, Closed
      PROVE /\ \A j \in Jobs : task1[j] = "none" /\ slot1[j] = NoConn
            /\ idle1 \cup lost1 = Conns
  <2>1. \A j \in Jobs : task1[j] = "none" /\ slot1[j] = NoConn
    BY <1>2 DEF Closed, OfFirst!Inv, OfFirst!TaskShape
  <2>2. idle1 \subseteq Conns /\ lost1 \subseteq Conns
    BY <1>2 DEF OfFirst!Inv, OfFirst!TypeOK
  <2>3. \A c \in Conns : c \in idle1 \cup lost1
    BY <1>2, <2>1, PoolsAssumption DEF OfFirst!Inv, OfFirst!Complete
  <2> QED
    BY <2>1, <2>2, <2>3
<1>3. OfFirst!Inv => (Closed => /\ \A j \in Jobs : task1[j] = "none" /\ slot1[j] = NoConn
                                /\ idle1 \cup lost1 = Conns)
  BY <1>2
<1> QED
  BY <1>1, <1>3, BothArePools, FirstIsInstance, PTL
=============================================================================
