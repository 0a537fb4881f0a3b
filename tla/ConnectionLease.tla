--------------------------- MODULE ConnectionLease ---------------------------
(***************************************************************************)
(* What the serving pool promises its callers, without permits, tasks or   *)
(* interrupt flags (src/analytics.rs:73-76): a connection is leased to one *)
(* call at a time, comes back free or is lost for good, and a query is cut *)
(* short only after its own call ran out of time, in which case the lease  *)
(* ends with the cut.                                                      *)
(***************************************************************************)
CONSTANTS Jobs, Conns

VARIABLES
  lease,   \* "free", "lost", or the job each connection is leased to
  late,    \* jobs whose call was answered with a timeout, still on lease
  cut      \* late jobs whose query was interrupted

leaseVars == <<lease, late, cut>>

HasLease(j) == \E c \in Conns : lease[c] = j

Init ==
  /\ lease = [c \in Conns |-> "free"]
  /\ late = {}
  /\ cut = {}

Grant(j, c) ==
  /\ lease[c] = "free"
  /\ ~ HasLease(j) /\ j \notin late
  /\ lease' = [lease EXCEPT ![c] = j]
  /\ UNCHANGED <<late, cut>>

\* A call answered with a timeout keeps its lease until its query stops (its
\* connection may already be lost).
RunLate(j) ==
  /\ late' = late \cup {j}
  /\ UNCHANGED <<lease, cut>>

Cut(j) ==
  /\ j \in late
  /\ HasLease(j)
  /\ cut' = cut \cup {j}
  /\ UNCHANGED <<lease, late>>

Return(j, c) ==
  /\ lease[c] = j
  /\ lease' = [lease EXCEPT ![c] = "free"]
  /\ late' = late \ {j}
  /\ cut' = cut \ {j}

Lose(j, c) ==
  /\ lease[c] = j
  /\ j \notin cut
  /\ lease' = [lease EXCEPT ![c] = "lost"]
  /\ UNCHANGED <<late, cut>>

\* A late job whose connection was lost is over.
GiveUp(j) ==
  /\ j \in late
  /\ ~ HasLease(j)
  /\ late' = late \ {j}
  /\ UNCHANGED <<lease, cut>>

Next ==
  \E j \in Jobs :
    \/ \E c \in Conns : Grant(j, c) \/ Return(j, c) \/ Lose(j, c)
    \/ RunLate(j) \/ Cut(j) \/ GiveUp(j)

Spec == Init /\ [][Next]_leaseVars
==============================================================================
