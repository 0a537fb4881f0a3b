------------------------- MODULE ServingDirs_proofs -------------------------
(***************************************************************************)
(* Proofs about ServingDirs, for any runs, pids and versions.  Served files *)
(* survive the reapers because a removal under way never is about the pid   *)
(* of a live process, unless that process is a raced one (Removals); dead   *)
(* directories go because what a pass has not dealt with is still on its    *)
(* list, or the one it removes, or spared (Remaining).                      *)
(***************************************************************************)
EXTENDS ServingDirs, TLAPS

(* The types of the variables, without the relations among them. *)
Types ==
  /\ pc \in [Runs -> {"new", "dead"} \cup Live]
  /\ pid \in [Runs -> Pids \cup {None}]
  /\ others \subseteq Pids /\ dirs \subseteq Pids
  /\ owner \in [Pids \X Versions -> Runs \cup {None}]
  /\ todo \in [Runs -> SUBSET Pids]
  /\ doomed \in [Runs -> Pids \cup {None}]
  /\ building \in [Runs -> Versions]
  /\ next \in [Runs -> 0..(MaxVersion + 1)]
  /\ serving \in [Runs -> Versions \cup {None}]
  /\ raced \subseteq Runs /\ unclean \subseteq Runs
  /\ spared \in [Runs -> SUBSET Pids]
  /\ \A r \in Runs : pc[r] \in Live => pid[r] \in Pids
  /\ \A r \in Runs : doomed[r] # None <=> pc[r] = "removing"

(* Live processes have different pids. *)
Unique ==
  \A r, q \in Runs : pc[r] \in Live /\ pc[q] \in Live /\ pid[r] = pid[q] => r = q

(* Files are in directories. *)
Placed == \A f \in Pids \X Versions : owner[f] # None => f[1] \in dirs

(* Who has the pid of a directory being removed got it after the look at /proc. *)
Removals ==
  \A r, q \in Runs :
    pc[r] \in Live /\ doomed[q] # None /\ doomed[q] = pid[r] => r \in raced

(* Versions a run serves, builds and will build, in this order. *)
Ordered ==
  \A r \in Runs :
    /\ serving[r] # None => pc[r] \in {"loading", "serving"} /\ serving[r] < next[r]
    /\ pc[r] = "loading" =>
         building[r] < next[r] /\ (serving[r] # None => serving[r] < building[r])

Housed ==
  \A r \in Runs \ raced :
    pc[r] \in {"clearing", "opening", "loading", "serving"} => pid[r] \in dirs

Kept ==
  \A r \in Runs \ raced :
    serving[r] # None => owner[<<pid[r], serving[r]>>] # None

Looked == {"checking", "removing"} \cup Past

Remaining ==
  \A r \in Runs :
    pc[r] \in Looked =>
      /\ Alive \subseteq spared[r]
      /\ dirs \subseteq spared[r] \cup (IF pc[r] \in Past THEN {} ELSE todo[r])
                         \cup (IF pc[r] = "removing" THEN {doomed[r]} ELSE {})

IInv ==
  /\ Types /\ Unique /\ Placed /\ Removals /\ Ordered /\ Housed /\ Kept
  /\ OnlyOwnFiles /\ Remaining

USE NoneAssumption, VersionAssumption DEF Versions, Live, Past

-----------------------------------------------------------------------------
LEMMA InitInv == Init => IInv
<1> SUFFICES ASSUME Init PROVE IInv
  OBVIOUS
<1> USE DEF Init
<1>1. Types
  BY DEF Types
<1>2. Unique /\ Placed /\ Removals
  BY DEF Unique, Placed, Removals
<1>3. Ordered /\ Housed /\ Kept
  BY DEF Ordered, Housed, Kept
<1>4. OnlyOwnFiles /\ Remaining
  BY DEF OnlyOwnFiles, Remaining, Looked
<1> QED
  BY <1>1, <1>2, <1>3, <1>4 DEF IInv

(* Stutters change nothing an invariant or an action reads. *)
LEMMA Stutter == ASSUME IInv, UNCHANGED vars PROVE IInv'
<1> USE DEF vars, process, reaper, builder, history
<1>1. Types' /\ Unique' /\ Placed' /\ Removals'
  BY DEF IInv, Types, Unique, Placed, Removals
<1>2. Ordered' /\ Housed' /\ Kept' /\ OnlyOwnFiles'
  BY DEF IInv, Ordered, Housed, Kept, OnlyOwnFiles
<1>3. Remaining'
  BY DEF IInv, Remaining, Looked, Alive
<1> QED
  BY <1>1, <1>2, <1>3 DEF IInv

-----------------------------------------------------------------------------
(* Types and pids. *)

LEMMA TypesKept == ASSUME Types, Next PROVE Types'
<1> USE DEF Types, Goto, process, reaper, builder, history
<1>1. CASE OtherProgram
  BY <1>1 DEF OtherProgram, Spare, Alive
<1>2. ASSUME NEW r \in Runs, Start(r) PROVE Types'
  BY <1>2 DEF Start, Spare
<1>3. ASSUME NEW r \in Runs, Die(r) PROVE Types'
  BY <1>3 DEF Die
<1>4. ASSUME NEW r \in Runs, List(r) PROVE Types'
  <2>1. Alive \subseteq Pids
    BY DEF Alive
  <2> QED
    BY <1>4, <2>1 DEF List
<1>5. ASSUME NEW r \in Runs, Check(r) PROVE Types'
  BY <1>5 DEF Check
<1>6. ASSUME NEW r \in Runs, RemoveFile(r) PROVE Types'
  BY <1>6 DEF RemoveFile
<1>7. ASSUME NEW r \in Runs, RemoveDir(r) PROVE Types'
  BY <1>7 DEF RemoveDir
<1>8. ASSUME NEW r \in Runs, EndPass(r) \/ MakeDir(r) PROVE Types'
  BY <1>8 DEF EndPass, MakeDir
<1>9. ASSUME NEW r \in Runs, Clear(r) PROVE Types'
  BY <1>9 DEF Clear
<1>10. ASSUME NEW r \in Runs, Open(r) PROVE Types'
  BY <1>10 DEF Open
<1>11. ASSUME NEW r \in Runs, RebuildFails(r) PROVE Types'
  BY <1>11 DEF RebuildFails
<1>12. ASSUME NEW r \in Runs, Install(r) PROVE Types'
  BY <1>12 DEF Install
<1> QED
  BY <1>1, <1>2, <1>3, <1>4, <1>5, <1>6, <1>7, <1>8, <1>9, <1>10, <1>11, <1>12
     DEF Next, Reap, Build

-----------------------------------------------------------------------------
(* One action after the other; most leave alone what a conjunct reads. *)

(* A process starts with a pid nobody alive has. *)
LEMMA UniqueKept ==
  ASSUME Types, Unique, Next PROVE Unique'
<1> USE DEF Types, Unique, Goto, process, reaper, builder, history
<1>1. CASE OtherProgram
  BY <1>1 DEF OtherProgram
<1>2. ASSUME NEW q \in Runs, Start(q) PROVE Unique'
  BY <1>2 DEF Start, Alive
<1>3. ASSUME NEW q \in Runs, Die(q) PROVE Unique'
  BY <1>3 DEF Die
<1>4. ASSUME NEW q \in Runs, List(q) PROVE Unique'
  BY <1>4 DEF List
<1>5. ASSUME NEW q \in Runs, Check(q) PROVE Unique'
  BY <1>5 DEF Check
<1>6. ASSUME NEW q \in Runs, RemoveFile(q) PROVE Unique'
  BY <1>6 DEF RemoveFile
<1>7. ASSUME NEW q \in Runs, RemoveDir(q) PROVE Unique'
  BY <1>7 DEF RemoveDir
<1>8. ASSUME NEW q \in Runs, EndPass(q) PROVE Unique'
  BY <1>8 DEF EndPass
<1>9. ASSUME NEW q \in Runs, MakeDir(q) PROVE Unique'
  BY <1>9 DEF MakeDir
<1>10. ASSUME NEW q \in Runs, Clear(q) PROVE Unique'
  BY <1>10 DEF Clear
<1>11. ASSUME NEW q \in Runs, Open(q) PROVE Unique'
  BY <1>11 DEF Open
<1>12. ASSUME NEW q \in Runs, RebuildFails(q) PROVE Unique'
  BY <1>12 DEF RebuildFails
<1>13. ASSUME NEW q \in Runs, Install(q) PROVE Unique'
  BY <1>13 DEF Install
<1> QED
  BY <1>1, <1>2, <1>3, <1>4, <1>5, <1>6, <1>7, <1>8, <1>9, <1>10, <1>11, <1>12, <1>13
     DEF Next, Reap, Build

(* A directory goes empty, and files are made where it is. *)
LEMMA PlacedKept ==
  ASSUME Types, Placed, Next PROVE Placed'
<1> USE DEF Types, Placed, Goto, process, reaper, builder, history
<1>1. CASE OtherProgram
  BY <1>1 DEF OtherProgram
<1>2. ASSUME NEW q \in Runs, Start(q) PROVE Placed'
  BY <1>2 DEF Start
<1>3. ASSUME NEW q \in Runs, Die(q) PROVE Placed'
  BY <1>3 DEF Die
<1>4. ASSUME NEW q \in Runs, List(q) PROVE Placed'
  BY <1>4 DEF List
<1>5. ASSUME NEW q \in Runs, Check(q) PROVE Placed'
  BY <1>5 DEF Check
<1>6. ASSUME NEW q \in Runs, RemoveFile(q) PROVE Placed'
  BY <1>6 DEF RemoveFile
<1>7. ASSUME NEW q \in Runs, RemoveDir(q) PROVE Placed'
  BY <1>7 DEF RemoveDir, IsEmpty
<1>8. ASSUME NEW q \in Runs, EndPass(q) PROVE Placed'
  BY <1>8 DEF EndPass
<1>9. ASSUME NEW q \in Runs, MakeDir(q) PROVE Placed'
  BY <1>9 DEF MakeDir
<1>10. ASSUME NEW q \in Runs, Clear(q) PROVE Placed'
  BY <1>10 DEF Clear
<1>11. ASSUME NEW q \in Runs, Open(q) PROVE Placed'
  BY <1>11 DEF Open
<1>12. ASSUME NEW q \in Runs, RebuildFails(q) PROVE Placed'
  BY <1>12 DEF RebuildFails
<1>13. ASSUME NEW q \in Runs, Install(q) PROVE Placed'
  BY <1>13 DEF Install
<1> QED
  BY <1>1, <1>2, <1>3, <1>4, <1>5, <1>6, <1>7, <1>8, <1>9, <1>10, <1>11, <1>12, <1>13
     DEF Next, Reap, Build

(* A removal begins when nobody alive has the pid; who gets it later is raced. *)
LEMMA RemovalsKept ==
  ASSUME Types, Removals, Next PROVE Removals'
<1> USE DEF Types, Removals, Goto, process, reaper, builder, history
<1>1. CASE OtherProgram
  BY <1>1 DEF OtherProgram
<1>2. ASSUME NEW q \in Runs, Start(q) PROVE Removals'
  BY <1>2 DEF Start
<1>3. ASSUME NEW q \in Runs, Die(q) PROVE Removals'
  BY <1>3 DEF Die
<1>4. ASSUME NEW q \in Runs, List(q) PROVE Removals'
  BY <1>4 DEF List
<1>5. ASSUME NEW q \in Runs, Check(q) PROVE Removals'
  BY <1>5 DEF Check, Alive
<1>6. ASSUME NEW q \in Runs, RemoveFile(q) PROVE Removals'
  BY <1>6 DEF RemoveFile
<1>7. ASSUME NEW q \in Runs, RemoveDir(q) PROVE Removals'
  BY <1>7 DEF RemoveDir
<1>8. ASSUME NEW q \in Runs, EndPass(q) PROVE Removals'
  BY <1>8 DEF EndPass
<1>9. ASSUME NEW q \in Runs, MakeDir(q) PROVE Removals'
  BY <1>9 DEF MakeDir
<1>10. ASSUME NEW q \in Runs, Clear(q) PROVE Removals'
  BY <1>10 DEF Clear
<1>11. ASSUME NEW q \in Runs, Open(q) PROVE Removals'
  BY <1>11 DEF Open
<1>12. ASSUME NEW q \in Runs, RebuildFails(q) PROVE Removals'
  BY <1>12 DEF RebuildFails
<1>13. ASSUME NEW q \in Runs, Install(q) PROVE Removals'
  BY <1>13 DEF Install
<1> QED
  BY <1>1, <1>2, <1>3, <1>4, <1>5, <1>6, <1>7, <1>8, <1>9, <1>10, <1>11, <1>12, <1>13
     DEF Next, Reap, Build

(* Versions only grow, and are served after they were built. *)
LEMMA OrderedKept ==
  ASSUME Types, Ordered, Next PROVE Ordered'
<1> USE DEF Types, Ordered, Goto, process, reaper, builder, history
<1>1. CASE OtherProgram
  BY <1>1 DEF OtherProgram
<1>2. ASSUME NEW q \in Runs, Start(q) PROVE Ordered'
  BY <1>2 DEF Start
<1>3. ASSUME NEW q \in Runs, Die(q) PROVE Ordered'
  BY <1>3 DEF Die
<1>4. ASSUME NEW q \in Runs, List(q) PROVE Ordered'
  BY <1>4 DEF List
<1>5. ASSUME NEW q \in Runs, Check(q) PROVE Ordered'
  BY <1>5 DEF Check
<1>6. ASSUME NEW q \in Runs, RemoveFile(q) PROVE Ordered'
  BY <1>6 DEF RemoveFile
<1>7. ASSUME NEW q \in Runs, RemoveDir(q) PROVE Ordered'
  BY <1>7 DEF RemoveDir
<1>8. ASSUME NEW q \in Runs, EndPass(q) PROVE Ordered'
  BY <1>8 DEF EndPass
<1>9. ASSUME NEW q \in Runs, MakeDir(q) PROVE Ordered'
  BY <1>9 DEF MakeDir
<1>10. ASSUME NEW q \in Runs, Clear(q) PROVE Ordered'
  BY <1>10 DEF Clear
<1>11. ASSUME NEW q \in Runs, Open(q) PROVE Ordered'
  BY <1>11 DEF Open
<1>12. ASSUME NEW q \in Runs, RebuildFails(q) PROVE Ordered'
  BY <1>12 DEF RebuildFails
<1>13. ASSUME NEW q \in Runs, Install(q) PROVE Ordered'
  BY <1>13 DEF Install
<1> QED
  BY <1>1, <1>2, <1>3, <1>4, <1>5, <1>6, <1>7, <1>8, <1>9, <1>10, <1>11, <1>12, <1>13
     DEF Next, Reap, Build

(* A directory removed is nobody's, or a raced run's. *)
LEMMA HousedKept ==
  ASSUME Types, Unique, Removals, Housed, Next PROVE Housed'
<1> USE DEF Types, Unique, Removals, Housed, Goto, process, reaper, builder, history
<1>1. CASE OtherProgram
  BY <1>1 DEF OtherProgram
<1>2. ASSUME NEW q \in Runs, Start(q) PROVE Housed'
  BY <1>2 DEF Start
<1>3. ASSUME NEW q \in Runs, Die(q) PROVE Housed'
  BY <1>3 DEF Die
<1>4. ASSUME NEW q \in Runs, List(q) PROVE Housed'
  BY <1>4 DEF List
<1>5. ASSUME NEW q \in Runs, Check(q) PROVE Housed'
  BY <1>5 DEF Check
<1>6. ASSUME NEW q \in Runs, RemoveFile(q) PROVE Housed'
  BY <1>6 DEF RemoveFile
<1>7. ASSUME NEW q \in Runs, RemoveDir(q) PROVE Housed'
  BY <1>7 DEF RemoveDir
<1>8. ASSUME NEW q \in Runs, EndPass(q) PROVE Housed'
  BY <1>8 DEF EndPass
<1>9. ASSUME NEW q \in Runs, MakeDir(q) PROVE Housed'
  BY <1>9 DEF MakeDir
<1>10. ASSUME NEW q \in Runs, Clear(q) PROVE Housed'
  BY <1>10 DEF Clear
<1>11. ASSUME NEW q \in Runs, Open(q) PROVE Housed'
  BY <1>11 DEF Open
<1>12. ASSUME NEW q \in Runs, RebuildFails(q) PROVE Housed'
  BY <1>12 DEF RebuildFails
<1>13. ASSUME NEW q \in Runs, Install(q) PROVE Housed'
  BY <1>13 DEF Install
<1> QED
  BY <1>1, <1>2, <1>3, <1>4, <1>5, <1>6, <1>7, <1>8, <1>9, <1>10, <1>11, <1>12, <1>13
     DEF Next, Reap, Build

(* Nor are its files; a run itself removes another version than it serves. *)
LEMMA KeptKept ==
  ASSUME Types, Unique, Removals, Ordered, Kept, Next PROVE Kept'
<1> USE DEF Types, Unique, Removals, Ordered, Kept, Goto, process, reaper, builder, history
<1>1. CASE OtherProgram
  BY <1>1 DEF OtherProgram
<1>2. ASSUME NEW q \in Runs, Start(q) PROVE Kept'
  BY <1>2 DEF Start
<1>3. ASSUME NEW q \in Runs, Die(q) PROVE Kept'
  BY <1>3 DEF Die
<1>4. ASSUME NEW q \in Runs, List(q) PROVE Kept'
  BY <1>4 DEF List
<1>5. ASSUME NEW q \in Runs, Check(q) PROVE Kept'
  BY <1>5 DEF Check
<1>6. ASSUME NEW q \in Runs, RemoveFile(q) PROVE Kept'
  BY <1>6 DEF RemoveFile
<1>7. ASSUME NEW q \in Runs, RemoveDir(q) PROVE Kept'
  BY <1>7 DEF RemoveDir
<1>8. ASSUME NEW q \in Runs, EndPass(q) PROVE Kept'
  BY <1>8 DEF EndPass
<1>9. ASSUME NEW q \in Runs, MakeDir(q) PROVE Kept'
  BY <1>9 DEF MakeDir
<1>10. ASSUME NEW q \in Runs, Clear(q) PROVE Kept'
  BY <1>10 DEF Clear
<1>11. ASSUME NEW q \in Runs, Open(q) PROVE Kept'
  BY <1>11 DEF Open
<1>12. ASSUME NEW q \in Runs, RebuildFails(q) PROVE Kept'
  BY <1>12 DEF RebuildFails
<1>13. ASSUME NEW q \in Runs, Install(q) PROVE Kept'
  <2> SUFFICES ASSUME NEW r \in Runs \ raced, serving'[r] # None
               PROVE owner'[<<pid[r], serving'[r]>>] # None
    BY <1>13 DEF Install
  <2>1. \/ owner' = owner
        \/ serving[q] # None /\ owner' = [owner EXCEPT ![<<pid[q], serving[q]>>] = None]
    BY <1>13 DEF Install
  <2>2. CASE r = q
    <3>1. serving'[r] = building[r] /\ owner[<<pid[r], building[r]>>] # None
      BY <1>13, <2>2 DEF Install, Path
    <3>2. serving[q] # None => serving[q] # building[q]
      BY <1>13 DEF Install
    <3>3. <<pid[r], building[r]>> \in Pids \X Versions
      BY <1>13, <2>2 DEF Install
    <3> QED
      BY <2>1, <2>2, <3>1, <3>2, <3>3
  <2>3. CASE r # q
    <3>1. serving'[r] = serving[r]
      BY <1>13, <2>3 DEF Install
    <3>2. pc[r] \in Live /\ pc[q] \in Live
      BY <1>13, <3>1 DEF Install
    <3>3. pid[r] # pid[q] /\ <<pid[r], serving[r]>> \in Pids \X Versions
      BY <2>3, <3>1, <3>2
    <3> QED
      BY <2>1, <3>1, <3>3
  <2> QED
    BY <2>2, <2>3
<1> QED
  BY <1>1, <1>2, <1>3, <1>4, <1>5, <1>6, <1>7, <1>8, <1>9, <1>10, <1>11, <1>12, <1>13
     DEF Next, Reap, Build

(* Others have other directories; a run that starts clears what it finds. *)
LEMMA OwnFilesKept ==
  ASSUME Types, Unique, OnlyOwnFiles, Next PROVE OnlyOwnFiles'
<1> USE DEF Types, Unique, OnlyOwnFiles, Goto, process, reaper, builder, history
<1>1. CASE OtherProgram
  BY <1>1 DEF OtherProgram
<1>2. ASSUME NEW q \in Runs, Start(q) PROVE OnlyOwnFiles'
  BY <1>2 DEF Start
<1>3. ASSUME NEW q \in Runs, Die(q) PROVE OnlyOwnFiles'
  BY <1>3 DEF Die
<1>4. ASSUME NEW q \in Runs, List(q) PROVE OnlyOwnFiles'
  BY <1>4 DEF List
<1>5. ASSUME NEW q \in Runs, Check(q) PROVE OnlyOwnFiles'
  BY <1>5 DEF Check
<1>6. ASSUME NEW q \in Runs, RemoveFile(q) PROVE OnlyOwnFiles'
  BY <1>6 DEF RemoveFile
<1>7. ASSUME NEW q \in Runs, RemoveDir(q) PROVE OnlyOwnFiles'
  BY <1>7 DEF RemoveDir
<1>8. ASSUME NEW q \in Runs, EndPass(q) PROVE OnlyOwnFiles'
  BY <1>8 DEF EndPass
<1>9. ASSUME NEW q \in Runs, MakeDir(q) PROVE OnlyOwnFiles'
  BY <1>9 DEF MakeDir
<1>10. ASSUME NEW q \in Runs, Clear(q) PROVE OnlyOwnFiles'
  BY <1>10 DEF Clear, Stale
<1>11. ASSUME NEW q \in Runs, Open(q) PROVE OnlyOwnFiles'
  <2> SUFFICES ASSUME NEW r \in Runs \ unclean, NEW v \in Versions,
                      pc'[r] \in {"opening", "loading", "serving"}
               PROVE owner'[<<pid[r], v>>] \in {r, None}
    BY <1>11 DEF Open
  <2>1. owner' = owner \/ owner' = [owner EXCEPT ![<<pid[q], next[q]>>] = q]
    BY <1>11 DEF Open
  <2>2. pc[r] \in {"opening", "loading", "serving"} /\ pc[q] \in Live
    BY <1>11 DEF Open
  <2>3. owner[<<pid[r], v>>] \in {r, None} /\ <<pid[r], v>> \in Pids \X Versions
    BY <2>2
  <2>4. r # q => pid[r] # pid[q]
    BY <2>2
  <2> QED
    BY <2>1, <2>3, <2>4
<1>12. ASSUME NEW q \in Runs, RebuildFails(q) PROVE OnlyOwnFiles'
  BY <1>12 DEF RebuildFails
<1>13. ASSUME NEW q \in Runs, Install(q) PROVE OnlyOwnFiles'
  <2> SUFFICES ASSUME NEW r \in Runs \ unclean, NEW v \in Versions,
                      pc'[r] \in {"opening", "loading", "serving"}
               PROVE owner'[<<pid[r], v>>] \in {r, None}
    BY <1>13 DEF Install
  <2>1. owner' = owner \/ owner' = [owner EXCEPT ![<<pid[q], serving[q]>>] = None]
    BY <1>13 DEF Install
  <2>2. pc[r] \in {"opening", "loading", "serving"} /\ pc[q] \in Live
    BY <1>13 DEF Install
  <2>3. owner[<<pid[r], v>>] \in {r, None} /\ <<pid[r], v>> \in Pids \X Versions
    BY <2>2
  <2>4. r # q => pid[r] # pid[q]
    BY <2>2
  <2> QED
    BY <2>1, <2>3, <2>4
<1> QED
  BY <1>1, <1>2, <1>3, <1>4, <1>5, <1>6, <1>7, <1>8, <1>9, <1>10, <1>11, <1>12, <1>13
     DEF Next, Reap, Build

(* What a pass takes off its list was spared or is being removed. *)
LEMMA RemainingKept ==
  ASSUME Types, Remaining, Next PROVE Remaining'
<1> USE DEF Types, Remaining, Looked, Alive, Goto, process, reaper, builder, history
<1>1. CASE OtherProgram
  BY <1>1 DEF OtherProgram, Spare
<1>2. ASSUME NEW q \in Runs, Start(q) PROVE Remaining'
  BY <1>2 DEF Start, Spare
<1>3. ASSUME NEW q \in Runs, Die(q) PROVE Remaining'
  BY <1>3 DEF Die
<1>4. ASSUME NEW q \in Runs, List(q) PROVE Remaining'
  BY <1>4 DEF List
<1>5. ASSUME NEW q \in Runs, Check(q) PROVE Remaining'
  BY <1>5 DEF Check
<1>6. ASSUME NEW q \in Runs, RemoveFile(q) PROVE Remaining'
  BY <1>6 DEF RemoveFile
<1>7. ASSUME NEW q \in Runs, RemoveDir(q) PROVE Remaining'
  BY <1>7 DEF RemoveDir
<1>8. ASSUME NEW q \in Runs, EndPass(q) PROVE Remaining'
  BY <1>8 DEF EndPass
<1>9. ASSUME NEW q \in Runs, MakeDir(q) PROVE Remaining'
  BY <1>9 DEF MakeDir
<1>10. ASSUME NEW q \in Runs, Clear(q) PROVE Remaining'
  BY <1>10 DEF Clear
<1>11. ASSUME NEW q \in Runs, Open(q) PROVE Remaining'
  BY <1>11 DEF Open
<1>12. ASSUME NEW q \in Runs, RebuildFails(q) PROVE Remaining'
  BY <1>12 DEF RebuildFails
<1>13. ASSUME NEW q \in Runs, Install(q) PROVE Remaining'
  BY <1>13 DEF Install
<1> QED
  BY <1>1, <1>2, <1>3, <1>4, <1>5, <1>6, <1>7, <1>8, <1>9, <1>10, <1>11, <1>12, <1>13
     DEF Next, Reap, Build

-----------------------------------------------------------------------------
(* The invariant, and what follows from it. *)

LEMMA Invariance == Spec => []IInv
<1>1. Init => IInv
  BY InitInv
<1>2. IInv /\ [Next]_vars => IInv'
  <2> SUFFICES ASSUME IInv, Next PROVE IInv'
    BY Stutter
  <2> QED
    BY TypesKept, UniqueKept, PlacedKept, RemovalsKept, OrderedKept, HousedKept, KeptKept,
       OwnFilesKept, RemainingKept DEF IInv
<1> QED
  BY <1>1, <1>2, PTL DEF Spec

\* The state is well typed: live processes have different pids, files are in
\* directories, and a run is removing exactly while it has a directory to remove.
THEOREM TypeCorrectness == Spec => []TypeOK
<1>1. IInv => TypeOK
  BY DEF IInv, Types, Unique, Placed, TypeOK
<1> QED
  BY <1>1, Invariance, PTL

\* No reaper takes what a live run serves, unless the run got its pid while the
\* directory was being removed (clear_dead_instances).
THEOREM ServedFilesStay == Spec => []ServedFilesKept
<1>1. IInv => ServedFilesKept
  <2> SUFFICES ASSUME IInv, NEW r \in Runs \ raced, serving[r] # None
               PROVE pid[r] \in dirs /\ owner[<<pid[r], serving[r]>>] # None
    BY DEF ServedFilesKept
  <2> QED
    BY DEF IInv, Ordered, Housed, Kept
<1> QED
  BY <1>1, Invariance, PTL

\* A pass leaves no directory but those of processes alive since it looked at the
\* root and those it could not list or remove (clear_dead_instances).
THEOREM DeadDirsGo == Spec => []DeadDirsReaped
<1>1. IInv => DeadDirsReaped
  BY DEF IInv, Remaining, Looked, DeadDirsReaped
<1> QED
  BY <1>1, Invariance, PTL

\* A run that reuses a directory builds among its own files only
\* (clear_serving_files).
THEOREM NoStaleFiles == Spec => []OnlyOwnFiles
<1>1. IInv => OnlyOwnFiles
  BY DEF IInv
<1> QED
  BY <1>1, Invariance, PTL
=============================================================================
