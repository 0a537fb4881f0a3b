---------------------------- MODULE ServingDirs ----------------------------
(***************************************************************************)
(* Several runs of the program over one serving root (src/analytics.rs,    *)
(* `Analytics::new`, `clear_dead_instances`, `clear_serving_files`).  Each *)
(* run owns the directory named after its pid (`<pid>-0`: main makes one   *)
(* engine per process), in which it keeps its serving files.  Nothing      *)
(* removes a directory when its run ends: the next run to start reaps the  *)
(* directories whose pid is in no use any more.  Pids come back, a pass    *)
(* over the root is a snapshot followed by many separate checks and        *)
(* removals, and any of it may fail.                                       *)
(***************************************************************************)
EXTENDS Naturals

CONSTANTS
  Runs,        \* runs of the program, each started once
  Pids,
  MaxVersion,  \* bound on the rebuilds of a run
  None

ASSUME NoneAssumption == None \notin Runs \cup Pids \cup Nat
ASSUME VersionAssumption == MaxVersion \in Nat

Versions == 0..MaxVersion

VARIABLES
  pc,        \* where a run is
  pid,       \* its process id
  others,    \* pids of other programs
  dirs,      \* pids whose `<pid>-0` is under the root
  owner,     \* the run that wrote serving-<version>.duckdb in such a directory
  todo,      \* entries of the root a reaping run has yet to look at
  doomed,    \* the directory it has begun to remove
  building,  \* the version a run builds
  next,      \* its version counter
  serving,   \* the version it serves
  raced,     \* history: runs that got a pid whose directory was being removed
  spared,    \* history: what a run's pass may leave: directories of pids alive
             \* since it looked at the root, and those it failed to remove
  unclean    \* history: runs that failed to remove an earlier run's file

history == <<raced, spared, unclean>>
process == <<pid, others>>
reaper  == <<todo, doomed>>
builder == <<building, next, serving>>
vars == <<pc, process, dirs, owner, reaper, builder, history>>

Past == {"making", "clearing", "opening", "loading", "serving"}
Live == {"listing", "checking", "removing"} \cup Past

TypeOK ==
  /\ pc \in [Runs -> {"new", "dead"} \cup Live]
  /\ pid \in [Runs -> Pids \cup {None}]
  /\ others \subseteq Pids /\ dirs \subseteq Pids
  /\ owner \in [Pids \X Versions -> Runs \cup {None}]
  /\ \A f \in Pids \X Versions : owner[f] # None => f[1] \in dirs
  /\ todo \in [Runs -> SUBSET Pids]
  /\ doomed \in [Runs -> Pids \cup {None}]
  /\ \A r \in Runs : doomed[r] # None <=> pc[r] = "removing"
  /\ building \in [Runs -> Versions]
  /\ next \in [Runs -> 0..(MaxVersion + 1)]
  /\ serving \in [Runs -> Versions \cup {None}]
  /\ \A r, q \in Runs :
       pc[r] \in Live /\ pc[q] \in Live /\ pid[r] = pid[q] => r = q
  /\ raced \subseteq Runs /\ unclean \subseteq Runs
  /\ spared \in [Runs -> SUBSET Pids]

Init ==
  /\ pc = [r \in Runs |-> "new"] /\ pid = [r \in Runs |-> None]
  /\ others = {}
  /\ dirs = {} /\ owner = [f \in Pids \X Versions |-> None]
  /\ todo = [r \in Runs |-> {}] /\ doomed = [r \in Runs |-> None]
  /\ building = [r \in Runs |-> 0] /\ next = [r \in Runs |-> 0]
  /\ serving = [r \in Runs |-> None]
  /\ raced = {} /\ unclean = {} /\ spared = [r \in Runs |-> {}]

\* The pids with an entry in /proc.
Alive == others \cup {pid[r] : r \in {q \in Runs : pc[q] \in Live}}

Goto(r, where) == pc' = [pc EXCEPT ![r] = where]

-----------------------------------------------------------------------------
(* Processes come and go. *)

\* Whoever gets pid p is alive from now on, in everybody's pass.
Spare(p) == spared' = [q \in Runs |-> spared[q] \cup {p}]

Start(r) ==
  /\ pc[r] = "new"
  /\ \E p \in Pids \ Alive :
       /\ pid' = [pid EXCEPT ![r] = p]
       /\ raced' = IF \E q \in Runs : doomed[q] = p THEN raced \cup {r} ELSE raced
       /\ Spare(p)
  /\ Goto(r, "listing")
  /\ UNCHANGED <<others, dirs, owner, reaper, builder, unclean>>

OtherProgram ==
  /\ \/ \E p \in Pids \ Alive : others' = others \cup {p} /\ Spare(p)
     \/ \E p \in others : others' = others \ {p} /\ UNCHANGED spared
  /\ UNCHANGED <<pc, pid, dirs, owner, reaper, builder, raced, unclean>>

\* A crash, a failed boot, a port in use, or the end of a serving run: the
\* directory stays.
Die(r) ==
  /\ pc[r] \in Live
  /\ Goto(r, "dead")
  /\ todo' = [todo EXCEPT ![r] = {}] /\ doomed' = [doomed EXCEPT ![r] = None]
  /\ serving' = [serving EXCEPT ![r] = None]
  /\ UNCHANGED <<process, dirs, owner, building, next, history>>

-----------------------------------------------------------------------------
(* clear_dead_instances: the reaping pass of a run that starts. *)

\* read_dir of the root; if that fails there is no pass.
List(r) ==
  /\ pc[r] = "listing"
  /\ \/ /\ todo' = [todo EXCEPT ![r] = dirs]
        /\ spared' = [spared EXCEPT ![r] = Alive]
     \/ /\ todo' = todo
        /\ spared' = [spared EXCEPT ![r] = Alive \cup dirs]
  /\ Goto(r, "checking")
  /\ UNCHANGED <<process, dirs, owner, doomed, builder, raced, unclean>>

\* Mutant: whatever is not its own is taken for dead.
Check_OwnOnly(r) ==
  /\ pc[r] = "checking"
  /\ \E p \in todo[r] :
       /\ todo' = [todo EXCEPT ![r] = @ \ {p}]
       /\ IF p # pid[r]
          THEN Goto(r, "removing") /\ doomed' = [doomed EXCEPT ![r] = p]
          ELSE UNCHANGED <<pc, doomed>>
  /\ UNCHANGED <<process, dirs, owner, builder, history>>

\* Mutant: the pass ends at the first directory in use.
Check_Break(r) ==
  /\ pc[r] = "checking"
  /\ \E p \in todo[r] :
       IF p # pid[r] /\ p \notin Alive
       THEN /\ Goto(r, "removing") /\ doomed' = [doomed EXCEPT ![r] = p]
            /\ todo' = [todo EXCEPT ![r] = @ \ {p}]
       ELSE todo' = [todo EXCEPT ![r] = {}] /\ UNCHANGED <<pc, doomed>>
  /\ UNCHANGED <<process, dirs, owner, builder, history>>

\* One entry: is its pid someone else's, and dead?
Check(r) ==
  /\ pc[r] = "checking"
  /\ \E p \in todo[r] :
       /\ todo' = [todo EXCEPT ![r] = @ \ {p}]
       /\ IF p # pid[r] /\ p \notin Alive
          THEN Goto(r, "removing") /\ doomed' = [doomed EXCEPT ![r] = p]
          ELSE UNCHANGED <<pc, doomed>>
  /\ UNCHANGED <<process, dirs, owner, builder, history>>

\* remove_dir_all: the files one by one ...
RemoveFile(r) ==
  /\ pc[r] = "removing"
  /\ \E v \in Versions :
       /\ owner[<<doomed[r], v>>] # None
       /\ owner' = [owner EXCEPT ![<<doomed[r], v>>] = None]
  /\ UNCHANGED <<pc, process, dirs, reaper, builder, history>>

IsEmpty(p) == \A v \in Versions : owner[<<p, v>>] = None

\* Mutant: the directory is dropped with whatever is still in it.
RemoveDir_First(r) ==
  /\ pc[r] = "removing"
  /\ dirs' = dirs \ {doomed[r]}
  /\ doomed' = [doomed EXCEPT ![r] = None]
  /\ Goto(r, "checking")
  /\ UNCHANGED <<process, owner, todo, builder, history>>

\* ... then the directory, if nobody put a file there meanwhile.  Any error
\* ends the removal and is ignored.
RemoveDir(r) ==
  /\ pc[r] = "removing"
  /\ \/ /\ IsEmpty(doomed[r])
        /\ dirs' = dirs \ {doomed[r]}
        /\ UNCHANGED spared
     \/ /\ doomed[r] \in dirs
        /\ spared' = [spared EXCEPT ![r] = @ \cup {doomed[r]}]
        /\ UNCHANGED dirs
  /\ doomed' = [doomed EXCEPT ![r] = None]
  /\ Goto(r, "checking")
  /\ UNCHANGED <<process, owner, todo, builder, raced, unclean>>

EndPass(r) ==
  /\ pc[r] = "checking" /\ todo[r] = {}
  /\ Goto(r, "making")
  /\ UNCHANGED <<process, dirs, owner, reaper, builder, history>>

-----------------------------------------------------------------------------
(* The run's own directory. *)

\* create_dir_all: there already, if an earlier run had this pid.
MakeDir(r) ==
  /\ pc[r] = "making"
  /\ dirs' = dirs \cup {pid[r]}
  /\ Goto(r, "clearing")
  /\ UNCHANGED <<process, owner, reaper, builder, history>>

Stale(r) == {v \in Versions : owner[<<pid[r], v>>] \notin {r, None}}

\* Mutant: only the file the run is about to build is removed.
Clear_FirstOnly(r) ==
  /\ pc[r] = "clearing"
  /\ owner' = [owner EXCEPT ![<<pid[r], 0>>] = None]
  /\ Goto(r, "opening")
  /\ UNCHANGED <<process, dirs, reaper, builder, history>>

\* clear_serving_files: each removal may fail on its own.
Clear(r) ==
  /\ pc[r] = "clearing"
  /\ \E kept \in SUBSET Stale(r) :
       /\ owner' = [f \in Pids \X Versions |->
                      IF f[1] = pid[r] /\ f[2] \notin kept THEN None ELSE owner[f]]
       /\ unclean' = IF kept = {} THEN unclean ELSE unclean \cup {r}
  /\ Goto(r, "opening")
  /\ UNCHANGED <<process, dirs, reaper, builder, raced, spared>>

-----------------------------------------------------------------------------
(* build_and_open, at boot and for each rebuild. *)

Path(r) == <<pid[r], building[r]>>

\* The next version's file is removed, if an earlier run left one, and created;
\* what cannot be removed is opened as it is.
Open(r) ==
  /\ pc[r] \in {"opening", "serving"}
  /\ next[r] <= MaxVersion
  /\ pid[r] \in dirs
  /\ building' = [building EXCEPT ![r] = next[r]]
  /\ next' = [next EXCEPT ![r] = @ + 1]
  /\ \/ owner' = [owner EXCEPT ![<<pid[r], next[r]>>] = r]
     \/ owner[<<pid[r], next[r]>>] # None /\ UNCHANGED owner
  /\ Goto(r, "loading")
  /\ UNCHANGED <<process, dirs, reaper, serving, history>>

\* A rebuild that fails leaves what is served as it is, and its own file where
\* it got to; a boot build that fails ends the run (Die).
RebuildFails(r) ==
  /\ serving[r] # None
  /\ \/ /\ pc[r] = "serving" /\ next[r] <= MaxVersion
        /\ next' = [next EXCEPT ![r] = @ + 1]
     \/ pc[r] = "loading" /\ UNCHANGED next
  /\ Goto(r, "serving")
  /\ UNCHANGED <<process, dirs, owner, reaper, building, serving, history>>

\* open_serving_ro finds the file by its path, and it is served; rebuild then
\* unlinks the file it replaced, if it can.
Install(r) ==
  /\ pc[r] = "loading"
  /\ owner[Path(r)] # None
  /\ serving' = [serving EXCEPT ![r] = building[r]]
  /\ \/ serving[r] # None /\ owner' = [owner EXCEPT ![<<pid[r], serving[r]>>] = None]
     \/ UNCHANGED owner
  /\ Goto(r, "serving")
  /\ UNCHANGED <<process, dirs, reaper, building, next, history>>

-----------------------------------------------------------------------------
Reap(r) == List(r) \/ Check(r) \/ RemoveFile(r) \/ RemoveDir(r) \/ EndPass(r)
Build(r) == MakeDir(r) \/ Clear(r) \/ Open(r) \/ RebuildFails(r) \/ Install(r)

Next ==
  \/ OtherProgram
  \/ \E r \in Runs : Start(r) \/ Reap(r) \/ Build(r) \/ Die(r)

Spec == Init /\ [][Next]_vars

-----------------------------------------------------------------------------
(* Safety. *)

\* No pass of any other run takes the directory or the served file of a run
\* that serves ("left by processes that are no longer alive", analytics.rs:593),
\* unless that run got its pid between a reaper's look at /proc and the end of
\* the removal: then its pid was dead when looked at, and its directory goes.
ServedFilesKept ==
  \A r \in Runs \ raced :
    serving[r] # None => pid[r] \in dirs /\ owner[<<pid[r], serving[r]>>] # None

\* Whatever dies and comes back while a run reaps, its pass leaves no directory
\* but those of processes alive at some time since it looked at the root, and
\* those it could not list or remove: the root "doesn't accumulate across
\* restarts and crashes" (analytics.rs:595).
DeadDirsReaped ==
  \A r \in Runs : pc[r] \in Past => dirs \subseteq spared[r]

\* A run that reuses the pid of a dead one builds and serves among its own files
\* only (analytics.rs:782), for as many versions as it builds, unless a stale
\* file could not be removed.
OnlyOwnFiles ==
  \A r \in Runs \ unclean :
    pc[r] \in {"opening", "loading", "serving"} =>
      \A v \in Versions : owner[<<pid[r], v>>] \in {r, None}
=============================================================================
