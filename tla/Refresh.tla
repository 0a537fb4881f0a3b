------------------------------- MODULE Refresh -------------------------------
(***************************************************************************)
(* Building and replacing the serving database (src/analytics.rs `new`,    *)
(* `rebuild`, `build_and_open`; src/main.rs `spawn_sighup_refresh`).  A    *)
(* build materialises one table per dataset of the catalog from Parquet    *)
(* files that an ETL job rewrites underneath it, skips the datasets that   *)
(* do not load, creates the views whose inputs are there, and opens the    *)
(* file read-only.  Boot builds version 0; afterwards one task waits for   *)
(* SIGHUP and rebuilds, swaps the shared pointer, and unlinks the replaced *)
(* file, while requests keep reading the version they took.                *)
(***************************************************************************)
EXTENDS Naturals, Sequences, FiniteSets

CONSTANTS
  Catalog,      \* the datasets, in loading order
  Requires,     \* for each view, the datasets it needs
  Readers,      \* requests
  ReadsPerCall, \* queries one request makes (get_company makes three)
  MaxVersion,   \* bound on the number of rebuilds
  MaxGen,       \* bound on the ETL's rewrites of a dataset
  None

Datasets == {Catalog[i] : i \in DOMAIN Catalog}
Views    == DOMAIN Requires
Versions == 0..MaxVersion

ASSUME CatalogAssumption  == Catalog \in Seq(Datasets) /\ Catalog # <<>>
ASSUME RequiresAssumption == Requires \in [Views -> SUBSET Datasets]
ASSUME BoundsAssumption   ==
  {MaxVersion, MaxGen, ReadsPerCall} \subseteq Nat /\ MaxGen > 0
ASSUME NoneAssumption     == None \notin Nat

VARIABLES
  gen,       \* the ETL run that last (re)wrote each dataset's Parquet files
  readable,  \* the datasets of which some Parquet file is in place
  pc,        \* the process: boot build, then the SIGHUP loop
  next,      \* position in Catalog of the dataset to load next
  building,  \* version being built
  version,   \* the AtomicU64: version of the next rebuild
  tables,    \* per file, the generation of each table; 0 for a skipped dataset
  views,     \* per file, the views created
  serving,   \* the version the shared Arc<Serving> points to
  replaced,  \* the version the last swap replaced
  files,     \* serving-<version>.duckdb files on disk
  hup,       \* a SIGHUP is pending (several coalesce into one)
  held,      \* the version a request took for its current query
  got,       \* the versions a request's finished queries were answered from
  demanded,  \* what the sources held when the last SIGHUP was sent
  leaked     \* versions whose file a failed build or a failed unlink left

sourceVars == <<gen, readable>>
buildVars  == <<building, next, tables, views>>
readerVars == <<held, got>>
vars == <<sourceVars, pc, buildVars, version, serving, replaced, files, hup,
          readerVars, demanded, leaked>>

NoTables == [d \in Datasets |-> 0]
Booting == pc = "loading" /\ version = 0
Serves  == serving # None /\ pc # "exited"

TypeOK ==
  /\ gen \in [Datasets -> 1..MaxGen]
  /\ readable \subseteq Datasets
  /\ pc \in {"loading", "installing", "recv", "swapping", "unlinking", "deaf",
            "exited"}
  /\ next \in 1..(Len(Catalog) + 1)
  /\ building \in Versions
  /\ version \in 0..(MaxVersion + 1) /\ (version > 0 => building < version)
  /\ tables \in [Versions -> [Datasets -> 0..MaxGen]]
  /\ views \in [Versions -> SUBSET Views]
  /\ serving \in Versions \cup {None}
  /\ replaced \in Versions \cup {None}
  /\ files \subseteq Versions
  /\ hup \in BOOLEAN
  /\ held \in [Readers -> Versions \cup {None}]
  /\ got \in [Readers -> Seq(Versions)]
  /\ demanded \in [Datasets -> 0..MaxGen]
  /\ leaked \subseteq Versions

\* Analytics::new has made its directory, cleared it, and starts building
\* version 0; any part of the data may be there.
Init ==
  /\ gen = [d \in Datasets |-> 1]
  /\ readable \in SUBSET Datasets
  /\ pc = "loading" /\ next = 1 /\ building = 0 /\ version = 0
  /\ tables = [v \in Versions |-> NoTables]
  /\ views = [v \in Versions |-> {}]
  /\ serving = None /\ replaced = None
  /\ files = {0}
  /\ hup = FALSE
  /\ held = [r \in Readers |-> None]
  /\ got = [r \in Readers |-> <<>>]
  /\ demanded = NoTables
  /\ leaked = {}

-----------------------------------------------------------------------------
(* The ETL job (src/bin/etl.rs), another process. *)

\* A full run removes the whole data directory ...
EtlClear ==
  /\ \A d \in Datasets : gen[d] < MaxGen
  /\ gen' = [d \in Datasets |-> gen[d] + 1]
  /\ readable' = {}
  /\ UNCHANGED <<pc, buildVars, version, serving, replaced, files, hup,
                 readerVars, demanded, leaked>>

\* ... and COPYs one dataset after the other; from its first file on, a dataset
\* can be read.
EtlWrite(d) ==
  /\ d \notin readable
  /\ readable' = readable \cup {d}
  /\ UNCHANGED <<gen, pc, buildVars, version, serving, replaced, files, hup,
                 readerVars, demanded, leaked>>

\* A run for named datasets overwrites them in place.
EtlRewrite(d) ==
  /\ d \in readable /\ gen[d] < MaxGen
  /\ gen' = [gen EXCEPT ![d] = @ + 1]
  /\ UNCHANGED <<readable, pc, buildVars, version, serving, replaced, files,
                 hup, readerVars, demanded, leaked>>

-----------------------------------------------------------------------------
(* build_and_open. *)

\* CREATE TABLE AS SELECT for the next dataset: what is there now, or nothing
\* if the load fails, as it must when no file is there.
Load ==
  /\ pc = "loading" /\ next <= Len(Catalog)
  /\ LET d == Catalog[next] IN
     \E g \in {0} \cup (IF d \in readable THEN {gen[d]} ELSE {}) :
       tables' = [tables EXCEPT ![building][d] = g]
  /\ next' = next + 1
  /\ UNCHANGED <<sourceVars, pc, building, views, version, serving, replaced,
                 files, hup, readerVars, demanded, leaked>>

Loaded == {d \in Datasets : tables[building][d] # 0}

\* Mutant: a view is tried as soon as one of its tables was loaded.
Creatable_AnyInput == {v \in Views : Requires[v] \cap Loaded # {}}

\* create_views tries the views whose tables were all loaded.
Creatable == {v \in Views : Requires[v] \subseteq Loaded}

BuildDone ==
  /\ pc = "loading" /\ next > Len(Catalog)
  /\ Loaded # {}
  /\ \E W \in SUBSET Creatable : views' = [views EXCEPT ![building] = W]

\* The boot build is served at once; version 1 is next.
Boot ==
  /\ Booting /\ BuildDone
  /\ serving' = 0
  /\ version' = 1
  /\ pc' = "installing"
  /\ UNCHANGED <<sourceVars, building, next, tables, replaced, files, hup,
                 readerVars, demanded, leaked>>

BuildSucceeds ==
  /\ ~ Booting /\ BuildDone
  /\ pc' = "swapping"
  /\ UNCHANGED <<sourceVars, building, next, tables, version, serving, replaced,
                 files, hup, readerVars, demanded, leaked>>

\* Any `?` of the build, its bail on no tables, or a panic.  A process that
\* fails to boot exits; the loop logs the error and keeps the previous data.
\* The half-built file stays on disk.
BuildFails ==
  /\ pc = "loading"
  /\ pc' = IF Booting THEN "exited" ELSE "recv"
  /\ leaked' = leaked \cup {building}
  /\ UNCHANGED <<sourceVars, buildVars, version, serving, replaced, files, hup,
                 readerVars, demanded>>

-----------------------------------------------------------------------------
(* The SIGHUP loop. *)

\* The spawned task registers its handler; if that fails it only logs it.
InstallHandler ==
  /\ pc = "installing"
  /\ pc' \in {"recv", "deaf"}
  /\ UNCHANGED <<sourceVars, buildVars, version, serving, replaced, files, hup,
                 readerVars, demanded, leaked>>

\* An operator sends SIGHUP: without a registered handler that kills the
\* process.
Hup ==
  /\ pc # "exited"
  /\ IF pc \in {"installing", "deaf"} \/ Booting
     THEN pc' = "exited" /\ UNCHANGED <<hup, demanded>>
     ELSE /\ hup' = TRUE
          /\ demanded' = [d \in Datasets |-> IF d \in readable THEN gen[d] ELSE 0]
          /\ UNCHANGED pc
  /\ UNCHANGED <<sourceVars, buildVars, version, serving, replaced, files,
                 readerVars, leaked>>

\* recv() returns and rebuild() begins: it takes the next version, removes any
\* file of that name and opens a new one.
StartBuild(v) ==
  /\ building' = v
  /\ next' = 1
  /\ files' = files \cup {v}
  /\ tables' = [tables EXCEPT ![v] = NoTables]
  /\ views' = [views EXCEPT ![v] = {}]
  /\ pc' = "loading"
  /\ UNCHANGED <<sourceVars, serving, replaced, readerVars, demanded, leaked>>

\* Mutant: the version counter also starts at the boot build's 0.
Rebuild_FromZero ==
  /\ pc = "recv" /\ hup /\ version <= MaxVersion
  /\ hup' = FALSE
  /\ version' = version + 1
  /\ StartBuild(version - 1)

\* Mutant: load where the code has fetch_add.
Rebuild_NoIncrement ==
  /\ pc = "recv" /\ hup /\ version <= MaxVersion
  /\ hup' = FALSE
  /\ StartBuild(version)
  /\ UNCHANGED version

Rebuild ==
  /\ pc = "recv" /\ hup /\ version <= MaxVersion
  /\ hup' = FALSE
  /\ version' = version + 1
  /\ StartBuild(version)

\* mem::replace under the write lock.
Swap ==
  /\ pc = "swapping"
  /\ replaced' = serving
  /\ serving' = building
  /\ pc' = "unlinking"
  /\ UNCHANGED <<sourceVars, buildVars, version, files, hup, readerVars,
                 demanded, leaked>>

\* Mutant: whatever was signalled while the rebuild ran is taken as served.
Unlink_DropsSignal ==
  /\ pc = "unlinking"
  /\ files' = files \ {replaced}
  /\ hup' = FALSE
  /\ replaced' = None
  /\ pc' = "recv"
  /\ UNCHANGED <<sourceVars, buildVars, version, serving, readerVars,
                 demanded, leaked>>

\* Mutant: the replaced file is forgotten.
Unlink_Never ==
  /\ pc = "unlinking"
  /\ replaced' = None
  /\ pc' = "recv"
  /\ UNCHANGED <<sourceVars, buildVars, version, serving, files, hup,
                 readerVars, demanded, leaked>>

\* remove_file of the replaced version; a failure is only logged.
Unlink ==
  /\ pc = "unlinking"
  /\ \/ files' = files \ {replaced} /\ UNCHANGED leaked
     \/ leaked' = leaked \cup {replaced} /\ UNCHANGED files
  /\ replaced' = None
  /\ pc' = "recv"
  /\ UNCHANGED <<sourceVars, buildVars, version, serving, hup,
                 readerVars, demanded>>

-----------------------------------------------------------------------------
(* Requests. *)

\* Mutant: a query is answered from any file still on disk.
Take_AnyFile(r) ==
  /\ Serves
  /\ held[r] = None
  /\ \E v \in (files \ {building}) \cup {serving} : held' = [held EXCEPT ![r] = v]
  /\ UNCHANGED <<sourceVars, pc, buildVars, version, serving, replaced, files,
                 hup, got, demanded, leaked>>

\* current(): a query clones the Arc under the read lock ...
Take(r) ==
  /\ Serves
  /\ held[r] = None
  /\ held' = [held EXCEPT ![r] = serving]
  /\ UNCHANGED <<sourceVars, pc, buildVars, version, serving, replaced, files,
                 hup, got, demanded, leaked>>

\* ... and reads that version, unlinked by then or not.  The request is over
\* with its last query, or when one fails.
Read(r) ==
  /\ Serves /\ held[r] # None
  /\ \/ /\ Len(got[r]) + 1 < ReadsPerCall
        /\ got' = [got EXCEPT ![r] = Append(@, held[r])]
     \/ got' = [got EXCEPT ![r] = <<>>]
  /\ held' = [held EXCEPT ![r] = None]
  /\ UNCHANGED <<sourceVars, pc, buildVars, version, serving, replaced, files,
                 hup, demanded, leaked>>

-----------------------------------------------------------------------------
Build == Load \/ Boot \/ BuildSucceeds \/ BuildFails
Loop == InstallHandler \/ Rebuild \/ Swap \/ Unlink
Etl == EtlClear \/ \E d \in Datasets : EtlWrite(d) \/ EtlRewrite(d)
Request == \E r \in Readers : Take(r) \/ Read(r)

Next == Build \/ Loop \/ Hup \/ Etl \/ Request

Spec == Init /\ [][Next]_vars

\* The blocking thread of the build and the task of the loop keep running;
\* signals, the ETL and requests come when they come.
FairSpec == Spec /\ WF_vars(Build) /\ WF_vars(Loop)

-----------------------------------------------------------------------------
(* Safety. *)

\* Whatever is served has at least one table, and every view it offers has all
\* its tables, even when datasets vanish between two loads of one build.
ServedSnapshotUsable ==
  serving # None =>
    /\ \E d \in Datasets : tables[serving][d] # 0
    /\ \A v \in views[serving] : \A d \in Requires[v] : tables[serving][d] # 0

\* No refresh request is lost: when the loop is back waiting, nothing is
\* pending, and the last build succeeded, every table served is at least as
\* recent as its source was when the last SIGHUP was sent, even one sent in
\* the middle of a rebuild.
SignalsHonoured ==
  (pc = "recv" /\ ~ hup /\ serving = version - 1) =>
    \A d \in Datasets :
      tables[serving][d] # 0 => tables[serving][d] >= demanded[d]

\* Disk use is bounded: beyond the file served there is at most the one being
\* built or just replaced, and what failed builds and unlinks left.
NoOrphanFiles ==
  files \subseteq leaked
    \cup (IF serving = None THEN {} ELSE {serving})
    \cup (IF pc \in {"loading", "swapping", "exited"} THEN {building} ELSE {})
    \cup (IF pc = "unlinking" THEN {replaced} ELSE {})

\* A request's later queries never read an older version than its earlier ones.
ReadsMoveForward ==
  \A r \in Readers :
    LET seen == IF held[r] = None THEN got[r] ELSE Append(got[r], held[r]) IN
      \A i, k \in DOMAIN seen : i < k => seen[i] <= seen[k]

\* A rebuild never touches the file that is served or that a request still
\* reads ("rebuilds start at 1 so they never collide", analytics.rs:189).
OpenSnapshotsImmutable ==
  [][\A v \in Versions :
       (v = serving \/ \E r \in Readers : held[r] = v) =>
         tables'[v] = tables[v] /\ views'[v] = views[v]]_vars

(* Liveness. *)

\* A pending signal is answered by a rebuild that begins after it, even if it
\* came while another one was under way (while versions last in the model).
SignalStartsRebuild ==
  (hup /\ version <= MaxVersion) ~> (pc = "loading" /\ ~ hup)
=============================================================================
