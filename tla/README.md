# idx-mcp-server in TLA+

`idx-mcp` is an MCP server over Indonesian market data. It answers SQL and typed
queries from an in-process DuckDB database that it builds from Parquet files and
rebuilds on SIGHUP, fetches filings (PDFs) on demand, and lets clients in with
API keys or through its own OAuth server; both are kept in one SQLite file. The
modules here model the parts of it that run concurrently, fail, or outlive a
restart. Paths are relative to the repository; `analytics.rs:247` is line 247 of
`src/analytics.rs`.

## The system

| Part | State | Operations | Interacts with |
|---|---|---|---|
| Serving pool, `analytics.rs:65-129, 242-356, 700-780` | semaphore permits, idle connections, one interrupt handle per connection, blocking tasks | `checkout`, `checkin`, `run_query`, `query_json`, `describe`, timeout, `spawn_reclaim` | all tools call it; it runs on the database of the last refresh |
| Build and refresh, `analytics.rs:131-240, 358-562`, `main.rs:145-166`, `catalog.rs` | `Arc<Serving>`, version counter, `serving-<version>.duckdb` files, pending SIGHUP | boot build, `rebuild` (build, swap, unlink), the signal loop | reads Parquet that the ETL tool rewrites; requests hold the `Arc` they took |
| OAuth server, `oauth.rs`, `keys.rs:155-270` | tables `oauth_clients`, `oauth_codes`, `oauth_tokens` | `register`, `authorize`, `token`, `verify_oauth` | the bearer gate accepts its tokens |
| Bearer gate and usage log, `auth.rs`, `keys.rs:103-152, 321-381` | bounded queue, writer task, table `usage`, the lock of the one SQLite connection | lookups, `record`, `log_usage_batch`, `prune_usage` | in front of every tool call |
| Filings, `filings.rs`, `keys.rs:273-316` | in-memory map (L1), table `filings` (L2), one browser session behind a lock | `fetch`, `fetch_via_browser`, `launch`, `cache_load`, `cache_store` | tool `get_filing`; the outside world |
| Serving directories, `analytics.rs:171-190, 593-611, 783-797` | `<pid>-<instance>` directories under one root | create, clear, reap those of dead processes | other processes on the same root |
| SQL validator, `analytics.rs:613-700`, `catalog.rs:150-180` | none | `validate`, `walk` | before a statement of `run_query` |
| Query builder and checks, `server.rs:399-612` | none | `build_screen`, `ensure_date`, `escape_like`, row cap | the tools |
| Start, configuration, ETL and query tools | none of their own | `main`, `from_env`, `bin/etl.rs`, `bin/q.rs` | |

What is hard in it, and what makes each part right:

* **Pool.** A call is a handler task, a blocking task and, after a timeout, a
  reclaim task; each may be the one to give the connection back. Permits and
  connections are two counts that change in separate steps. Interrupts race with
  statements. Panics lose connections. Right means: the counts stay in step,
  nobody shares or leaks a connection, an interrupt never hits a neighbour,
  callers are answered, and connections come back.
* **Refresh.** Builds read sources that change underneath, signals arrive at any
  moment and coalesce, builds and unlinks fail, requests still read the replaced
  file. Right means: the served file is there, whole and usable; no signal is
  lost; files do not pile up; a request's queries do not go back in time.
* **OAuth.** Handlers are several database calls with other handlers, the clock,
  hang-ups and restarts in between. Right means: one code, one token, bound to
  client, URI, verifier and audience.
* **Usage.** A bounded queue, batches that fail as a whole, pruning that takes
  turns with them, one connection lock. Right means: every answered call is
  accounted for once and in order, answers do not wait for the log, and the
  queue drains.
* **Serving directories.** Runs of the program share a root, get each other's
  pids, die without tidying up, and reap while others start. Right means: what a
  live run serves stays, what dead ones left goes, a reused directory has no old
  file in it.
* **Tools and validator.** Arguments are checked, then become clauses, holes and
  parameters in step; user SQL is judged by its syntax tree. Right means: an
  answer is what the request describes, in order, cut where it says so, and
  a query of the user's is answered from the catalog and its own expressions only.
* **Filings.** Reads of one URL overlap with no lock held; the source may change;
  everything outside fails; a restart leaves only the table. Right means: no
  repeated download, no answer forgotten, texts settle, every read ends.

`PROJECT.json` lists these hazards one by one, each at its line.

## Modules

One module per component; proofs in a module of their own; `MC*` modules only
give constants that a `.cfg` cannot express. A definition that starts with the
name of another one and a suffix, under a comment `Mutant:`, is a plausible bug
of that definition; no specification uses it. They show that each property would
notice.

**`ServingPool`** — `pc[j]` follows the handler of call `j` through `run_query`,
`query_json` or `describe` (`waiting` in `checkout`, `permitted` between
`acquire_owned` and `pop`, `running`, `releasing` between `checkin` and the drop
of the permit, `reclaiming` after a timeout, `reclaimed` between the reclaim
task's checkin and its drop). `task[j]` follows its blocking task: `between`
statements (from the moment it is spawned), in a `stmt`, `interrupted`, `ended`,
`panicked`. A task runs
several statements (the validator's probe and the query; `describe` runs one per
relation). `Expire` is the timeout and `Interrupt` its call of `interrupt()`, two
steps, because the task goes on meanwhile. `slot` and `handle` are the connection
a call owns and the interrupt handle it cloned. `interrupted` is DuckDB's flag.

**`ConnectionLease`** — what the pool promises, without permits, tasks and flags:
a connection is leased to one call at a time; it comes back free or is lost; a
query is cut only after its own call ran late, and then its lease ends with the
cut. `ServingPool` implements it (`ImplementsLease`): a connection's lease is
computed from where the connection is, a late call is one being reclaimed.

**`Refresh`** — one process. `pc` is the boot build, then the signal loop:
`recv`, `loading` one dataset after another, `swapping`, `unlinking`. `gen` and
`readable` are the source files and what the ETL tool did to them; `tables[v]` is
what was loaded into file `v` and from which generation. Requests take the
current version for one query at a time (`get_company` makes three). Signals
before the handler is installed end the process; if installing fails, the process
is deaf.

**`Handover`** — two instances of `ServingPool`, the replaced `Serving` and the
new one, around `rebuild`'s swap. `Begin` is `current()`: a call starts on the
pool that is current and stays there; a client makes one call at a time. The
replaced one is closed when `rebuild` has returned and no call holds its `Arc`.

**`ServingDirs`** — several runs of the program and other programs' pids. `dirs`
and `owner` are the directories under the root and who wrote the files in them.
A run's boot is the reaping pass (`List`, then `Check` for each entry, `RemoveFile`
and `RemoveDir`, interleaved with everybody else's steps), its own directory
(`MakeDir`, `Clear`), then builds. `Die` is any end. Three history variables say
who got a pid in the middle of its directory's removal (`raced`), what a pass
could not be expected to remove (`spared`) and who could not clear (`unclean`).
A raced run may lose its files, and if its directory is gone it can never build
again; the model has both.

**`Validator`** — `walk` over syntax trees of selects, base tables (with the schema
they are asked for in), table functions and common table expressions, and beside it
what DuckDB's binder does with the same tree (`Binds`): a name is an expression in
scope (`Scope`, SQL's rules), a relation of the serving database, or one of
DuckDB's own tables (`SystemTables`). A tree is a function from paths to nodes, so
that "every node" needs no recursion and any tree can be reasoned about; a step of
a path says whether it goes into a common table expression, and into which. `walk`
drops schemas and collects the names of common table expressions without their
scopes. So a table that has the name of an expression passes wherever it stands;
outside the expression's scope DuckDB may know no such table, and the query fails,
or know one of its own, and answers from that (run `tools_scope`).

**`Tools`** — one action per query tool; `Calls` are the requests. `serving` is the
database a call gets: the relations loaded, which may be a part of the catalog since
a build skips datasets it cannot read, and whether queries fail there (timeouts,
panics and errors of DuckDB, which `ServingPool` tells apart). A tool makes
clauses with holes and, beside them, a list of parameters, as the code does: the
text of a clause and what is pushed for it are separate arguments of `Clause`, and a
query whose parameters are not as many as its holes fails (`CanRun`). `Execute` is
DuckDB, which gives the k-th hole the k-th parameter. It stands for every list of
rows DuckDB may return: rows come out one by one, each when no row left comes before
it, so rows that the sort keys do not tell apart come in any order. What a call should
come to is stated apart from that: whether a request is as documented (`IsLegal`) or
at least excusable (`IsTolerable`, numbers written as strings), the rows it describes
(`Wanted`, `Passes`, `InRange`, over values and not clauses), their order and the
numbers they may be cut at (`Order`, `Bounds`), and the `Outcome` of a request that is
not refused. Dates are digits, patterns are
characters, since `ensure_date` and `escape_like` are about them; `Matched` reads a
pattern one character at a time. Tables are sets of rows; columns that no
property tells apart are left out. Requests do not share state and the pool
that runs them is `ServingPool`, so a behaviour is one call.

**`OAuth`** — tables as functions from ids to rows; `pc[h]` is the database call a
handler waits for. `Consume` is the single `UPDATE ... RETURNING` with the PKCE
check that follows without another wait. A client that hangs up leaves the
database call to finish on its blocking thread, without a handler to go on.
Hashes are identities: a code or a token is its row's key. A URI is its scheme and
what the rest begins with, because that is all `valid_redirect` compares.

**`FilingCache`** — `pc[r]` is the step of `fetch` a reader is at. Every wait is a
step of its own. `Request` is the HTTP client; if it fails, the reader queues for
the session, launches a browser if there is none, fetches in the page up to
`Tries` times, relaunches once. A body is a text, not a PDF, or a PDF no text can
be got from; only the failure of the request, not a wrong body, leads to the
browser, as in the code.

**`UsageLog`** — the bearer gate and the logger. A request is its own event.
The table is a set of rows with the ids SQLite gives them: one more than the largest
in the table, so that an id may come back once pruning has emptied it.
`lock` is the SQLite connection while the writer is in its transaction; the
lookups need it. `Rollback` is an error or a panic anywhere in the transaction;
the batch is not tried again. `Crash` is any end of the process: an orderly
shutdown does not drain the queue either, since `main` returns and the runtime
drops the writer.

## What is checked

| Run | Asks | Bounds |
|---|---|---|
| `pool` | are permits, connections and interrupts right in every interleaving, is the pool an implementation of `ConnectionLease`, are calls answered, connections given back, waiting calls served | 3 calls, 2 connections, 2 statements |
| `pool_runaway` | (violated) does a timed-out query stop | 2 calls, 1 connection, 2 statements |
| `pool_drained` | (violated) does the pool recover from panics | 2 calls, 1 connection, 2 statements |
| `refresh` | is the served database whole, is no signal lost, are files cleaned up | 2 datasets, a view that needs both, 3 versions, 2 generations, a request of 2 queries |
| `handover` | does a replaced `Serving` close, do fresh calls depend on the old one | 3 calls, 1 connection per pool, 1 statement |
| `dirs` | do reapers, crashes and reused pids spare the living and clear the dead | 3 runs, 3 pids, 2 versions, runs and pids interchangeable |
| `tools` | do tools answer what was asked, tell what was cut, and refuse the rest | some 20,000 requests on each of 3 databases (complete, loaded in part, failing), 8 relations of up to 9 rows, limits up to 6, cap 4 |
| `tools_scope` | (violated) does `run_query` answer from nothing but the catalog | as `tools` |
| `oauth` | does a code buy one token, bound to what was asked | 2 handlers, 1 client, 1 code, 2 tokens, 2 URIs, 2 verifiers, 3 instants |
| `filings` | do overlapping reads repeat downloads, forget, disagree for ever, or hang when the browser does not | 2 readers, 2 URLs, 2 texts, 2 tries, 1 restart |
| `usage` | is usage accounted for, do answers wait, does the queue drain | 3 requests, queue and batch of 2, 2 instants, 1 restart |
| `usage_contention` | (violated) does the request path stay clear of the writer's transaction | 2 requests |

Why these bounds are enough for what is asked. Pool: a third call beside two
connections makes calls wait, and lets a reclaimed connection be handed to a call
that is neither the one timed out nor the one that returned it; two statements
give the moment between statements. Refresh: two datasets give a build torn
between two ETL runs and a view with one input missing; three versions give a
rebuild after a failed and after a successful one. Handover: with one connection
each and three calls, the old pool can hold a running, a reclaimed and a waiting
call while the swap happens. Directories: three runs give one that serves, one
that reaps and one that starts in between, with the pid of a dead one if it
likes; nothing in the code depends on more than two pids. Tools: all months and
month ends of six years, those that decide leap years among them; each field, operator and kind of
value alone and some in pairs; limits below, at and above cap and result; rows
that tie and NULLs; a database that lacks tables and a view; syntax trees
with selects in selects and up to two common table expressions, upper and lower case,
tables asked for in a schema, and a table of DuckDB's own with and without an
expression of its name. OAuth: one URI that may be registered and one that may not
are the two sides of `valid_redirect`; a second code would be
independent of the first, since all rows of one exchange are found by the code;
two handlers race for it, two tokens show a second issue. Filings: two readers are
enough for every overlap of two fetches; the second URL only competes for the
browser. Usage: three events overfill a queue of two while the writer waits, and
batches of two show partial batches.

The counters that have no bound in the code are capped in guards: `MaxVersion`,
`MaxGen` (Refresh), `MaxVersion` (ServingDirs), `MaxTime` (OAuth, UsageLog), `MaxCrashes` (FilingCache,
UsageLog), `MaxStatements` (ServingPool).

`CHECK_DEADLOCK FALSE`: the pool really stops once panics have lost all
connections (`pool_drained` is about that); the process of Refresh may have
exited, or versions are used up; so may all runs of ServingDirs be dead; a behaviour
of Tools ends with its answer; Handover is two pools; in OAuth and UsageLog ids and time are used up.
`filings` is checked for deadlock.

### Findings

* `pool_runaway` — the module header promises "an external timeout that
  interrupts a runaway query" (`analytics.rs:13`). The interrupt is sent once; DuckDB
  clears the flag when a statement starts. If the interrupt finds the task between
  two statements, the next one runs without limit and keeps its connection.
* `pool_drained` — `Cargo.toml:37` says that the pool recovers from panicked tasks.
  Its counts do; its connections do not: none is replaced before the next rebuild,
  and with all lost, calls wait in `checkout`, outside the timeout, for good.
* `usage_contention` — `keys.rs:328` says the logger keeps the request path from
  contending on the database. The writer holds the only connection through its
  transaction, and each request's lookup waits for it.
* `tools_scope` — `validate` "guarantees: exactly one SELECT statement, every base
  table in the allowlist" (`analytics.rs:613`, also line 11; the test at line 848 has it
  refuse `pg_tables`). The names of common table expressions are collected from the
  whole tree and exempt a table of that name anywhere (`analytics.rs:649`), so outside
  the scope of the expression DuckDB's own table of that name is read.
  `QueriesAreVetted` says what does hold: each table read is in scope, loaded, or
  has the name of some expression of the query.

Smaller ones, seen while modelling and part of the models: `server.rs:98` says "Max
rows to return", and a limit of 0 returns one row (`TruncationIsTold` allows for
it); the typed tools cut at 5000 rows without saying so, `get_prices` and
`get_broker_activity` keeping the oldest (`Bounds`); numbers in a screen may be written as
strings, which `server.rs:124` documents for `sector` only (`IsTolerable`);
`server.rs:120` refers to `describe_schema latest` for the fields to filter on, which lists
more than the screen takes; a screen whose query fails is reported as invalid
parameters (`user_err`, `server.rs:537`) and so is any failure of `run_query`; the error at
`oauth.rs:83` says "https or localhost", but `valid_redirect` compares only how a URI
begins (`oauth.rs:263`), so the host may go on after `localhost`; `oauth.rs:9` calls tokens
revocable, and nothing revokes one before it expires; `analytics.rs:221` names a command
`idx-mcp refresh` that `main.rs` does not have; without `/proc`, a reaper takes
every pid but its own for dead.

### Fairness

Nothing is assumed of clients: no call, request, signal or ETL run has to happen.

* Pool: weak fairness of each handler, blocking-task and reclaim step (tokio polls
  what is ready, a blocking thread runs its closure), of the timeout, and strong
  fairness of `Acquire`, since tokio's semaphore is first come, first served. None
  for the end of a statement: a query may run forever. Where a property needs
  statements to end, it says so (`StatementsEnd =>`).
* Handover: each pool as above; `rebuild`, once it has swapped, returns. The old
  `Serving` closes if its own statements end; a fresh call is served if those of
  the new one do, whatever the old one's do.
* Refresh: weak fairness of the process's own steps.
* Filings: weak fairness of each reader's own steps, among them the request of the
  HTTP client, the only one with a time limit (`FETCH_TIMEOUT`, `filings.rs:90`); strong
  fairness for the session lock, tokio's `Mutex` being first come, first served. None
  for the browser: the code sets no limit to launching it, to its navigation or to
  a fetch in its page (`filings.rs:261`), and a browser that hangs keeps the session.
  The first part of `ReadsEnd` holds all the same: a read ends or gets to the
  browser. The second is about browsers that do not hang (`BrowserEnds =>`): then every
  read ends, whichever way the holder of the session fails.
* Usage: weak fairness of request steps and of the end of a transaction. The
  writer's taking up work is an assumption of `QueueDrains` only, so that
  `RequestsEnd` shows that answers do not depend on it. The lookups' lock is not
  fair, and need not be: the writer uses it finitely often in the model.

## What is proved

`ServingPool_proofs`, for any finite sets of calls and connections and any number
of statements: `TypeCorrectness`, `PermitsStayInStep`, `CheckoutFindsAConnection`,
`ConnectionsAreExclusive`, `InterruptsHitTheirOwnQuery`, `PoolImplementsLease`.
None of these properties is inductive. The invariant that is says where each
connection is: what each handler position implies for its task and slot
(`TaskShape`), that no two calls own the same connection and no owned one is idle
or lost (`Disjoint`), that each is somewhere (`Complete`), that a handle belongs to
the connection its call owns (`OwnHandle`), that a flag is raised or a statement cut
only for a call being reclaimed (`OwnInterrupt`), and that permits and idle
connections are in step (`PermitsMatchIdle`). The cardinality facts come from the library's theorems
on finite sets. `CheckoutFindsAConnection` (a permit guarantees an idle connection)
follows from `PermitsMatchIdle`, and only the latter is a property of a run. The
refinement follows step by step: each action is a step of
`ConnectionLease` or leaves the three mapped variables alone.

`FilingCache_proofs`, for any readers, URLs, texts and restarts:
`TypeCorrectness` (one reader at most drives the browser), `AnswersKept`,
`NoRepeatedFetch`. Strengthening: a read that could know its text finds it, in
memory or in the table while it has not looked in memory, in the table
afterwards (`KnownIsCached`; memory may be filled behind its back but never
emptied), and a reader that writes to the table finds its URL in memory
(`StoredIsInMemory`).

`OAuth_proofs`, for any handlers, clients, codes, tokens, URIs, verifiers and
lifetimes: all five properties of the run (`TypeCorrectness`, `SingleUse`, `Burnt`,
`Binding`, `Ours`). TLC has one code; the proofs show
that others make no difference. Each step keeps or adds rows (`Permanence`), so what
a handler saw in one database call still holds in its next. `Home` says that a
handler about to store a code names a URI its client registered, and so does every
code stored. `Spent` is the heart: a
handler about to issue a token found its code unused, and is alone with it — no
other handler, no grant and no refusal has that code, as all of them found the
used flag raised or raised it (`Alone`, `Issuing`, `Granted`). Steps that neither
spend nor issue are `Quiet` and dealt with at once.

`Refresh_proofs`, for any catalog, views, requests and bounds: all six safety
properties of the run (`TypeCorrectness`, `ServedIsUsable`, `NoSignalLost`,
`DiskBounded`, `ReadsGoForward`, `SnapshotsStay`). Versions are in order — what
requests read, what is served, what is being built, what comes next (`Phases`,
`HeldIsPast`, `GotIsPast`) — so a build never touches a file in use. What is served
became usable when its build ended (`Built`). Unless a signal is pending, what
was loaded last is no older than what was demanded (`Fresh`), because
`Rebuild` takes the signal before it loads and sources only get newer
(`DemandIsPast`).

`ServingDirs_proofs`, for any runs, pids and versions: `TypeCorrectness`,
`ServedFilesStay`, `DeadDirsGo`, `NoStaleFiles`. The directory a reaper removes never
has the pid of a live run, unless that run got it after the look at `/proc`
(`Removals`), so what a run has and serves is still there (`Housed`, `Kept`); the versions
a run serves, builds and will build are in order (`Ordered`), so it never unlinks
the file it serves. What a pass has not removed is still on its list, or spared
(`Remaining`).

`Handover_proofs`: whatever happens in the other, each of the two pools behaves as
`ServingPool` says (`BothArePools`). So what is proved of a pool holds of both
throughout a handover (`BothPoolsAreSafe`, with the theorems of `ServingPool_proofs`
instantiated for each). Once the replaced `Serving` is closed no call gets hold of it
again (`ClosedForGood`), and then no task runs on it or waits to be reclaimed: every
connection is idle or was lost to a panic (`ClosedHoldsNothing`). That is
`ReplacedServingCloses` without its "in the end".

`UsageLog_proofs`, for any requests, sizes, clock and restarts: `TypeCorrectness`
(with the bounds of queue and batch, and unique ids) and `UsageIsAccountedFor`, which
states `EventsAccountedFor`. Events that are not lost have places in one line, table
before batch before queue: every answered call has exactly one (`Answered`), and
places are in the order of the answers. That only the end of the line grows and
only the front of it moves from queue to batch to table makes each step keep the order.
That new rows come last needs the largest id to exist: ids are naturals with a
bound (`Numbered`), and the least-number principle, which follows from the
library's well-founded orders without induction over data, gives it (`LargestNumber`).

`Tools_proofs`, for any tables, requests, catalog and limits: all three properties of
the run. A behaviour is one call, so each is a fact about what a tool computes, carried
over one step (`Invariance`).
* `AnswersAreAlwaysRight` states `AnswersAreWhatWasAsked`, whatever part of the catalog is
  loaded and whether queries fail: a tool refuses what it should, and what it answers
  is the first rows, in its order and cut only at a limit, of exactly those the
  request describes. There is one lemma per tool (`AnswerOfSearch`
  and its like), and they rest on the following facts about the builders and DuckDB.
* `EscapedTextsMatchLiterally`: the pattern `search_tickers` makes of a text (the only
  use of `escape_like`) matches exactly the texts that contain it. After each character
  of the pattern the lemmas know where in the text it may have got to.
* `ParametersFindTheirHoles`: when each clause has as many holes as parameters were
  pushed beside it, there are as many parameters as holes in all, and each clause gets
  its own, however many there are.
* `FiltersMeanWhatTheySay` and `DateRangesMeanWhatTheySay`: the clause made of an
  accepted filter, and those made of a range of dates, hold of exactly the rows that
  the filter or the range describes (`Passes`, `InRange`), NULLs included. The lemma
  `AcceptedClause` says that a filter's clause has as many holes as it pushed parameters.
* `EnsureDateIsExact`: `ensure_date` accepts a text exactly when it is a day of the
  calendar, by comparing `days_in_month` with the day numbers of the Gregorian
  calendar, for all years of four digits.
* `RefusalsAreAlwaysRight`: a typed call that is as documented is answered if its data
  is loaded and no query fails; one with an impossible date, or with a filter or sort
  that is not documented even if its numbers were not strings, is refused; a call that
  is not refused has the outcome its data and queries allow (`RefusalsAreRight`, a part
  of the first).
* `QueriesAreAlwaysVetted` states `QueriesAreVetted` for any syntax tree, catalog, system
  tables and serving database. The heart is that what is in scope at a path was
  introduced at a node of the tree, and `walk` visits all nodes.
* `TruncationIsAlwaysTold` states `TruncationIsTold`: fetching one row more than the cap
  is enough to tell.

Patterns, flattened lists and lists of rows are recursive functions, and the library's
induction theorems cannot be used here: they take a predicate as a parameter.
`Induction` puts the set of the numbers a fact holds of in its place, and follows from
`LeastNumber`, a fact about the well-founded order of the naturals. `Recursion`
shows in the same way that a function defined step by step exists, which
`CHOOSE` alone does not say.

All of the theorems rest on the assumptions named in the modules and on nothing else:
`JobsAssumption` and the like (sets are finite, bounds are naturals, `None` is no value,
lower case is stable, syntax trees are trees, no table of DuckDB's own has the name
of a dataset or view), `TablesAssumption` (what a relation
holds, when it is loaded, is finite, with texts and numbers where its columns say
so), `ServingsAssumption` (only relations of the catalog are loaded, any part of it) and
`CallsAssumption` (a request has the types that its Rust struct promises). MCTools
gives constants that satisfy them, and TLC evaluates them.

Only model-checked: all liveness, since fairness and ENABLED are beyond the prover.
Every invariant and every action property of the passing runs is stated by a theorem.

## What the models take from libraries

* DuckDB stops a running statement whose connection's flag is raised, at some
  point or never before it ends; starting a statement clears the flag.
* tokio's `timeout` polls the task first; a blocking closure runs to its end even
  if nobody waits for it; a panic in it is returned as an error, its captures
  dropped.
* A database call of SQLite is atomic under the connection's lock, and a
  transaction that does not commit leaves nothing.
* Several SIGHUPs that were not yet received count as one.
* axum drops the handler of a request whose connection is closed; MCP tool calls
  run in tasks of the MCP library and are not cut off.
* DuckDB resolves a name without a schema to an expression in scope, else to a
  relation of the database, else to a table of its own; it orders not-a-number and
  infinity after all numbers, like a large number.
* DuckDB sorts NULLs last, a comparison with NULL is not true, ILIKE with ESCAPE
  takes the escaped character literally, and the name of a common table
  expression is visible in its own body, in those listed after it and in the
  select it belongs to.
* `/proc/<pid>` exists exactly while the process does (Linux).
* Unlinking an open file leaves it readable for those who have it open.

## What is not modelled

The SQL of the views, column lists, the shape of JSON answers, log messages, TLS and
browser configuration, environment variables, and hashing and random numbers (ids
are fresh and told apart exactly). Adding an API key (`keys add`) is a separate
run of the program that inserts one row. `bin/q.rs` prints the result of one
query. The MCP transport, the HTTP stack and the databases are libraries; scripts
and CI drive the program from outside. The ETL tool is modelled as what it does to
the files that a build reads; how it converts them is I/O.

## Plan

The modules, runs and theorems that were planned are there. What could be added:

1. More of `bin/etl.rs`: the order in which it writes files, if the loader ever
   depends on it.
2. Liveness, by a prover that knows fairness.
