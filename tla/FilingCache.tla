----------------------------- MODULE FilingCache -----------------------------
(***************************************************************************)
(* Reading filings on demand (src/filings.rs, the filings table of         *)
(* src/keys.rs).  A read looks in memory (L1), then in SQLite (L2), then   *)
(* downloads: first with the HTTP client, and when that fails with the one *)
(* headless browser, whose session readers take turns to use.  What was    *)
(* extracted goes into memory, then, best effort, into SQLite.  No lock is *)
(* held between these steps, so reads of one URL overlap; the source may   *)
(* serve something else each time; every step outside may fail; and a      *)
(* crash leaves only the table.                                            *)
(***************************************************************************)
EXTENDS Naturals

CONSTANTS
  Readers,      \* concurrent get_filing calls
  Urls,         \* URLs that validate_url lets through
  Texts,        \* extracted texts (cut to MAX_TEXT_CHARS)
  Tries,        \* fetches on one browser session before it is given up
  MaxCrashes,   \* bound on restarts
  None

ASSUME TriesAssumption == Tries \in Nat \ {0}
ASSUME CrashesAssumption == MaxCrashes \in Nat
ASSUME NoneAssumption == None \notin Readers \cup Texts

VARIABLES
  memory,    \* L1: Filings.cache
  disk,      \* L2: the filings table
  session,   \* is there a browser session
  holder,    \* the reader that holds the session lock
  tries,     \* fetches it has left on this session
  pc, url,   \* where each reader is, and what it reads
  got,       \* the body or text it carries
  answered,  \* history: URLs this process has answered with a text
  known,     \* history: reads that began when this process had answered their
             \* URL, or the table had it
  crashes

caches == <<memory, disk>>
browser == <<session, holder, tries>>
readers == <<pc, url, got>>
history == <<answered, known>>
vars == <<caches, browser, readers, history, crashes>>

Bodies == Texts \cup {"not a PDF", "unreadable"}

Browsing == {"launch", "page", "relaunch", "retry"}
Fetching == {"request", "queue"} \cup Browsing
Holding == {"insert", "store", "promote"}
Places == {"idle", "memory", "disk", "extract"} \cup Fetching \cup Holding

Shaped ==
  /\ memory \in [Urls -> Texts \cup {None}]
  /\ disk \in [Urls -> Texts \cup {None}]
  /\ session \in BOOLEAN
  /\ holder \in Readers \cup {None}
  /\ tries \in 0..Tries
  /\ pc \in [Readers -> Places]
  /\ url \in [Readers -> Urls \cup {None}]
  /\ got \in [Readers -> Bodies \cup {None}]
  /\ answered \subseteq Urls
  /\ known \subseteq Readers
  /\ crashes \in 0..MaxCrashes

\* A reader reads something, holds a text when it is to be kept, and has the
\* session lock while it uses the browser.
ReaderTyped(r) ==
  /\ pc[r] # "idle" => url[r] \in Urls
  /\ pc[r] = "idle" => r \notin known
  /\ pc[r] = "extract" => got[r] \in Bodies
  /\ pc[r] \in Holding => got[r] \in Texts
  /\ pc[r] \in Browsing <=> holder = r
  /\ pc[r] \in {"launch", "page"} => tries > 0

TypeOK == Shaped /\ \A r \in Readers : ReaderTyped(r)

Init ==
  /\ memory = [u \in Urls |-> None]
  /\ disk = [u \in Urls |-> None]
  /\ session = FALSE /\ holder = None /\ tries = 0
  /\ pc = [r \in Readers |-> "idle"]
  /\ url = [r \in Readers |-> None]
  /\ got = [r \in Readers |-> None]
  /\ answered = {} /\ known = {} /\ crashes = 0

-----------------------------------------------------------------------------
(* How a reader moves on. *)

At(r, where) == pc[r] = where

Goto(r, where) == pc' = [pc EXCEPT ![r] = where]

\* The reader goes on with a body or a text in hand.
Carry(r, where, what) ==
  Goto(r, where) /\ got' = [got EXCEPT ![r] = what] /\ UNCHANGED <<url, history>>

Leave(r) ==
  /\ Goto(r, "idle")
  /\ url' = [url EXCEPT ![r] = None]
  /\ got' = [got EXCEPT ![r] = None]
  /\ known' = known \ {r}

Answer(r) == Leave(r) /\ answered' = answered \cup {url[r]}

Fail(r) == Leave(r) /\ UNCHANGED answered

Start(r) ==
  /\ At(r, "idle")
  /\ Goto(r, "memory")
  /\ \E u \in Urls :
       /\ url' = [url EXCEPT ![r] = u]
       /\ known' = IF u \in answered \/ disk[u] # None THEN known \cup {r} ELSE known
  /\ UNCHANGED <<caches, browser, got, answered, crashes>>

-----------------------------------------------------------------------------
(* The two caches. *)

\* Mutant: memory is not looked in.
LookInMemory_Skip(r) ==
  /\ At(r, "memory") /\ Goto(r, "disk")
  /\ UNCHANGED <<caches, browser, url, got, history, crashes>>

LookInMemory(r) ==
  /\ At(r, "memory")
  /\ \/ memory[url[r]] # None /\ Answer(r)
     \/ memory[url[r]] = None /\ Goto(r, "disk") /\ UNCHANGED <<url, got, history>>
  /\ UNCHANGED <<caches, browser, crashes>>

\* Mutant: a failed read of the table counts as a miss.
LookOnDisk_ErrorIsMiss(r) ==
  /\ At(r, "disk")
  /\ \/ disk[url[r]] # None /\ Carry(r, "promote", disk[url[r]])
     \/ Goto(r, "request") /\ UNCHANGED <<url, got, history>>
  /\ UNCHANGED <<caches, browser, crashes>>

\* A read of the table that fails is the end of the read.
LookOnDisk(r) ==
  /\ At(r, "disk")
  /\ \/ disk[url[r]] # None /\ Carry(r, "promote", disk[url[r]])
     \/ disk[url[r]] = None /\ Goto(r, "request") /\ UNCHANGED <<url, got, history>>
     \/ Fail(r)
  /\ UNCHANGED <<caches, browser, crashes>>

Promote(r) ==
  /\ At(r, "promote")
  /\ memory' = [memory EXCEPT ![url[r]] = got[r]]
  /\ Answer(r)
  /\ UNCHANGED <<disk, browser, crashes>>

-----------------------------------------------------------------------------
(* Downloading. *)

Request(r) ==
  /\ At(r, "request")
  /\ \/ \E b \in Bodies : Carry(r, "extract", b)
     \/ Goto(r, "queue") /\ UNCHANGED <<url, got, history>>
  /\ UNCHANGED <<caches, browser, crashes>>

TakeSession(r) ==
  /\ At(r, "queue") /\ holder = None
  /\ holder' = r /\ tries' = Tries
  /\ Goto(r, IF session THEN "page" ELSE "launch")
  /\ UNCHANGED <<caches, session, url, got, history, crashes>>

\* Mutant: a failed launch leaves the session locked.
Launch_KeepLock(r) ==
  /\ pc[r] \in {"launch", "relaunch"}
  /\ \/ /\ session' = TRUE
        /\ Goto(r, IF At(r, "launch") THEN "page" ELSE "retry")
        /\ UNCHANGED <<holder, url, got, history>>
     \/ Fail(r) /\ UNCHANGED <<session, holder>>
  /\ UNCHANGED <<caches, tries, crashes>>

\* A new browser replaces the old; if it does not start, the old one stays.
Launch(r) ==
  /\ pc[r] \in {"launch", "relaunch"}
  /\ \/ /\ session' = TRUE
        /\ Goto(r, IF At(r, "launch") THEN "page" ELSE "retry")
        /\ UNCHANGED <<holder, url, got, history>>
     \/ Fail(r) /\ holder' = None /\ UNCHANGED session
  /\ UNCHANGED <<caches, tries, crashes>>

FetchInPage(r) ==
  /\ At(r, "page")
  /\ \/ /\ \E b \in Bodies : Carry(r, "extract", b)
        /\ holder' = None
        /\ UNCHANGED tries
     \/ /\ tries' = tries - 1
        /\ Goto(r, IF tries = 1 THEN "relaunch" ELSE "page")
        /\ UNCHANGED <<holder, url, got, history>>
  /\ UNCHANGED <<caches, session, crashes>>

FetchAfterRelaunch(r) ==
  /\ At(r, "retry")
  /\ (\E b \in Bodies : Carry(r, "extract", b)) \/ Fail(r)
  /\ holder' = None
  /\ UNCHANGED <<caches, session, tries, crashes>>

-----------------------------------------------------------------------------
(* From the body to the caches. *)

\* Mutant: whatever came back is kept.
Extract_Anything(r) ==
  /\ At(r, "extract") /\ Goto(r, "insert")
  /\ UNCHANGED <<caches, browser, url, got, history, crashes>>

\* Not a PDF (an error page served with 200, say), or a PDF without a text
\* that can be extracted: the read fails, and nothing is cached.
Extract(r) ==
  /\ At(r, "extract")
  /\ \/ got[r] \in Texts /\ Goto(r, "insert") /\ UNCHANGED <<url, got, history>>
     \/ got[r] \notin Texts /\ Fail(r)
  /\ UNCHANGED <<caches, browser, crashes>>

\* Mutant: the table is written first, memory only if that worked.
Insert_DiskFirst(r) ==
  /\ At(r, "insert")
  /\ \/ disk' = [disk EXCEPT ![url[r]] = got[r]] /\ memory' = [memory EXCEPT ![url[r]] = got[r]]
     \/ UNCHANGED caches
  /\ Goto(r, "store")
  /\ UNCHANGED <<browser, url, got, history, crashes>>

Insert(r) ==
  /\ At(r, "insert")
  /\ memory' = [memory EXCEPT ![url[r]] = got[r]]
  /\ Goto(r, "store")
  /\ UNCHANGED <<disk, browser, url, got, history, crashes>>

\* The write may fail; the answer is the same.
Store(r) ==
  /\ At(r, "store")
  /\ disk' = [disk EXCEPT ![url[r]] = got[r]] \/ UNCHANGED disk
  /\ Answer(r)
  /\ UNCHANGED <<memory, browser, crashes>>

-----------------------------------------------------------------------------
Crash ==
  /\ crashes < MaxCrashes /\ crashes' = crashes + 1
  /\ memory' = [u \in Urls |-> None]
  /\ session' = FALSE /\ holder' = None
  /\ pc' = [r \in Readers |-> "idle"]
  /\ url' = [r \in Readers |-> None]
  /\ got' = [r \in Readers |-> None]
  /\ answered' = {} /\ known' = {}
  /\ UNCHANGED <<disk, tries>>

\* Steps that wait for the browser, and the others.
BrowserStep(r) == Launch(r) \/ FetchInPage(r) \/ FetchAfterRelaunch(r)

OwnStep(r) ==
  \/ LookInMemory(r) \/ LookOnDisk(r) \/ Promote(r) \/ Request(r) \/ TakeSession(r)
  \/ Extract(r) \/ Insert(r) \/ Store(r)

Step(r) == OwnStep(r) \/ BrowserStep(r)

Next == Crash \/ \E r \in Readers : Start(r) \/ Step(r)

Spec == Init /\ [][Next]_vars

\* A reader moves on as long as it can.  The HTTP client gives up in time
\* (FETCH_TIMEOUT), and the session lock is handed out in the order it was asked
\* for.  Nothing bounds the start of a browser, its navigation or a fetch in its
\* page, so these may hang: no fairness.  Nobody has to ask for a filing.
Fairness == \A r \in Readers : WF_vars(OwnStep(r)) /\ SF_vars(TakeSession(r))

FairSpec == Spec /\ Fairness

-----------------------------------------------------------------------------
(* Properties. *)

\* "a repeat read never re-fetches" (filings.rs:13): a read that begins after
\* this process has answered its URL, or when the table has it, never goes out
\* to the source, whichever other reads of the URL are under way.
RepeatReadsStayInside == \A r \in known : pc[r] \notin Fetching

\* An answer is not forgotten while the process lives, even when the table
\* could not be written.
AnswersAreKept == \A u \in answered : memory[u] # None

\* Reads that overlap may replace each other's text, but not forever: the text
\* of a URL settles, although the source may serve a new one every time.
TextsSettle == <>[][UNCHANGED memory]_vars

\* The browser does not hang.
BrowserEnds == \A r \in Readers : WF_vars(BrowserStep(r))

\* Every read ends, in an answer or an error, or falls back to the browser; and
\* unless that hangs, all of these end as well: whichever way the holder of the
\* session fails, the next one gets it.  A read that the caches or the HTTP client
\* can serve needs no browser, even when another read hangs in it.
ReadsEnd ==
  /\ \A r \in Readers : pc[r] # "idle" ~> pc[r] \in {"idle", "queue"} \cup Browsing
  /\ BrowserEnds => \A r \in Readers : pc[r] # "idle" ~> pc[r] = "idle"
=============================================================================
