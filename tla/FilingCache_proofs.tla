------------------------- MODULE FilingCache_proofs -------------------------
(***************************************************************************)
(* For any number of readers, URLs, texts and crashes: FilingCache is well *)
(* typed, keeps what it has answered, and never goes out to the source for *)
(* a URL a read could have known.                                          *)
(***************************************************************************)
EXTENDS FilingCache, TLAPS

\* A known read finds its text: while it has still to look in memory the text
\* is there or in the table, and once it looks in the table it is there.
KnownIsCached ==
  \A r \in known :
    /\ pc[r] \in {"memory", "disk", "promote"}
    /\ pc[r] = "memory" => memory[url[r]] # None \/ disk[url[r]] # None
    /\ pc[r] = "disk" => disk[url[r]] # None

\* A reader writes to the table what it, or a reader after it, put in memory.
StoredIsInMemory ==
  \A r \in Readers : pc[r] = "store" => memory[url[r]] # None

Inv == TypeOK /\ AnswersAreKept /\ StoredIsInMemory /\ KnownIsCached

USE TriesAssumption, CrashesAssumption, NoneAssumption

\* The initial state is well typed, and nothing is cached, answered or known.
LEMMA Initially == Init => Inv
<1> SUFFICES ASSUME Init PROVE Inv OBVIOUS
<1> USE DEF Init
<1>1. Shaped!1 /\ Shaped!2 OBVIOUS
<1>2. Shaped!3 OBVIOUS
<1>3. Shaped!4 /\ Shaped!5 /\ Shaped!9 /\ Shaped!10 /\ Shaped!11 OBVIOUS
<1>4. Shaped!6 /\ Shaped!7 /\ Shaped!8 BY DEF Places
<1>5. ASSUME NEW r \in Readers PROVE ReaderTyped(r)
  BY DEF ReaderTyped, Holding, Browsing
<1>6. AnswersAreKept /\ KnownIsCached /\ StoredIsInMemory
  BY DEF AnswersAreKept, KnownIsCached, StoredIsInMemory
<1>7. QED BY <1>1, <1>2, <1>3, <1>4, <1>5, <1>6 DEF Shaped, Inv, TypeOK

-----------------------------------------------------------------------------
(* Each step keeps the types: those of the state, those of the reader that *)
(* takes the step, and those of the other readers.                         *)

\* A read that begins names a URL.
LEMMA StartKeeps ==
  ASSUME TypeOK, NEW r \in Readers, Start(r)
  PROVE  TypeOK'
<1> USE DEF TypeOK, At, Goto, Carry, Leave, Answer, Fail, caches, browser, readers, history
<1>1. Shaped'
  BY DEF Start, Shaped, ReaderTyped, Places, Fetching, Browsing, Holding
<1>2. ReaderTyped(r)'
  BY DEF Start, Shaped, ReaderTyped, Fetching, Browsing, Holding
<1>3. ASSUME NEW q \in Readers \ {r} PROVE ReaderTyped(q)'
  BY DEF Start, Shaped, ReaderTyped, Browsing, Holding
<1>4. QED BY <1>1, <1>2, <1>3

\* A hit in memory ends the read, a miss leads on.
LEMMA LookInMemoryKeeps ==
  ASSUME TypeOK, NEW r \in Readers, LookInMemory(r)
  PROVE  TypeOK'
<1> USE DEF TypeOK, At, Goto, Carry, Leave, Answer, Fail, caches, browser, readers, history
<1>1. CASE memory[url[r]] # None /\ Answer(r)
 <2>1. Shaped'
   BY <1>1 DEF LookInMemory, Shaped, ReaderTyped, Places, Fetching, Browsing, Holding
 <2>2. ReaderTyped(r)'
   BY <1>1 DEF LookInMemory, Shaped, ReaderTyped, Fetching, Browsing, Holding
 <2>3. ASSUME NEW q \in Readers \ {r} PROVE ReaderTyped(q)'
   BY <1>1 DEF LookInMemory, Shaped, ReaderTyped, Browsing, Holding
 <2>4. QED BY <2>1, <2>2, <2>3
<1>2. CASE memory[url[r]] = None /\ Goto(r, "disk") /\ UNCHANGED <<url, got, history>>
 <2>1. Shaped'
   BY <1>2 DEF LookInMemory, Shaped, ReaderTyped, Places, Fetching, Browsing, Holding
 <2>2. ReaderTyped(r)'
   BY <1>2 DEF LookInMemory, Shaped, ReaderTyped, Fetching, Browsing, Holding
 <2>3. ASSUME NEW q \in Readers \ {r} PROVE ReaderTyped(q)'
   BY <1>2 DEF LookInMemory, Shaped, ReaderTyped, Browsing, Holding
 <2>4. QED BY <2>1, <2>2, <2>3
<1>3. QED BY <1>1, <1>2 DEF LookInMemory

\* What the table holds is a text.
LEMMA LookOnDiskKeeps ==
  ASSUME TypeOK, NEW r \in Readers, LookOnDisk(r)
  PROVE  TypeOK'
<1> USE DEF TypeOK, At, Goto, Carry, Leave, Answer, Fail, caches, browser, readers, history
<1>1. CASE disk[url[r]] # None /\ Carry(r, "promote", disk[url[r]])
 <2>1. Shaped'
   BY <1>1 DEF LookOnDisk, Bodies, Shaped, ReaderTyped, Places, Fetching, Browsing, Holding
 <2>2. ReaderTyped(r)'
   BY <1>1 DEF LookOnDisk, Shaped, ReaderTyped, Fetching, Browsing, Holding
 <2>3. ASSUME NEW q \in Readers \ {r} PROVE ReaderTyped(q)'
   BY <1>1 DEF LookOnDisk, Shaped, ReaderTyped, Browsing, Holding
 <2>4. QED BY <2>1, <2>2, <2>3
<1>2. CASE disk[url[r]] = None /\ Goto(r, "request") /\ UNCHANGED <<url, got, history>>
 <2>1. Shaped'
   BY <1>2 DEF LookOnDisk, Shaped, ReaderTyped, Places, Fetching, Browsing, Holding
 <2>2. ReaderTyped(r)'
   BY <1>2 DEF LookOnDisk, Shaped, ReaderTyped, Fetching, Browsing, Holding
 <2>3. ASSUME NEW q \in Readers \ {r} PROVE ReaderTyped(q)'
   BY <1>2 DEF LookOnDisk, Shaped, ReaderTyped, Browsing, Holding
 <2>4. QED BY <2>1, <2>2, <2>3
<1>3. CASE Fail(r)
 <2>1. Shaped'
   BY <1>3 DEF LookOnDisk, Shaped, ReaderTyped, Places, Fetching, Browsing, Holding
 <2>2. ReaderTyped(r)'
   BY <1>3 DEF LookOnDisk, Shaped, ReaderTyped, Fetching, Browsing, Holding
 <2>3. ASSUME NEW q \in Readers \ {r} PROVE ReaderTyped(q)'
   BY <1>3 DEF LookOnDisk, Shaped, ReaderTyped, Browsing, Holding
 <2>4. QED BY <2>1, <2>2, <2>3
<1>4. QED BY <1>1, <1>2, <1>3 DEF LookOnDisk

\* What is promoted is the text carried from the table.
LEMMA PromoteKeeps ==
  ASSUME TypeOK, NEW r \in Readers, Promote(r)
  PROVE  TypeOK'
<1> USE DEF TypeOK, At, Goto, Carry, Leave, Answer, Fail, caches, browser, readers, history
<1>1. Shaped'
  BY DEF Promote, Shaped, ReaderTyped, Places, Fetching, Browsing, Holding
<1>2. ReaderTyped(r)'
  BY DEF Promote, Shaped, ReaderTyped, Fetching, Browsing, Holding
<1>3. ASSUME NEW q \in Readers \ {r} PROVE ReaderTyped(q)'
  BY DEF Promote, Shaped, ReaderTyped, Browsing, Holding
<1>4. QED BY <1>1, <1>2, <1>3

\* A download brings some body or leads to the browser.
LEMMA RequestKeeps ==
  ASSUME TypeOK, NEW r \in Readers, Request(r)
  PROVE  TypeOK'
<1> USE DEF TypeOK, At, Goto, Carry, Leave, Answer, Fail, caches, browser, readers, history
<1>1. CASE \E b \in Bodies : Carry(r, "extract", b)
 <2>1. Shaped'
   BY <1>1 DEF Request, Shaped, ReaderTyped, Places, Fetching, Browsing, Holding
 <2>2. ReaderTyped(r)'
   BY <1>1 DEF Request, Shaped, ReaderTyped, Fetching, Browsing, Holding
 <2>3. ASSUME NEW q \in Readers \ {r} PROVE ReaderTyped(q)'
   BY <1>1 DEF Request, Shaped, ReaderTyped, Browsing, Holding
 <2>4. QED BY <2>1, <2>2, <2>3
<1>2. CASE Goto(r, "queue") /\ UNCHANGED <<url, got, history>>
 <2>1. Shaped'
   BY <1>2 DEF Request, Shaped, ReaderTyped, Places, Fetching, Browsing, Holding
 <2>2. ReaderTyped(r)'
   BY <1>2 DEF Request, Shaped, ReaderTyped, Fetching, Browsing, Holding
 <2>3. ASSUME NEW q \in Readers \ {r} PROVE ReaderTyped(q)'
   BY <1>2 DEF Request, Shaped, ReaderTyped, Browsing, Holding
 <2>4. QED BY <2>1, <2>2, <2>3
<1>3. QED BY <1>1, <1>2 DEF Request

\* The lock goes to one reader, with all its tries.
LEMMA TakeSessionKeeps ==
  ASSUME TypeOK, NEW r \in Readers, TakeSession(r)
  PROVE  TypeOK'
<1> USE DEF TypeOK, At, Goto, Carry, Leave, Answer, Fail, caches, browser, readers, history
<1>1. Shaped'
  BY DEF TakeSession, Shaped, ReaderTyped, Places, Fetching, Browsing, Holding
<1>2. ReaderTyped(r)'
  BY DEF TakeSession, Shaped, ReaderTyped, Fetching, Browsing, Holding
<1>3. ASSUME NEW q \in Readers \ {r} PROVE ReaderTyped(q)'
  BY DEF TakeSession, Shaped, ReaderTyped, Browsing, Holding
<1>4. QED BY <1>1, <1>2, <1>3

\* A launch keeps the lock, or gives it up with the read.
LEMMA LaunchKeeps ==
  ASSUME TypeOK, NEW r \in Readers, Launch(r)
  PROVE  TypeOK'
<1> USE DEF TypeOK, At, Goto, Carry, Leave, Answer, Fail, caches, browser, readers, history
<1>1. CASE /\ session' = TRUE /\ Goto(r, IF At(r, "launch") THEN "page" ELSE "retry")
            /\ UNCHANGED <<holder, url, got, history>>
 <2>1. Shaped'
   BY <1>1 DEF Launch, Shaped, ReaderTyped, Places, Fetching, Browsing, Holding
 <2>2. ReaderTyped(r)'
   BY <1>1 DEF Launch, Shaped, ReaderTyped, Fetching, Browsing, Holding
 <2>3. ASSUME NEW q \in Readers \ {r} PROVE ReaderTyped(q)'
   BY <1>1 DEF Launch, Shaped, ReaderTyped, Browsing, Holding
 <2>4. QED BY <2>1, <2>2, <2>3
<1>2. CASE Fail(r) /\ holder' = None /\ UNCHANGED session
 <2>1. Shaped'
   BY <1>2 DEF Launch, Shaped, ReaderTyped, Places, Fetching, Browsing, Holding
 <2>2. ReaderTyped(r)'
   BY <1>2 DEF Launch, Shaped, ReaderTyped, Fetching, Browsing, Holding
 <2>3. ASSUME NEW q \in Readers \ {r} PROVE ReaderTyped(q)'
   BY <1>2 DEF Launch, Shaped, ReaderTyped, Browsing, Holding
 <2>4. QED BY <2>1, <2>2, <2>3
<1>3. QED BY <1>1, <1>2 DEF Launch

\* The last try leads to the relaunch: tries never fall below zero.
LEMMA FetchInPageKeeps ==
  ASSUME TypeOK, NEW r \in Readers, FetchInPage(r)
  PROVE  TypeOK'
<1> USE DEF TypeOK, At, Goto, Carry, Leave, Answer, Fail, caches, browser, readers, history
<1>1. CASE /\ \E b \in Bodies : Carry(r, "extract", b)
            /\ holder' = None /\ UNCHANGED tries
 <2>1. Shaped'
   BY <1>1 DEF FetchInPage, Shaped, ReaderTyped, Places, Fetching, Browsing, Holding
 <2>2. ReaderTyped(r)'
   BY <1>1 DEF FetchInPage, Shaped, ReaderTyped, Fetching, Browsing, Holding
 <2>3. ASSUME NEW q \in Readers \ {r} PROVE ReaderTyped(q)'
   BY <1>1 DEF FetchInPage, Shaped, ReaderTyped, Browsing, Holding
 <2>4. QED BY <2>1, <2>2, <2>3
<1>2. CASE /\ tries' = tries - 1
            /\ Goto(r, IF tries = 1 THEN "relaunch" ELSE "page")
            /\ UNCHANGED <<holder, url, got, history>>
 <2>1. Shaped'
   BY <1>2 DEF FetchInPage, Shaped, ReaderTyped, Places, Fetching, Browsing, Holding
 <2>2. ReaderTyped(r)'
   BY <1>2 DEF FetchInPage, Shaped, ReaderTyped, Fetching, Browsing, Holding
 <2>3. ASSUME NEW q \in Readers \ {r} PROVE ReaderTyped(q)'
   BY <1>2 DEF FetchInPage, Shaped, ReaderTyped, Browsing, Holding
 <2>4. QED BY <2>1, <2>2, <2>3
<1>3. QED BY <1>1, <1>2 DEF FetchInPage

\* The fetch after the relaunch gives the lock up either way.
LEMMA FetchAfterRelaunchKeeps ==
  ASSUME TypeOK, NEW r \in Readers, FetchAfterRelaunch(r)
  PROVE  TypeOK'
<1> USE DEF TypeOK, At, Goto, Carry, Leave, Answer, Fail, caches, browser, readers, history
<1>1. CASE \E b \in Bodies : Carry(r, "extract", b)
 <2>1. Shaped'
   BY <1>1 DEF FetchAfterRelaunch, Shaped, ReaderTyped, Places, Fetching, Browsing, Holding
 <2>2. ReaderTyped(r)'
   BY <1>1 DEF FetchAfterRelaunch, Shaped, ReaderTyped, Fetching, Browsing, Holding
 <2>3. ASSUME NEW q \in Readers \ {r} PROVE ReaderTyped(q)'
   BY <1>1 DEF FetchAfterRelaunch, Shaped, ReaderTyped, Browsing, Holding
 <2>4. QED BY <2>1, <2>2, <2>3
<1>2. CASE Fail(r)
 <2>1. Shaped'
   BY <1>2 DEF FetchAfterRelaunch, Shaped, ReaderTyped, Places, Fetching, Browsing, Holding
 <2>2. ReaderTyped(r)'
   BY <1>2 DEF FetchAfterRelaunch, Shaped, ReaderTyped, Fetching, Browsing, Holding
 <2>3. ASSUME NEW q \in Readers \ {r} PROVE ReaderTyped(q)'
   BY <1>2 DEF FetchAfterRelaunch, Shaped, ReaderTyped, Browsing, Holding
 <2>4. QED BY <2>1, <2>2, <2>3
<1>3. QED BY <1>1, <1>2 DEF FetchAfterRelaunch

\* Only a text goes on to the caches.
LEMMA ExtractKeeps ==
  ASSUME TypeOK, NEW r \in Readers, Extract(r)
  PROVE  TypeOK'
<1> USE DEF TypeOK, At, Goto, Carry, Leave, Answer, Fail, caches, browser, readers, history
<1>1. CASE got[r] \in Texts
 <2>1. Shaped'
   BY <1>1 DEF Extract, Shaped, ReaderTyped, Places, Fetching, Browsing, Holding
 <2>2. ReaderTyped(r)'
   BY <1>1 DEF Extract, Shaped, ReaderTyped, Fetching, Browsing, Holding
 <2>3. ASSUME NEW q \in Readers \ {r} PROVE ReaderTyped(q)'
   BY <1>1 DEF Extract, Shaped, ReaderTyped, Browsing, Holding
 <2>4. QED BY <2>1, <2>2, <2>3
<1>2. CASE got[r] \notin Texts
 <2>1. Shaped'
   BY <1>2 DEF Extract, Shaped, ReaderTyped, Places, Fetching, Browsing, Holding
 <2>2. ReaderTyped(r)'
   BY <1>2 DEF Extract, Shaped, ReaderTyped, Fetching, Browsing, Holding
 <2>3. ASSUME NEW q \in Readers \ {r} PROVE ReaderTyped(q)'
   BY <1>2 DEF Extract, Shaped, ReaderTyped, Browsing, Holding
 <2>4. QED BY <2>1, <2>2, <2>3
<1>3. QED BY <1>1, <1>2 DEF Extract

\* What is put in memory is a text.
LEMMA InsertKeeps ==
  ASSUME TypeOK, NEW r \in Readers, Insert(r)
  PROVE  TypeOK'
<1> USE DEF TypeOK, At, Goto, Carry, Leave, Answer, Fail, caches, browser, readers, history
<1>1. Shaped'
  BY DEF Insert, Shaped, ReaderTyped, Places, Fetching, Browsing, Holding
<1>2. ReaderTyped(r)'
  BY DEF Insert, Shaped, ReaderTyped, Fetching, Browsing, Holding
<1>3. ASSUME NEW q \in Readers \ {r} PROVE ReaderTyped(q)'
  BY DEF Insert, Shaped, ReaderTyped, Browsing, Holding
<1>4. QED BY <1>1, <1>2, <1>3

\* What is put in the table is a text.
LEMMA StoreKeeps ==
  ASSUME TypeOK, NEW r \in Readers, Store(r)
  PROVE  TypeOK'
<1> USE DEF TypeOK, At, Goto, Carry, Leave, Answer, Fail, caches, browser, readers, history
<1>1. Shaped'
  BY DEF Store, Shaped, ReaderTyped, Places, Fetching, Browsing, Holding
<1>2. ReaderTyped(r)'
  BY DEF Store, Shaped, ReaderTyped, Fetching, Browsing, Holding
<1>3. ASSUME NEW q \in Readers \ {r} PROVE ReaderTyped(q)'
  BY DEF Store, Shaped, ReaderTyped, Browsing, Holding
<1>4. QED BY <1>1, <1>2, <1>3

\* No step disturbs the types: nobody's step, a crash, or a stuttering one.
LEMMA StepsKeepTypes == TypeOK /\ [Next]_vars => TypeOK'
<1> SUFFICES ASSUME TypeOK, [Next]_vars PROVE TypeOK' OBVIOUS
<1>1. CASE Crash
 <2> USE DEF TypeOK, Crash
 <2>1. Shaped!1' /\ Shaped!2' /\ Shaped!4' /\ Shaped!5' BY <1>1 DEF Shaped
 <2>2. Shaped!3' /\ Shaped!9' /\ Shaped!10' BY <1>1
 <2>3. Shaped!6' /\ Shaped!7' /\ Shaped!8' BY <1>1 DEF Places
 <2>4. Shaped!11' BY <1>1 DEF Shaped
 <2>5. ASSUME NEW q \in Readers PROVE ReaderTyped(q)'
   BY <1>1 DEF Shaped, ReaderTyped, Browsing, Holding
 <2>6. QED BY <2>1, <2>2, <2>3, <2>4, <2>5 DEF Shaped
<1>2. CASE UNCHANGED vars
  BY <1>2 DEF vars, caches, browser, readers, history, TypeOK, Shaped, ReaderTyped
<1>3. CASE \E r \in Readers : Start(r) \/ Step(r)
  BY <1>3, StartKeeps, LookInMemoryKeeps, LookOnDiskKeeps, PromoteKeeps, RequestKeeps, TakeSessionKeeps,
     LaunchKeeps, FetchInPageKeeps, FetchAfterRelaunchKeeps, ExtractKeeps, InsertKeeps, StoreKeeps
  DEF Step, OwnStep, BrowserStep
<1>4. QED BY <1>1, <1>2, <1>3 DEF Next

-----------------------------------------------------------------------------
(* What is cached stays cached, and a known read finds it. *)

\* Only a crash empties an entry of memory; nothing empties one of the table.
LEMMA CachesGrow ==
  ASSUME TypeOK, [Next]_vars, NEW u \in Urls
  PROVE  /\ memory[u] # None /\ ~ Crash => memory'[u] # None
         /\ disk[u] # None => disk'[u] # None
<1> USE DEF TypeOK, Shaped
<1>1. ASSUME NEW r \in Readers, Promote(r) \/ Insert(r) \/ Store(r)
      PROVE  (memory[u] # None => memory'[u] # None) /\ (disk[u] # None => disk'[u] # None)
 <2>1. got[r] # None
   BY <1>1, NoneAssumption DEF ReaderTyped, Holding, Promote, Insert, Store, At
 <2>2. QED BY <1>1, <2>1 DEF Promote, Insert, Store
<1>2. ASSUME NEW r \in Readers,
             \/ Start(r) \/ LookInMemory(r) \/ LookOnDisk(r) \/ Request(r) \/ TakeSession(r)
             \/ Launch(r) \/ FetchInPage(r) \/ FetchAfterRelaunch(r) \/ Extract(r)
      PROVE  UNCHANGED caches
  BY <1>2 DEF caches, Start, LookInMemory, LookOnDisk, Request, TakeSession, Launch,
              FetchInPage, FetchAfterRelaunch, Extract
<1>3. CASE Crash BY <1>3 DEF Crash
<1>4. CASE UNCHANGED vars BY <1>4 DEF vars, caches
<1>5. CASE \E r \in Readers : Start(r) \/ Step(r)
  BY <1>1, <1>2, <1>5 DEF Step, OwnStep, BrowserStep, caches
<1>6. QED BY <1>3, <1>4, <1>5 DEF Next

\* A step that answers a URL leaves its text in memory.
LEMMA AnswersStayKept == Inv /\ [Next]_vars => AnswersAreKept'
<1> SUFFICES ASSUME Inv, [Next]_vars, NEW u \in answered' PROVE memory'[u] # None
  BY DEF AnswersAreKept
<1>1. TypeOK /\ Shaped /\ AnswersAreKept BY DEF Inv, TypeOK
<1>2. CASE Crash BY <1>2 DEF Crash
<1>3. CASE u \in answered /\ ~ Crash
  BY <1>1, <1>3, CachesGrow DEF AnswersAreKept, Shaped
<1>4. CASE u \notin answered /\ ~ Crash
 <2>1. PICK r \in Readers : (LookInMemory(r) \/ Promote(r) \/ Store(r)) /\ u = url[r]
   BY <1>4 DEF Next, Step, OwnStep, BrowserStep, vars, caches, browser, readers, history, Start, LookInMemory,
      LookOnDisk, Promote, Request, TakeSession, Launch, FetchInPage, FetchAfterRelaunch,
      Extract, Insert, Store, Carry, Answer, Fail
 <2>2. CASE LookInMemory(r)
   BY <2>1, <2>2, <1>4 DEF LookInMemory, Answer, Goto, history, caches, Leave
 <2>3. CASE Promote(r)
   BY <1>1, <2>1, <2>3, NoneAssumption DEF Promote, At, TypeOK, Shaped, ReaderTyped, Holding
 <2>4. CASE Store(r)
   BY <1>1, <2>1, <2>4 DEF Store, At, Inv, StoredIsInMemory
 <2>5. QED BY <2>1, <2>2, <2>3, <2>4
<1>5. QED BY <1>2, <1>3, <1>4

\* A reader that comes to the store has just put its text in memory.
LEMMA StoredStaysInMemory == Inv /\ [Next]_vars => StoredIsInMemory'
<1> SUFFICES ASSUME Inv, [Next]_vars, NEW q \in Readers, pc'[q] = "store"
             PROVE  memory'[url'[q]] # None
  BY DEF StoredIsInMemory
<1>1. TypeOK /\ TypeOK' BY StepsKeepTypes DEF Inv
<1>2. ~ Crash BY DEF Crash
<1>3. CASE pc[q] = "store" /\ url'[q] = url[q]
  BY <1>1, <1>2, <1>3, CachesGrow DEF Inv, StoredIsInMemory, TypeOK, Shaped, ReaderTyped
<1>4. CASE ~ (pc[q] = "store" /\ url'[q] = url[q])
 <2>1. Insert(q)
   BY <1>1, <1>2, <1>4 DEF TypeOK, Shaped, Next, Step, OwnStep, BrowserStep,
     vars, caches, browser, readers, history,
      Start, LookInMemory, LookOnDisk, Promote, Request, TakeSession, Launch, FetchInPage,
      FetchAfterRelaunch, Extract, Insert, Store, Carry, Goto, Leave, Answer, Fail, At
 <2>2. QED
   BY <1>1, <2>1, NoneAssumption DEF TypeOK, Shaped, ReaderTyped, Holding, Insert, At, readers
<1>5. QED BY <1>3, <1>4

\* A read that becomes known finds its text at once, and one that is known
\* finds it where it goes next.
LEMMA KnownStaysCached == Inv /\ [Next]_vars => KnownIsCached'
<1> SUFFICES ASSUME Inv, [Next]_vars, NEW q \in known' PROVE KnownIsCached!(q)'
  BY DEF KnownIsCached
<1>1. TypeOK /\ TypeOK' BY StepsKeepTypes DEF Inv
<1>2. q \in Readers /\ ~ Crash BY <1>1 DEF TypeOK, Shaped, Crash
<1>3. pc[q] # "idle" => url[q] \in Urls BY <1>1, <1>2 DEF TypeOK, ReaderTyped
<1>4. CASE Start(q)
 <2>1. PICK u \in Urls :
         /\ url' = [url EXCEPT ![q] = u]
         /\ known' = IF u \in answered \/ disk[u] # None THEN known \cup {q} ELSE known
   BY <1>4 DEF Start
 <2>2. memory[u] # None \/ disk[u] # None
   BY <1>1, <1>2, <1>4, <2>1 DEF Inv, AnswersAreKept, TypeOK, ReaderTyped, Start, At
 <2>3. QED
   BY <1>1, <1>2, <1>4, <2>1, <2>2 DEF TypeOK, Shaped, Start, Goto, caches
<1>5. CASE LookInMemory(q)
  BY <1>1, <1>2, <1>5
     DEF Inv, KnownIsCached, TypeOK, Shaped, LookInMemory, Goto, Leave, Answer, At,
         caches, history
<1>6. CASE LookOnDisk(q)
  BY <1>1, <1>2, <1>6
     DEF Inv, KnownIsCached, TypeOK, Shaped, LookOnDisk, Goto, Carry, Leave, Fail, At,
         caches, history
<1>7. CASE ~ (Start(q) \/ LookInMemory(q) \/ LookOnDisk(q))
 <2>1. pc'[q] = pc[q] /\ url'[q] = url[q] /\ q \in known
  <3>1. CASE UNCHANGED vars BY <3>1 DEF vars, readers, history
  <3>2. CASE \E r \in Readers \ {q} : Start(r) \/ Step(r)
    BY <1>1, <1>2, <3>2 DEF TypeOK, Shaped, Step, OwnStep, BrowserStep, readers, history,
       Start, LookInMemory, LookOnDisk, Promote, Request, TakeSession, Launch, FetchInPage,
       FetchAfterRelaunch, Extract, Insert, Store, Carry, Goto, Leave, Answer, Fail
  <3>3. CASE Step(q)
   <4>1. q \notin known
     BY <1>7, <3>3 DEF Inv, KnownIsCached, Step, OwnStep, BrowserStep, Promote, Leave, Answer,
        Request, TakeSession, Launch, FetchInPage, FetchAfterRelaunch, Extract, Insert, Store, At
   <4>2. QED
     BY <1>7, <3>3, <4>1 DEF Step, OwnStep, BrowserStep, readers, history, Promote, Request, TakeSession, Launch,
        FetchInPage, FetchAfterRelaunch, Extract, Insert, Store, Carry, Leave, Answer, Fail
  <3>4. QED BY <1>2, <1>7, <3>1, <3>2, <3>3 DEF Next
 <2>2. QED
   BY <1>1, <1>2, <1>3, <2>1, CachesGrow DEF Inv, KnownIsCached
<1>8. QED BY <1>4, <1>5, <1>6, <1>7

-----------------------------------------------------------------------------
(* The theorems. *)

\* The invariant holds throughout.
LEMMA Invariance == Spec => []Inv
<1>1. Inv /\ [Next]_vars => Inv'
  BY StepsKeepTypes, AnswersStayKept, StoredStaysInMemory, KnownStaysCached DEF Inv
<1>2. QED BY Initially, <1>1, PTL DEF Spec

\* FilingCache is well typed: in particular at most one reader drives the
\* browser, and only texts get into the caches.
THEOREM TypeCorrectness == Spec => []TypeOK
BY Invariance, PTL DEF Inv

\* What the process has answered stays in memory, whatever happens to the table.
THEOREM AnswersKept == Spec => []AnswersAreKept
BY Invariance, PTL DEF Inv

\* A read that begins when its URL was answered, or is in the table, never goes
\* out to the source.
THEOREM NoRepeatedFetch == Spec => []RepeatReadsStayInside
<1>1. Inv => RepeatReadsStayInside
  BY DEF Inv, KnownIsCached, RepeatReadsStayInside, Fetching, Browsing
<1>2. QED BY Invariance, <1>1, PTL
=============================================================================
