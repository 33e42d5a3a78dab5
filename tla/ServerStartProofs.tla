------------------------- MODULE ServerStartProofs -------------------------
(***************************************************************************)
(* Proofs about ServerStart, for any number of threads, descriptors,       *)
(* entries of ./error/ and addresses.                                      *)
(***************************************************************************)
EXTENDS ServerStart, FiniteSetTheorems, TLAPS

(***************************************************************************)
(* The inductive invariant.                                                *)
(***************************************************************************)
AtPage   == {"open", "load"}
AtDir    == {"readdir"} \cup AtPage
AtSocket == {"bind", "listen"}
CacheDone == {"spawn", "socket", "accept"} \cup AtSocket

\* Who executes what.
Roles ==
  /\ role = "client" => main \in {"resolve", "socket", "bind", "connected"} /\ spawned = 0
  /\ role = "client" /\ proc # "running" => main \in {"resolve", "socket"}
  /\ role = "server" => main \notin {"resolve", "connected"}

\* The workers are created in order, when the cache is complete.
Spawning ==
  /\ \A t \in Threads : t > spawned => thread[t] = "none"
  /\ spawned > 0 => role = "server" /\ main \in CacheDone

\* The cache is what the entries returned so far make it.
Caching ==
  /\ main \in AtPage => \E e \in Entries : dirEnt = {e} /\ e \notin unread /\ code[e] # NoPage
  /\ main \notin AtPage => dirEnt = {}
  /\ role = "server" /\ main \in CacheDone => unread = {}
  /\ \A c : c \in DOMAIN errorMsgCache <=>
       c # NoPage /\ \E e \in Entries : e \notin unread /\ e \notin dirEnt /\ code[e] = c
  /\ \A c \in DOMAIN errorMsgCache : \E e \in Entries : errorMsgCache[c] = {e} /\ code[e] = c

\* Which descriptors there may be at which statement.
Opened ==
  /\ \A f \in Fds : table[f] = "log" => role = "server"
  /\ \A f \in Fds : table[f] = "dir" => main \in AtDir
  /\ \A f \in Fds : table[f] = "page" => main = "load"
  /\ \A f \in Fds : table[f] = "socket" <=> main \in AtSocket /\ f = listenFd
  /\ \A f \in Fds : table[f] = "listener" => main = "accept" /\ f = listenFd
  /\ \A f \in Fds : table[f] = "connection" <=> main = "connected" /\ f = listenFd
  /\ main \in AtSocket \cup {"connected"} => listenFd \in Fds

\* One log of main, one of each worker that has started.
Started == {t \in Threads : thread[t] = "pop"}
Logs ==
  role = "server" =>
    Cardinality(Are("log")) = (IF main = "log" THEN 0 ELSE 1) + Cardinality(Started)

StartInv == TypeOK /\ Roles /\ Spawning /\ Caching /\ Opened /\ Logs

-----------------------------------------------------------------------------
(***************************************************************************)
(* Facts about descriptors and sets.                                       *)
(***************************************************************************)
LEMMA OpensIs ==
  ASSUME TypeOK, NEW f \in Fds, NEW what, Opens(f, what)
  PROVE  table[f] = "free" /\ \A g \in Fds : table'[g] = IF g = f THEN what ELSE table[g]
BY DEF Opens, Free, TypeOK

LEMMA ClosesIs ==
  ASSUME NEW what, Closes(what)
  PROVE  \A g \in Fds : table'[g] = IF table[g] = what THEN "free" ELSE table[g]
BY DEF Closes

LEMMA FiniteFds == IsFiniteSet(Fds)
<1>1. 3 \in Int /\ MaxFd \in Int
  BY StartAssumption
<1>2. QED
  BY <1>1, FS_Interval DEF Fds

LEMMA FiniteThreads == IsFiniteSet(Threads)
<1>1. 1 \in Int /\ ThreadNum \in Int
  BY StartAssumption
<1>2. QED
  BY <1>1, FS_Interval DEF Threads

LEMMA CountsOne ==
  ASSUME NEW S, IsFiniteSet(S), NEW T, T \subseteq S, NEW x, x \notin T
  PROVE  Cardinality(T \cup {x}) = Cardinality(T) + 1 /\ Cardinality(T) \in Nat
<1>1. IsFiniteSet(T)
  BY FS_Subset
<1>2. QED
  BY <1>1, FS_AddElement, FS_CardinalityType

LEMMA LogsStay ==
  ASSUME Logs, \A f \in Fds : table'[f] = "log" <=> table[f] = "log",
         UNCHANGED <<role, thread>>, main' = "log" <=> main = "log"
  PROVE  Logs'
<1>1. Are("log")' = Are("log")
  BY DEF Are
<1>2. QED
  BY <1>1 DEF Logs, Started

\* An exception that ends the process changes nothing else.
LEMMA ThrowsKeeps ==
  ASSUME StartInv, UNCHANGED <<role, table, main, thread, spawned, code, unread, dirEnt,
                               errorMsgCache, addrs, listenFd>>,
         proc' \in {"running", "exited", "aborted"},
         role = "client" /\ proc' # "running" => main \in {"resolve", "socket"}
  PROVE  StartInv'
<1>1. TypeOK'
  BY DEF StartInv, TypeOK
<1>2. Roles' /\ Spawning' /\ Caching' /\ Opened'
  BY DEF StartInv, Roles, Spawning, Caching, Opened
<1>3. Logs'
  BY LogsStay DEF StartInv
<1>4. QED
  BY <1>1, <1>2, <1>3 DEF StartInv

LEMMA InitStart == Init => StartInv
<1> SUFFICES ASSUME Init PROVE StartInv
  OBVIOUS
<1>1. Cardinality({}) = 0
  BY FS_EmptySet
<1>2. TypeOK
  BY <1>1, StartAssumption DEF Init, TypeOK, Things, Threads, Fds
<1>3. Roles /\ Spawning /\ Opened
  BY DEF Init, Roles, Spawning, Opened, AtDir, AtPage, AtSocket, CacheDone
<1>4. Caching
  BY DEF Init, Caching, AtPage, CacheDone, AtSocket
<1>5. Logs
  <2>1. Are("log") = {} /\ Started = {}
    BY DEF Init, Are, Started
  <2>2. role = "server" => main = "log"
    BY DEF Init
  <2>3. 0 = 0 + 0
    OBVIOUS
  <2>4. QED
    BY <1>1, <2>1, <2>2, <2>3 DEF Logs
<1>6. QED
  BY <1>2, <1>3, <1>4, <1>5 DEF StartInv

-----------------------------------------------------------------------------
(***************************************************************************)
(* The constructor.                                                        *)
(***************************************************************************)

\* The log of a thread is one more.
LEMMA LogOpened ==
  ASSUME StartInv, NEW f \in Fds, Opens(f, "log")
  PROVE  /\ Cardinality(Are("log")') = Cardinality(Are("log")) + 1
         /\ Cardinality(Are("log")) \in Nat
<1>1. table[f] = "free" /\ \A g \in Fds : table'[g] = IF g = f THEN "log" ELSE table[g]
  BY OpensIs DEF StartInv
<1>2. Are("log")' = Are("log") \cup {f} /\ f \notin Are("log") /\ Are("log") \subseteq Fds
  BY <1>1 DEF Are
<1>3. QED
  BY <1>2, FiniteFds, CountsOne

LEMMA ReDirectKeeps == ASSUME StartInv, ReDirect PROVE StartInv'
<1> USE DEF StartInv
<1>1. CASE Throws("log", "aborted")
  BY <1>1, ThrowsKeeps DEF ReDirect, Throws, threadVars, cacheVars, socketVars, Roles
<1>2. CASE Goto("log", "opendir") /\ \E f \in Fds : Opens(f, "log")
  <2>1. /\ main = "log" /\ main' = "opendir" /\ proc = "running"
        /\ UNCHANGED <<role, proc, thread, spawned, code, unread, dirEnt, errorMsgCache,
                       addrs, listenFd>>
    BY <1>2 DEF ReDirect, Goto, threadVars, cacheVars, socketVars
  <2>2. PICK f \in Fds : Opens(f, "log")
    BY <1>2
  <2>3. table[f] = "free" /\ \A g \in Fds : table'[g] = IF g = f THEN "log" ELSE table[g]
    BY <2>2, OpensIs
  <2>4. role = "server"
    BY <2>1 DEF Roles, TypeOK
  <2>5. TypeOK'
    BY <2>1, <2>2 DEF TypeOK, Opens, Things
  <2>6. Roles' /\ Spawning' /\ Caching'
    BY <2>1, <2>4 DEF Roles, Spawning, Caching, AtPage, CacheDone, AtSocket
  <2>7. Opened'
    BY <2>1, <2>3, <2>4 DEF Opened, AtDir, AtPage, AtSocket
  <2>8. Logs'
    <3>1. Started' = Started
      BY <2>1 DEF Started
    <3>2. IsFiniteSet(Started)
      BY FiniteThreads, FS_Subset DEF Started
    <3>3. Cardinality(Started) \in Nat
      BY <3>2, FS_CardinalityType
    <3>4. Cardinality(Are("log")') = Cardinality(Are("log")) + 1
      BY <2>2, LogOpened
    <3>5. QED
      BY <2>1, <3>1, <3>3, <3>4 DEF Logs
  <2>9. QED
    BY <2>5, <2>6, <2>7, <2>8
<1>3. QED
  BY <1>1, <1>2 DEF ReDirect

\* A step of main that opens no log.
LEMMA OpenDirKeeps == ASSUME StartInv, OpenDir PROVE StartInv'
<1> USE DEF StartInv
<1>1. CASE Throws("opendir", "aborted")
  BY <1>1, ThrowsKeeps DEF OpenDir, Throws, threadVars, cacheVars, socketVars, Roles
<1>2. CASE Goto("opendir", "readdir") /\ \E f \in Fds : Opens(f, "dir")
  <2>1. /\ main = "opendir" /\ main' = "readdir" /\ proc = "running"
        /\ UNCHANGED <<role, proc, thread, spawned, code, unread, dirEnt, errorMsgCache,
                       addrs, listenFd>>
    BY <1>2 DEF OpenDir, Goto, threadVars, cacheVars, socketVars
  <2>2. PICK f \in Fds : Opens(f, "dir")
    BY <1>2
  <2>3. table[f] = "free" /\ \A g \in Fds : table'[g] = IF g = f THEN "dir" ELSE table[g]
    BY <2>2, OpensIs
  <2>4. role = "server"
    BY <2>1 DEF Roles, TypeOK
  <2>5. TypeOK'
    BY <2>1, <2>2 DEF TypeOK, Opens, Things
  <2>6. Roles' /\ Spawning' /\ Caching'
    BY <2>1, <2>4 DEF Roles, Spawning, Caching, AtPage, CacheDone, AtSocket
  <2>7. Opened'
    BY <2>1, <2>3, <2>4 DEF Opened, AtDir, AtPage, AtSocket
  <2>8. Logs'
    BY <2>1, <2>3, LogsStay
  <2>9. QED
    BY <2>5, <2>6, <2>7, <2>8
<1>3. QED
  BY <1>1, <1>2 DEF OpenDir

\* The entry that is being read is no longer unread, and not in the cache yet.
ReadsEntry(e) ==
  /\ main = "readdir" /\ proc = "running" /\ e \in unread /\ unread' = unread \ {e}
  /\ UNCHANGED <<role, proc, table, thread, spawned, code, errorMsgCache, addrs, listenFd>>
  /\ \/ code[e] = NoPage /\ main' = "readdir" /\ UNCHANGED dirEnt
     \/ code[e] # NoPage /\ main' = "open" /\ dirEnt' = {e}

LEMMA ReadDirIs ==
  ASSUME StartInv, ReadDir
  PROVE  \/ \E e \in Entries : ReadsEntry(e)
         \/ /\ Throws("readdir", "aborted")
            /\ UNCHANGED <<role, thread, spawned, code, unread, dirEnt, errorMsgCache, addrs, listenFd>>
BY DEF ReadDir, ReadsEntry, Goto, threadVars, socketVars, StartInv, TypeOK

LEMMA EntryReadKeeps == ASSUME StartInv, NEW e \in Entries, ReadsEntry(e) PROVE StartInv'
<1> USE DEF StartInv
<1>1. /\ main = "readdir" /\ proc = "running" /\ e \in unread /\ unread' = unread \ {e}
      /\ UNCHANGED <<role, proc, table, thread, spawned, code, errorMsgCache, addrs, listenFd>>
  BY DEF ReadsEntry
<1>2. \/ code[e] = NoPage /\ main' = "readdir" /\ UNCHANGED dirEnt
      \/ code[e] # NoPage /\ main' = "open" /\ dirEnt' = {e}
  BY DEF ReadsEntry
<1>3. role = "server" /\ dirEnt = {}
  BY <1>1 DEF Roles, Caching, AtPage, TypeOK
<1>4. TypeOK'
  <2>1. Cardinality({e}) = 1
    BY FS_Singleton
  <2>2. dirEnt' \subseteq Entries /\ Cardinality(dirEnt') <= 1
    BY <1>2, <2>1 DEF TypeOK
  <2>3. QED
    BY <1>1, <1>2, <2>2 DEF TypeOK
<1>5. Roles' /\ Spawning'
  BY <1>1, <1>2, <1>3 DEF Roles, Spawning, AtPage, CacheDone, AtSocket
<1>6. Caching'
  <2>1. \A c : c # NoPage =>
          ((\E d \in Entries : d \notin unread' /\ d \notin dirEnt' /\ code[d] = c)
             <=> \E d \in Entries : d \notin unread /\ d \notin dirEnt /\ code[d] = c)
    BY <1>1, <1>2, <1>3
  <2>2. \A c : c \in DOMAIN errorMsgCache <=>
          c # NoPage /\ \E d \in Entries : d \notin unread' /\ d \notin dirEnt' /\ code[d] = c
    BY <2>1 DEF Caching
  <2>3. main' \in AtPage => dirEnt' = {e} /\ e \notin unread' /\ code[e] # NoPage
    BY <1>1, <1>2 DEF AtPage
  <2>4. main' \notin AtPage => dirEnt' = {}
    BY <1>2, <1>3 DEF AtPage
  <2>5. main' \notin CacheDone
    BY <1>2 DEF CacheDone, AtSocket
  <2>6. QED
    BY <1>1, <2>2, <2>3, <2>4, <2>5 DEF Caching
<1>7. Opened'
  BY <1>1, <1>2 DEF Opened, AtDir, AtPage, AtSocket
<1>8. Logs'
  BY <1>1, <1>2, LogsStay
<1>9. QED
  BY <1>4, <1>5, <1>6, <1>7, <1>8

LEMMA ReadDirKeeps == ASSUME StartInv, ReadDir PROVE StartInv'
<1>1. CASE Throws("readdir", "aborted")
           /\ UNCHANGED <<role, thread, spawned, code, unread, dirEnt, errorMsgCache, addrs, listenFd>>
  BY <1>1, ThrowsKeeps DEF Throws, Roles, StartInv
<1>2. QED
  BY <1>1, ReadDirIs, EntryReadKeeps

LEMMA OpenPageKeeps == ASSUME StartInv, OpenPage PROVE StartInv'
<1> USE DEF StartInv
<1>1. CASE Throws("open", "aborted")
  BY <1>1, ThrowsKeeps DEF OpenPage, Throws, threadVars, cacheVars, socketVars, Roles
<1>2. CASE Goto("open", "load") /\ \E f \in Fds : Opens(f, "page")
  <2>1. /\ main = "open" /\ main' = "load" /\ proc = "running"
        /\ UNCHANGED <<role, proc, thread, spawned, code, unread, dirEnt, errorMsgCache,
                       addrs, listenFd>>
    BY <1>2 DEF OpenPage, Goto, threadVars, cacheVars, socketVars
  <2>2. PICK f \in Fds : Opens(f, "page")
    BY <1>2
  <2>3. table[f] = "free" /\ \A g \in Fds : table'[g] = IF g = f THEN "page" ELSE table[g]
    BY <2>2, OpensIs
  <2>4. role = "server"
    BY <2>1 DEF Roles, TypeOK
  <2>5. TypeOK'
    BY <2>1, <2>2 DEF TypeOK, Opens, Things
  <2>6. Roles' /\ Spawning' /\ Caching'
    BY <2>1, <2>4 DEF Roles, Spawning, Caching, AtPage, CacheDone, AtSocket
  <2>7. Opened'
    BY <2>1, <2>3, <2>4 DEF Opened, AtDir, AtPage, AtSocket
  <2>8. Logs'
    BY <2>1, <2>3, LogsStay
  <2>9. QED
    BY <2>5, <2>6, <2>7, <2>8
<1>3. QED
  BY <1>1, <1>2 DEF OpenPage

\* The page of the entry is in the cache, under its code.
LEMMA LoadPageKeeps == ASSUME StartInv, LoadPage PROVE StartInv'
<1> USE DEF StartInv
<1>1. CASE Throws("load", "aborted") /\ UNCHANGED <<errorMsgCache, dirEnt>>
  BY <1>1, ThrowsKeeps DEF LoadPage, Throws, threadVars, socketVars, Roles
<1>2. CASE /\ Goto("load", "readdir") /\ Closes("page") /\ dirEnt' = {}
           /\ \E e \in dirEnt :
                errorMsgCache' = [c \in DOMAIN errorMsgCache \cup {code[e]} |->
                                    IF c = code[e] THEN dirEnt ELSE errorMsgCache[c]]
  <2>1. /\ main = "load" /\ main' = "readdir" /\ proc = "running" /\ dirEnt' = {}
        /\ UNCHANGED <<role, proc, thread, spawned, code, unread, addrs, listenFd>>
    BY <1>2 DEF LoadPage, Goto, threadVars, socketVars
  <2>2. PICK e \in Entries : dirEnt = {e} /\ e \notin unread /\ code[e] # NoPage
    BY <2>1 DEF Caching, AtPage
  <2>3. errorMsgCache' = [c \in DOMAIN errorMsgCache \cup {code[e]} |->
                            IF c = code[e] THEN {e} ELSE errorMsgCache[c]]
    BY <1>2, <2>2
  <2>4. \A g \in Fds : table'[g] = IF table[g] = "page" THEN "free" ELSE table[g]
    BY <1>2, ClosesIs
  <2>5. role = "server"
    BY <2>1 DEF Roles, TypeOK
  <2>6. TypeOK'
    <3>1. Cardinality({}) = 0
      BY FS_EmptySet
    <3>2. table' \in [Fds -> Things]
      BY <1>2 DEF Closes, TypeOK, Things
    <3>3. DOMAIN errorMsgCache' \subseteq Codes
      BY <2>2, <2>3 DEF TypeOK
    <3>4. QED
      BY <2>1, <3>1, <3>2, <3>3 DEF TypeOK
  <2>7. Roles' /\ Spawning'
    BY <2>1, <2>5 DEF Roles, Spawning, CacheDone, AtSocket
  <2>8. Caching'
    <3>1. \A c : c \in DOMAIN errorMsgCache' <=> c \in DOMAIN errorMsgCache \/ c = code[e]
      BY <2>3
    <3>2. \A c : c # NoPage =>
            ((\E d \in Entries : d \notin unread' /\ d \notin dirEnt' /\ code'[d] = c)
               <=> \/ c = code[e]
                   \/ \E d \in Entries : d \notin unread /\ d \notin dirEnt /\ code[d] = c)
      BY <2>1, <2>2
    <3>3. \A c : c \in DOMAIN errorMsgCache' <=>
            c # NoPage /\ \E d \in Entries : d \notin unread' /\ d \notin dirEnt' /\ code'[d] = c
      BY <2>2, <3>1, <3>2 DEF Caching
    <3>4. \A c \in DOMAIN errorMsgCache' : \E d \in Entries : errorMsgCache'[c] = {d} /\ code[d] = c
      <4>1. \A c \in DOMAIN errorMsgCache' : c # code[e] =>
              c \in DOMAIN errorMsgCache /\ errorMsgCache'[c] = errorMsgCache[c]
        BY <2>3
      <4>2. errorMsgCache'[code[e]] = {e}
        BY <2>3
      <4>3. QED
        BY <2>2, <4>1, <4>2 DEF Caching
    <3>5. main' \notin AtPage /\ main' \notin CacheDone
      BY <2>1 DEF AtPage, CacheDone, AtSocket
    <3>6. QED
      BY <2>1, <3>3, <3>4, <3>5 DEF Caching
  <2>9. Opened'
    BY <2>1, <2>4, <2>5 DEF Opened, AtDir, AtPage, AtSocket
  <2>10. Logs'
    BY <2>1, <2>4, LogsStay
  <2>11. QED
    BY <2>6, <2>7, <2>8, <2>9, <2>10
<1>3. QED
  BY <1>1, <1>2 DEF LoadPage

LEMMA CloseDirKeeps == ASSUME StartInv, CloseDir PROVE StartInv'
<1> USE DEF StartInv
<1>1. CASE Throws("readdir", "aborted")
  BY <1>1, ThrowsKeeps DEF CloseDir, Throws, threadVars, cacheVars, socketVars, Roles
<1>2. CASE Goto("readdir", "spawn") /\ Closes("dir")
  <2>1. /\ main = "readdir" /\ main' = "spawn" /\ proc = "running" /\ unread = {}
        /\ UNCHANGED <<role, proc, thread, spawned, code, unread, dirEnt, errorMsgCache,
                       addrs, listenFd>>
    BY <1>2 DEF CloseDir, Goto, threadVars, cacheVars, socketVars
  <2>2. \A g \in Fds : table'[g] = IF table[g] = "dir" THEN "free" ELSE table[g]
    BY <1>2, ClosesIs
  <2>3. role = "server"
    BY <2>1 DEF Roles, TypeOK
  <2>4. TypeOK'
    <3>1. table' \in [Fds -> Things]
      BY <1>2 DEF Closes, TypeOK, Things
    <3>2. QED
      BY <2>1, <3>1 DEF TypeOK
  <2>5. Roles' /\ Spawning' /\ Caching'
    BY <2>1, <2>3 DEF Roles, Spawning, Caching, AtPage, CacheDone, AtSocket
  <2>6. Opened'
    BY <2>1, <2>2, <2>3 DEF Opened, AtDir, AtPage, AtSocket
  <2>7. Logs'
    BY <2>1, <2>2, LogsStay
  <2>8. QED
    BY <2>4, <2>5, <2>6, <2>7
<1>3. QED
  BY <1>1, <1>2 DEF CloseDir

-----------------------------------------------------------------------------
(***************************************************************************)
(* The threads.                                                            *)
(***************************************************************************)
LEMMA SpawnKeeps == ASSUME StartInv, Spawn PROVE StartInv'
<1> USE DEF StartInv
<1>1. CASE Throws("spawn", "exited") /\ UNCHANGED threadVars
  BY <1>1, ThrowsKeeps DEF Spawn, Throws, threadVars, cacheVars, socketVars, Roles
<1>2. CASE /\ Goto("spawn", "spawn") /\ spawned' = spawned + 1
           /\ thread' = [thread EXCEPT ![spawned'] = "start"] /\ UNCHANGED <<role, table>>
  <2>1. /\ main = "spawn" /\ main' = "spawn" /\ spawned < ThreadNum
        /\ UNCHANGED <<role, proc, table, code, unread, dirEnt, errorMsgCache, addrs, listenFd>>
    BY <1>2 DEF Spawn, Goto, cacheVars, socketVars
  <2>2. spawned \in Nat /\ spawned + 1 \in Threads /\ spawned' \in 0 .. ThreadNum
    BY <1>2, <2>1, StartAssumption DEF TypeOK, Threads
  <2>3. \A t \in Threads : thread'[t] = IF t = spawned + 1 THEN "start" ELSE thread[t]
    BY <1>2, <2>2 DEF TypeOK
  <2>4. role = "server"
    BY <2>1 DEF Roles, TypeOK
  <2>5. TypeOK'
    BY <1>2, <2>1, <2>2 DEF TypeOK
  <2>6. Roles' /\ Caching' /\ Opened'
    BY <2>1, <2>4 DEF Roles, Caching, Opened
  <2>7. Spawning'
    <3>1. \A t \in Threads : t \in Nat
      BY DEF Threads
    <3>2. QED
      BY <1>2, <2>1, <2>2, <2>3, <2>4, <3>1 DEF Spawning, CacheDone
  <2>8. Logs'
    <3>1. thread[spawned + 1] = "none"
      BY <2>2 DEF Spawning
    <3>2. Started' = Started
      BY <2>3, <3>1 DEF Started
    <3>3. Are("log")' = Are("log")
      BY <2>1 DEF Are
    <3>4. QED
      BY <2>1, <3>2, <3>3 DEF Logs
  <2>9. QED
    BY <2>5, <2>6, <2>7, <2>8
<1>3. QED
  BY <1>1, <1>2 DEF Spawn

\* A worker's log comes in between, wherever main is.
LEMMA StartKeeps == ASSUME StartInv, NEW t \in Threads, Start(t) PROVE StartInv'
<1> USE DEF StartInv
<1>1. /\ thread[t] = "start"
      /\ UNCHANGED <<role, main, spawned, code, unread, dirEnt, errorMsgCache, addrs, listenFd>>
  BY DEF Start, cacheVars, socketVars
<1>2. role = "server" /\ main # "log"
  <2>1. t > spawned => FALSE
    BY <1>1 DEF Spawning
  <2>2. spawned > 0
    BY <2>1, StartAssumption DEF TypeOK, Threads
  <2>3. QED
    BY <2>2 DEF Spawning, CacheDone, AtSocket
<1>3. CASE proc' = "aborted" /\ UNCHANGED <<table, thread>>
  BY <1>1, <1>2, <1>3, ThrowsKeeps
<1>4. CASE /\ \E f \in Fds : Opens(f, "log")
           /\ thread' = [thread EXCEPT ![t] = "pop"] /\ UNCHANGED proc
  <2>1. PICK f \in Fds : Opens(f, "log")
    BY <1>4
  <2>2. table[f] = "free" /\ \A g \in Fds : table'[g] = IF g = f THEN "log" ELSE table[g]
    BY <2>1, OpensIs
  <2>3. \A u \in Threads : thread'[u] = IF u = t THEN "pop" ELSE thread[u]
    BY <1>4 DEF TypeOK
  <2>4. TypeOK'
    BY <1>1, <1>4, <2>1 DEF TypeOK, Opens, Things
  <2>5. Roles' /\ Caching'
    BY <1>1, <1>4 DEF Roles, Caching
  <2>6. Spawning'
    BY <1>1, <2>3 DEF Spawning
  <2>7. Opened'
    BY <1>1, <1>2, <2>2 DEF Opened
  <2>8. Logs'
    <3>1. Started' = Started \cup {t} /\ t \notin Started /\ Started \subseteq Threads
      BY <1>1, <2>3 DEF Started
    <3>2. Cardinality(Started') = Cardinality(Started) + 1 /\ Cardinality(Started) \in Nat
      BY <3>1, FiniteThreads, CountsOne
    <3>3. Cardinality(Are("log")') = Cardinality(Are("log")) + 1
      BY <2>1, LogOpened
    <3>4. QED
      BY <1>1, <1>2, <3>2, <3>3 DEF Logs
  <2>9. QED
    BY <2>4, <2>5, <2>6, <2>7, <2>8
<1>5. QED
  BY <1>3, <1>4 DEF Start

-----------------------------------------------------------------------------
(***************************************************************************)
(* The sockets.                                                            *)
(***************************************************************************)
LEMMA SocketStep ==
  ASSUME StartInv, proc = "running",
         UNCHANGED <<role, proc, thread, spawned, code, unread, dirEnt, errorMsgCache>>,
         main \in {"spawn", "resolve", "socket", "bind", "listen"},
         main' \in {"socket", "bind", "listen", "accept", "connected"},
         role = "client" => main' \in {"socket", "bind", "connected"},
         role = "server" => main' # "connected",
         table' \in [Fds -> Things], addrs' \in 0 .. MaxAddrs, listenFd' \in {0} \cup Fds,
         \A f \in Fds : table'[f] = "log" <=> table[f] = "log",
         Opened'
  PROVE  StartInv'
<1> USE DEF StartInv
<1>1. TypeOK'
  BY DEF TypeOK
<1>2. Roles'
  BY DEF Roles
<1>3. Spawning'
  BY DEF Spawning, CacheDone, AtSocket
<1>4. Caching'
  <2>1. role = "server" => unread = {}
    BY DEF Caching, CacheDone, AtSocket, Roles
  <2>2. main \notin AtPage /\ main' \notin AtPage
    BY DEF AtPage
  <2>3. QED
    BY <2>1, <2>2 DEF Caching
<1>5. Logs'
  BY LogsStay
<1>6. QED
  BY <1>1, <1>2, <1>3, <1>4, <1>5

LEMMA ResolveKeeps == ASSUME StartInv, Resolve PROVE StartInv'
<1> USE DEF StartInv
<1>1. PICK from \in {"spawn", "resolve"} :
        \/ Goto(from, "socket") /\ addrs' \in 1 .. MaxAddrs /\ UNCHANGED table
        \/ Throws(from, "exited") /\ UNCHANGED addrs
  BY DEF Resolve
<1>2. UNCHANGED <<role, thread, spawned, code, unread, dirEnt, errorMsgCache, listenFd>>
  BY DEF Resolve, threadVars, cacheVars
<1>3. CASE Throws(from, "exited") /\ UNCHANGED addrs
  BY <1>2, <1>3, ThrowsKeeps DEF Throws, Roles
<1>4. CASE Goto(from, "socket") /\ addrs' \in 1 .. MaxAddrs /\ UNCHANGED table
  <2>1. /\ main = from /\ main' = "socket" /\ proc = "running" /\ UNCHANGED proc
        /\ addrs' \in 0 .. MaxAddrs
    BY <1>4, StartAssumption DEF Goto
  <2>2. Opened'
    BY <1>2, <1>4, <2>1 DEF Opened, AtDir, AtPage, AtSocket
  <2>3. table' \in [Fds -> Things] /\ listenFd' \in {0} \cup Fds
    BY <1>2, <1>4 DEF TypeOK
  <2>4. QED
    BY <1>2, <1>4, <2>1, <2>2, <2>3, SocketStep
<1>5. QED
  BY <1>1, <1>3, <1>4

LEMMA MakeSocketKeeps == ASSUME StartInv, MakeSocket PROVE StartInv'
<1> USE DEF StartInv
<1>1. /\ main = "socket" /\ proc = "running"
      /\ UNCHANGED <<role, proc, thread, spawned, code, unread, dirEnt, errorMsgCache>>
  BY DEF MakeSocket, Goto, threadVars, cacheVars
<1>2. addrs' \in 0 .. MaxAddrs
  BY StartAssumption DEF MakeSocket, TypeOK
<1>3. \A f \in Fds : table[f] \notin {"dir", "page", "socket", "listener", "connection"}
  BY <1>1 DEF Opened, AtDir, AtPage, AtSocket
<1>4. CASE main' = "socket" /\ listenFd' = 0 /\ UNCHANGED table
  <2>1. Opened'
    BY <1>1, <1>3, <1>4 DEF Opened, AtDir, AtPage, AtSocket
  <2>2. table' \in [Fds -> Things]
    BY <1>4 DEF TypeOK
  <2>3. QED
    BY <1>1, <1>2, <1>4, <2>1, <2>2, SocketStep
<1>5. CASE main' = "bind" /\ \E f \in Fds : Opens(f, "socket") /\ listenFd' = f
  <2>1. PICK f \in Fds : Opens(f, "socket") /\ listenFd' = f
    BY <1>5
  <2>2. table[f] = "free" /\ \A g \in Fds : table'[g] = IF g = f THEN "socket" ELSE table[g]
    BY <2>1, OpensIs
  <2>3. Opened'
    BY <1>1, <1>3, <1>5, <2>1, <2>2 DEF Opened, AtDir, AtPage, AtSocket
  <2>4. table' \in [Fds -> Things]
    BY <2>1 DEF TypeOK, Opens, Things
  <2>5. \A g \in Fds : table'[g] = "log" <=> table[g] = "log"
    BY <2>2
  <2>6. QED
    BY <1>1, <1>2, <1>5, <2>1, <2>3, <2>4, <2>5, SocketStep
<1>6. QED
  BY <1>4, <1>5 DEF MakeSocket, Goto

\* A socket that is of no use is closed, and nothing else is.
LEMMA SocketFails ==
  ASSUME StartInv, main \in AtSocket, proc = "running", main' = "socket",
         UNCHANGED <<role, proc, thread, spawned, code, unread, dirEnt, errorMsgCache,
                     addrs, listenFd>>,
         Closes("socket")
  PROVE  StartInv'
<1> USE DEF StartInv
<1>1. \A g \in Fds : table'[g] = IF table[g] = "socket" THEN "free" ELSE table[g]
  BY ClosesIs
<1>2. Opened'
  BY <1>1 DEF Opened, AtDir, AtPage, AtSocket
<1>3. /\ table' \in [Fds -> Things] /\ addrs' \in 0 .. MaxAddrs /\ listenFd' \in {0} \cup Fds
      /\ \A g \in Fds : table'[g] = "log" <=> table[g] = "log"
  BY <1>1 DEF Closes, TypeOK, Things
<1>4. QED
  BY <1>2, <1>3, SocketStep DEF AtSocket

\* It may also become what it was made for.
LEMMA SocketBecomes ==
  ASSUME StartInv, main \in AtSocket, proc = "running",
         NEW to \in {"accept", "connected"}, main' = to,
         UNCHANGED <<role, proc, thread, spawned, code, unread, dirEnt, errorMsgCache,
                     addrs, listenFd>>,
         table' = [table EXCEPT ![listenFd] = IF to = "accept" THEN "listener" ELSE "connection"],
         role = "server" <=> to = "accept"
  PROVE  StartInv'
<1> USE DEF StartInv
<1> DEFINE what == IF to = "accept" THEN "listener" ELSE "connection"
<1>1. listenFd \in Fds /\ table[listenFd] = "socket"
  BY DEF Opened
<1>2. \A g \in Fds : table'[g] = IF g = listenFd THEN what ELSE table[g]
  BY <1>1 DEF TypeOK
<1>3. Opened'
  BY <1>1, <1>2 DEF Opened, AtDir, AtPage, AtSocket
<1>4. /\ table' \in [Fds -> Things] /\ addrs' \in 0 .. MaxAddrs /\ listenFd' \in {0} \cup Fds
      /\ \A g \in Fds : table'[g] = "log" <=> table[g] = "log"
  BY <1>1, <1>2 DEF TypeOK, Things
<1>5. QED
  BY <1>3, <1>4, SocketStep DEF AtSocket, Roles, TypeOK

LEMMA BindKeeps == ASSUME StartInv, Bind PROVE StartInv'
<1> USE DEF StartInv
<1>1. /\ main = "bind" /\ proc = "running" /\ role = "server"
      /\ UNCHANGED <<role, proc, thread, spawned, code, unread, dirEnt, errorMsgCache,
                     addrs, listenFd>>
  BY DEF Bind, Goto, threadVars, cacheVars, socketVars
<1>2. CASE main' = "listen" /\ UNCHANGED table
  <2>1. Opened'
    BY <1>1, <1>2 DEF Opened, AtDir, AtPage, AtSocket
  <2>2. table' \in [Fds -> Things] /\ addrs' \in 0 .. MaxAddrs /\ listenFd' \in {0} \cup Fds
    BY <1>1, <1>2 DEF TypeOK
  <2>3. QED
    BY <1>1, <1>2, <2>1, <2>2, SocketStep
<1>3. CASE main' = "socket" /\ Closes("socket")
  BY <1>1, <1>3, SocketFails DEF AtSocket
<1>4. QED
  BY <1>2, <1>3 DEF Bind, Goto

LEMMA ListenKeeps == ASSUME StartInv, Listen PROVE StartInv'
<1> USE DEF StartInv
<1>1. /\ main = "listen" /\ proc = "running"
      /\ UNCHANGED <<role, proc, thread, spawned, code, unread, dirEnt, errorMsgCache,
                     addrs, listenFd>>
  BY DEF Listen, Goto, threadVars, cacheVars, socketVars
<1>2. role = "server"
  BY <1>1 DEF Roles, TypeOK
<1>3. CASE main' = "accept" /\ table' = [table EXCEPT ![listenFd] = "listener"]
  BY <1>1, <1>2, <1>3, SocketBecomes DEF AtSocket
<1>4. CASE main' = "socket" /\ Closes("socket")
  BY <1>1, <1>4, SocketFails DEF AtSocket
<1>5. QED
  BY <1>3, <1>4 DEF Listen, Goto

LEMMA ConnectKeeps == ASSUME StartInv, Connect PROVE StartInv'
<1> USE DEF StartInv
<1>1. /\ main = "bind" /\ proc = "running" /\ role = "client"
      /\ UNCHANGED <<role, proc, thread, spawned, code, unread, dirEnt, errorMsgCache,
                     addrs, listenFd>>
  BY DEF Connect, Goto, threadVars, cacheVars, socketVars
<1>2. CASE main' = "connected" /\ table' = [table EXCEPT ![listenFd] = "connection"]
  BY <1>1, <1>2, SocketBecomes DEF AtSocket
<1>3. CASE main' = "socket" /\ Closes("socket")
  BY <1>1, <1>3, SocketFails DEF AtSocket
<1>4. QED
  BY <1>2, <1>3 DEF Connect, Goto

LEMMA NoAddressLeftKeeps == ASSUME StartInv, NoAddressLeft PROVE StartInv'
<1> USE DEF StartInv
<1>1. /\ main = "socket" /\ main' = "accept" /\ proc = "running" /\ role = "server"
      /\ UNCHANGED <<role, proc, table, thread, spawned, code, unread, dirEnt, errorMsgCache,
                     addrs, listenFd>>
  BY DEF NoAddressLeft, Goto, threadVars, cacheVars, socketVars
<1>2. Opened'
  BY <1>1 DEF Opened, AtDir, AtPage, AtSocket
<1>3. table' \in [Fds -> Things] /\ addrs' \in 0 .. MaxAddrs /\ listenFd' \in {0} \cup Fds
  BY <1>1 DEF TypeOK
<1>4. QED
  BY <1>1, <1>2, <1>3, SocketStep

-----------------------------------------------------------------------------
(***************************************************************************)
(* The invariant holds, and what follows from it.                          *)
(***************************************************************************)
LEMMA StartStepKeeps == ASSUME StartInv, [Next]_vars PROVE StartInv'
<1>1. CASE Main
  <2>1. CASE AcceptFails
    BY <2>1, ThrowsKeeps DEF AcceptFails, Throws, threadVars, cacheVars, socketVars, StartInv, Roles
  <2>2. CASE ConnectFails
    BY <2>2, ThrowsKeeps DEF ConnectFails, Throws, threadVars, cacheVars, socketVars
  <2>3. QED
    BY <1>1, <2>1, <2>2, ReDirectKeeps, OpenDirKeeps, ReadDirKeeps, OpenPageKeeps, LoadPageKeeps,
       CloseDirKeeps, SpawnKeeps, ResolveKeeps, MakeSocketKeeps, BindKeeps, ListenKeeps,
       NoAddressLeftKeeps, ConnectKeeps DEF Main
<1>2. CASE UNCHANGED vars
  BY <1>2, ThrowsKeeps DEF vars, StartInv, Roles, TypeOK
<1>3. QED
  BY <1>1, <1>2, StartKeeps DEF Next

\* The invariant holds in every state.
THEOREM StartInvHolds == Spec => []StartInv
BY InitStart, StartStepKeeps, PTL DEF Spec

\* At every statement of the start the variables have the types of
\* ServerStart, whatever failed before.
THEOREM TypeCorrect == Spec => []TypeOK
BY StartInvHolds, PTL DEF StartInv

LEMMA NothingIsLeft == ASSUME StartInv PROVE StartLeavesNothing
<1> USE DEF StartInv
<1>1. ASSUME main = "accept"
      PROVE  /\ Are("dir") = {} /\ Are("page") = {} /\ Are("socket") = {}
             /\ Are("listener") \subseteq {listenFd}
             /\ Cardinality(Are("log")) = 1 + Cardinality({t \in Threads : thread[t] = "pop"})
  <2>1. /\ Are("dir") = {} /\ Are("page") = {} /\ Are("socket") = {}
        /\ Are("listener") \subseteq {listenFd}
    BY <1>1 DEF Opened, Are, AtDir, AtPage, AtSocket
  <2>2. role = "server"
    BY <1>1 DEF Roles, TypeOK
  <2>3. Cardinality(Are("log")) = 1 + Cardinality({t \in Threads : thread[t] = "pop"})
    BY <1>1, <2>2 DEF Logs, Started
  <2>4. QED
    BY <2>1, <2>3
<1>2. ASSUME role = "client", main = "connected" \/ proc # "running"
      PROVE  Fds \ Free = Are("connection") /\ (main = "connected" => Fds \ Free = {listenFd})
  <2>1. main \in {"resolve", "socket", "connected"}
    BY <1>2 DEF Roles
  <2>2. \A f \in Fds : table[f] \in {"free", "connection"}
    BY <1>2, <2>1 DEF TypeOK, Things, Opened, AtDir, AtPage, AtSocket
  <2>3. Fds \ Free = Are("connection")
    BY <2>2 DEF Free, Are
  <2>4. main = "connected" => Are("connection") = {listenFd}
    BY DEF Opened, Are
  <2>5. QED
    BY <2>3, <2>4
<1>3. QED
  BY <1>1, <1>2 DEF StartLeavesNothing

\* When run comes to accept, the directory, the pages and the sockets of the
\* addresses that failed are closed, and a descriptor the constructor or
\* openListenFd used is never mixed up with a log of a thread that started
\* meanwhile; openClientFd leaves its connection or nothing.
THEOREM NothingLeftOpen == Spec => []StartLeavesNothing
BY StartInvHolds, NothingIsLeft, PTL

LEMMA CacheIsComplete == ASSUME StartInv PROVE CacheBeforeThreads
<1> SUFFICES ASSUME NEW t \in Threads, thread[t] # "none"
             PROVE  /\ DOMAIN errorMsgCache = {code[e] : e \in Entries} \ {NoPage}
                    /\ \A c \in DOMAIN errorMsgCache :
                         \E e \in Entries : errorMsgCache[c] = {e} /\ code[e] = c
  BY DEF CacheBeforeThreads
<1> USE DEF StartInv
<1>1. spawned > 0
  <2>1. ~ (t > spawned)
    BY DEF Spawning
  <2>2. QED
    BY <2>1, StartAssumption DEF TypeOK, Threads
<1>2. role = "server" /\ main \in CacheDone
  BY <1>1 DEF Spawning
<1>3. unread = {} /\ dirEnt = {}
  BY <1>2 DEF Caching, CacheDone, AtPage, AtSocket
<1>4. \A c : c \in DOMAIN errorMsgCache <=> c # NoPage /\ \E e \in Entries : code[e] = c
  BY <1>3 DEF Caching
<1>5. DOMAIN errorMsgCache = {code[e] : e \in Entries} \ {NoPage}
  BY <1>4
<1>6. QED
  BY <1>5 DEF Caching

\* updateErrorMsgCache is over, and every page of ./error/ is in the cache
\* under its code, before the first worker can look one up.
THEOREM CacheComplete == Spec => []CacheBeforeThreads
BY StartInvHolds, CacheIsComplete, PTL

-----------------------------------------------------------------------------
(***************************************************************************)
(* What NotDeaf says without fairness: nothing ends what was reached, and  *)
(* the start is not endless.                                               *)
(***************************************************************************)
Reached == (Listening => Listening') /\ (Connected => Connected')

LEMMA StepKeepsReached == ASSUME StartInv, Next PROVE Reached
<1>1. ASSUME main = "accept", Listening PROVE Listening'
  <2>1. CASE AcceptFails
    BY <1>1, <2>1 DEF AcceptFails, Throws, socketVars, Listening
  <2>2. CASE \E t \in Threads : Start(t)
    BY <1>1, <2>2, OpensIs DEF Start, socketVars, Listening, StartInv, Opened
  <2>3. QED
    BY <1>1, <2>1, <2>2 DEF Next, Main, ReDirect, OpenDir, ReadDir, OpenPage, LoadPage, CloseDir,
       Spawn, Resolve, MakeSocket, Bind, Listen, NoAddressLeft, Connect, ConnectFails, Goto, Throws
<1>2. ASSUME Connected PROVE Connected'
  <2>1. role = "client" /\ main = "connected" /\ \A t \in Threads : thread[t] = "none"
    BY <1>2, StartAssumption
    DEF Connected, StartInv, TypeOK, Roles, Spawning, CacheDone, AtSocket, Threads
  <2>2. QED
    BY <2>1 DEF Next, Main, ReDirect, OpenDir, ReadDir, OpenPage, LoadPage, CloseDir, Spawn,
       Resolve, MakeSocket, Bind, Listen, NoAddressLeft, AcceptFails, Connect, ConnectFails,
       Goto, Throws, Start
<1>3. QED
  BY <1>1, <1>2 DEF Reached, Listening, StartInv, Opened

\* A server that listens goes on listening and a connected client stays
\* connected, whichever threads take descriptors meanwhile.
THEOREM ReachedStays == Spec => [][Reached]_vars
BY StartInvHolds, StepKeepsReached, PTL DEF Spec

\* The steps main can still make at statement m, but for the exception that ends
\* them, with e entries unread, n threads and a addresses left.
MainLeft(m, e, n, a) ==
  LET Tries == 3 * MaxAddrs + 2 + (ThreadNum - n)
  IN CASE m = "log"     -> Tries + 3 * e + 3
       [] m = "opendir" -> Tries + 3 * e + 2
       [] m = "open"    -> Tries + 3 * e + 3
       [] m = "load"    -> Tries + 3 * e + 2
       [] m = "readdir" -> Tries + 3 * e + 1
       [] m = "spawn"   -> Tries
       [] m = "resolve" -> Tries
       [] m = "bind"    -> 3 * a + 3
       [] m = "listen"  -> 3 * a + 2
       [] m = "socket"  -> 3 * a + 1
       [] OTHER         -> 0

\* The threads that have not opened their logs yet.
Unstarted == {t \in Threads : thread[t] # "pop"}

ProcLeft == IF proc = "running" THEN 1 ELSE 0

StepsLeft ==
  MainLeft(main, Cardinality(unread), spawned, addrs) + ProcLeft + Cardinality(Unstarted)

MaxSteps == 3 * Cardinality(Entries) + 3 * MaxAddrs + 2 * ThreadNum + 6

LEMMA MainLeftBound ==
  ASSUME NEW k \in Nat, NEW e \in 0 .. k, NEW n \in 0 .. ThreadNum, NEW a \in 0 .. MaxAddrs, NEW m
  PROVE  MainLeft(m, e, n, a) \in 0 .. 3 * k + 3 * MaxAddrs + ThreadNum + 5
<1>1. PICK r \in 0 .. 3 * MaxAddrs + 2 + ThreadNum : r = 3 * MaxAddrs + 2 + (ThreadNum - n)
  BY StartAssumption
<1>2. MaxAddrs \in Nat /\ ThreadNum \in Nat
  BY StartAssumption
<1>3. MainLeft(m, e, n, a) \in {r, r + 3 * e + 1, r + 3 * e + 2, r + 3 * e + 3,
                               3 * a + 1, 3 * a + 2, 3 * a + 3, 0}
  BY <1>1 DEF MainLeft
<1>4. QED
  BY <1>1, <1>2, <1>3

LEMMA UnstartedBound == IsFiniteSet(Unstarted) /\ Cardinality(Unstarted) \in 0 .. ThreadNum
<1>1. Cardinality(Threads) = ThreadNum
  <2>1. 1 \in Int /\ ThreadNum \in Nat
    BY StartAssumption
  <2>2. Cardinality(1 .. ThreadNum) = IF 1 > ThreadNum THEN 0 ELSE ThreadNum - 1 + 1
    BY <2>1, FS_Interval
  <2>3. QED
    BY <2>1, <2>2 DEF Threads
<1>2. Unstarted \in SUBSET Threads
  BY DEF Unstarted
<1>3. IsFiniteSet(Unstarted) /\ Cardinality(Unstarted) <= Cardinality(Threads)
  BY <1>2, FiniteThreads, FS_Subset
<1>4. Cardinality(Unstarted) \in Nat
  BY <1>3, FS_CardinalityType
<1>5. QED
  BY <1>1, <1>3, <1>4, StartAssumption

LEMMA UnreadBound ==
  ASSUME TypeOK, IsFiniteSet(Entries)
  PROVE  /\ IsFiniteSet(unread) /\ Cardinality(Entries) \in Nat
         /\ Cardinality(unread) \in 0 .. Cardinality(Entries)
<1>1. unread \in SUBSET Entries
  BY DEF TypeOK
<1>2. IsFiniteSet(unread) /\ Cardinality(unread) <= Cardinality(Entries)
  BY <1>1, FS_Subset
<1>3. Cardinality(unread) \in Nat /\ Cardinality(Entries) \in Nat
  BY <1>2, FS_CardinalityType
<1>4. QED
  BY <1>2, <1>3

LEMMA StepsLeftBound ==
  ASSUME TypeOK, IsFiniteSet(Entries)
  PROVE  StepsLeft \in 0 .. MaxSteps
<1>1. MainLeft(main, Cardinality(unread), spawned, addrs)
        \in 0 .. 3 * Cardinality(Entries) + 3 * MaxAddrs + ThreadNum + 5
  BY UnreadBound, MainLeftBound DEF TypeOK
<1>2. ProcLeft \in 0 .. 1 /\ Cardinality(Unstarted) \in 0 .. ThreadNum
  BY UnstartedBound DEF ProcLeft
<1>3. Cardinality(Entries) \in Nat
  BY UnreadBound
<1>4. QED
  BY <1>1, <1>2, <1>3, StartAssumption DEF StepsLeft, MaxSteps

\* A step of main that goes on leaves fewer.
LEMMA MainLeftFalls ==
  ASSUME NEW e \in Nat, NEW f \in Nat, NEW n \in 0 .. ThreadNum, NEW o \in 0 .. ThreadNum,
         NEW a \in 0 .. MaxAddrs, NEW b \in 0 .. MaxAddrs, NEW m, NEW l,
         \/ e = f /\ n = o /\ <<m, l>> \in {<<"log", "opendir">>, <<"opendir", "readdir">>,
                                            <<"open", "load">>, <<"readdir", "spawn">>}
         \/ f + 1 = e /\ n = o /\ m = "readdir" /\ l \in {"readdir", "open"}
         \/ e = f /\ n = o /\ m = "load" /\ l = "readdir"
         \/ o = n + 1 /\ m = "spawn" /\ l = "spawn"
         \/ m \in {"spawn", "resolve"} /\ l = "socket"
         \/ m = "socket" /\ l \in {"bind", "socket"} /\ b + 1 = a
         \/ a = b /\ <<m, l>> \in {<<"bind", "listen">>, <<"bind", "socket">>, <<"bind", "connected">>,
                                   <<"listen", "accept">>, <<"listen", "socket">>,
                                   <<"socket", "accept">>}
  PROVE  MainLeft(l, f, o, b) < MainLeft(m, e, n, a)
BY StartAssumption DEF MainLeft

LEMMA UnstartedStays ==
  ASSUME UNCHANGED thread
  PROVE  Unstarted' = Unstarted
BY DEF Unstarted

\* A new thread has not opened its log, just as before it was created.
LEMMA SpawnUnstarted ==
  ASSUME StartInv, Spawn
  PROVE  Unstarted' = Unstarted
<1>1. CASE UNCHANGED thread
  BY <1>1, UnstartedStays
<1>2. CASE thread' = [thread EXCEPT ![spawned'] = "start"] /\ spawned' = spawned + 1
  <2>1. thread \in [Threads -> {"none", "start", "pop"}] /\ spawned \in Nat
    BY StartAssumption DEF StartInv, TypeOK
  <2>2. \A t \in Threads : t = spawned + 1 => thread[t] = "none"
    BY <2>1 DEF StartInv, Spawning
  <2>3. \A t \in Threads : thread'[t] # "pop" <=> thread[t] # "pop"
    BY <1>2, <2>1, <2>2
  <2>4. QED
    BY <2>3 DEF Unstarted
<1>3. QED
  BY <1>1, <1>2 DEF Spawn, threadVars

LEMMA OneRead ==
  ASSUME StartInv, IsFiniteSet(Entries), NEW e \in Entries, ReadsEntry(e)
  PROVE  Cardinality(unread') + 1 = Cardinality(unread) /\ Cardinality(unread') \in Nat
<1>1. IsFiniteSet(unread) /\ Cardinality(unread) \in Nat
  BY UnreadBound DEF StartInv
<1>2. e \in unread /\ unread' = unread \ {e}
  BY DEF ReadsEntry
<1>3. Cardinality(unread \ {e}) = Cardinality(unread) - 1 /\ IsFiniteSet(unread \ {e})
  BY <1>1, <1>2, FS_RemoveElement
<1>4. Cardinality(unread \ {e}) \in Nat
  BY <1>3, FS_CardinalityType
<1>5. QED
  BY <1>1, <1>2, <1>3, <1>4

\* What main does, as MainLeftFalls has it.
MainGoes ==
  MainLeft(main', Cardinality(unread'), spawned', addrs')
    < MainLeft(main, Cardinality(unread), spawned, addrs)

LEMMA MainFalls ==
  ASSUME StartInv, StartInv', IsFiniteSet(Entries), Main
  PROVE  /\ Unstarted' = Unstarted
         /\ \/ UNCHANGED proc /\ MainGoes
            \/ proc = "running" /\ proc' # "running" /\ UNCHANGED <<main, unread, spawned, addrs>>
<1>1. /\ spawned \in 0 .. ThreadNum /\ spawned' \in 0 .. ThreadNum
      /\ addrs \in 0 .. MaxAddrs /\ addrs' \in 0 .. MaxAddrs
  BY DEF StartInv, TypeOK
<1>2. Cardinality(unread) \in Nat /\ Cardinality(unread') \in Nat
  <2>1. TypeOK /\ TypeOK'
    BY DEF StartInv
  <2>2. unread \in SUBSET Entries /\ unread' \in SUBSET Entries
    BY <2>1 DEF TypeOK
  <2>3. QED
    BY <2>2, FS_Subset, FS_CardinalityType
<1>3. ASSUME UNCHANGED <<unread, spawned, addrs>>, proc' = proc,
             <<main, main'>> \in {<<"log", "opendir">>, <<"opendir", "readdir">>, <<"open", "load">>,
               <<"load", "readdir">>, <<"readdir", "spawn">>, <<"bind", "listen">>,
               <<"bind", "socket">>, <<"bind", "connected">>, <<"listen", "accept">>,
               <<"listen", "socket">>, <<"socket", "accept">>}
      PROVE  MainGoes
  BY <1>1, <1>2, <1>3, MainLeftFalls DEF MainGoes
<1>4. CASE ReDirect \/ OpenDir \/ OpenPage \/ LoadPage \/ CloseDir \/ Bind \/ Listen
            \/ NoAddressLeft \/ AcceptFails \/ Connect \/ ConnectFails
  <2>1. UNCHANGED <<thread, unread, spawned, addrs>>
    BY <1>4 DEF ReDirect, OpenDir, OpenPage, LoadPage, CloseDir, Bind, Listen, NoAddressLeft,
       AcceptFails, Connect, ConnectFails, threadVars, cacheVars, socketVars
  <2>2. \/ proc' = proc /\ <<main, main'>> \in {<<"log", "opendir">>, <<"opendir", "readdir">>,
             <<"open", "load">>, <<"load", "readdir">>, <<"readdir", "spawn">>,
             <<"bind", "listen">>, <<"bind", "socket">>, <<"bind", "connected">>,
             <<"listen", "accept">>, <<"listen", "socket">>, <<"socket", "accept">>}
        \/ proc = "running" /\ proc' \in {"exited", "aborted"} /\ main' = main
    BY <1>4 DEF ReDirect, OpenDir, OpenPage, LoadPage, CloseDir, Bind, Listen, NoAddressLeft,
       AcceptFails, Connect, ConnectFails, Goto, Throws
  <2>3. QED
    BY <1>3, <2>1, <2>2, UnstartedStays
<1>5. CASE ReadDir
  <2>1. ASSUME NEW e \in Entries, ReadsEntry(e)
        PROVE  Unstarted' = Unstarted /\ UNCHANGED proc /\ MainGoes
    <3>1. UNCHANGED <<thread, spawned, addrs, proc>> /\ main = "readdir" /\ main' \in {"readdir", "open"}
      BY <2>1 DEF ReadsEntry
    <3>2. Cardinality(unread') + 1 = Cardinality(unread)
      BY <2>1, OneRead
    <3>3. QED
      BY <1>1, <1>2, <3>1, <3>2, MainLeftFalls, UnstartedStays DEF MainGoes
  <2>2. CASE Throws("readdir", "aborted") /\ UNCHANGED <<thread, unread, spawned, addrs>>
    BY <2>2, UnstartedStays DEF Throws
  <2>3. QED
    BY <1>5, <2>1, <2>2, ReadDirIs
<1>6. CASE Spawn
  <2>1. UNCHANGED <<unread, addrs>>
    BY <1>6 DEF Spawn, cacheVars, socketVars
  <2>2. CASE Goto("spawn", "spawn") /\ spawned' = spawned + 1
    BY <1>1, <1>2, <1>6, <2>1, <2>2, MainLeftFalls, SpawnUnstarted DEF Goto, MainGoes
  <2>3. CASE Throws("spawn", "exited") /\ UNCHANGED threadVars
    BY <2>1, <2>3, UnstartedStays DEF Throws, threadVars
  <2>4. QED
    BY <1>6, <2>2, <2>3 DEF Spawn
<1>7. CASE Resolve
  <2>1. UNCHANGED <<unread, spawned, thread>>
    BY <1>7 DEF Resolve, cacheVars, threadVars
  <2>2. \/ proc' = proc /\ main \in {"spawn", "resolve"} /\ main' = "socket"
        \/ proc = "running" /\ proc' = "exited" /\ UNCHANGED <<main, addrs>>
    BY <1>7 DEF Resolve, Goto, Throws
  <2>3. QED
    BY <1>1, <1>2, <2>1, <2>2, MainLeftFalls, UnstartedStays DEF MainGoes
<1>8. CASE MakeSocket
  <2>1. UNCHANGED <<unread, spawned, thread, proc>> /\ main = "socket" /\ main' \in {"bind", "socket"}
    BY <1>8 DEF MakeSocket, Goto, cacheVars, threadVars
  <2>2. addrs' + 1 = addrs
    BY <1>1, <1>8 DEF MakeSocket
  <2>3. QED
    BY <1>1, <1>2, <2>1, <2>2, MainLeftFalls, UnstartedStays DEF MainGoes
<1>9. QED
  BY <1>4, <1>5, <1>6, <1>7, <1>8 DEF Main

LEMMA StartFalls ==
  ASSUME StartInv, NEW t \in Threads, Start(t)
  PROVE  /\ UNCHANGED <<main, unread, spawned, addrs>>
         /\ \/ Cardinality(Unstarted') + 1 = Cardinality(Unstarted) /\ UNCHANGED proc
            \/ Unstarted' = Unstarted /\ proc = "running" /\ proc' = "aborted"
<1>1. UNCHANGED <<main, unread, spawned, addrs>>
  BY DEF Start, cacheVars, socketVars
<1>2. CASE thread' = [thread EXCEPT ![t] = "pop"] /\ UNCHANGED proc
  <2>1. thread \in [Threads -> {"none", "start", "pop"}] /\ thread[t] = "start"
    BY DEF StartInv, TypeOK, Start
  <2>2. Unstarted' = Unstarted \ {t} /\ t \in Unstarted
    BY <1>2, <2>1 DEF Unstarted
  <2>3. Cardinality(Unstarted \ {t}) = Cardinality(Unstarted) - 1
    BY <2>2, UnstartedBound, FS_RemoveElement
  <2>4. QED
    BY <1>1, <1>2, <2>2, <2>3, UnstartedBound
<1>3. CASE UNCHANGED thread /\ proc = "running" /\ proc' = "aborted"
  BY <1>1, <1>3, UnstartedStays
<1>4. QED
  BY <1>2, <1>3 DEF Start

LEMMA OneLess ==
  ASSUME NEW a \in Nat, NEW b \in Nat, NEW p \in 0 .. 1, NEW q \in 0 .. 1, NEW u \in Nat, NEW v \in Nat,
         \/ b < a /\ q = p /\ v = u
         \/ b = a /\ p = 1 /\ q = 0 /\ v = u
         \/ b = a /\ q = p /\ v + 1 = u
  PROVE  b + q + v < a + p + u
OBVIOUS

LEMMA StepsFall ==
  ASSUME StartInv, StartInv', IsFiniteSet(Entries), Next
  PROVE  StepsLeft' < StepsLeft
<1>1. /\ MainLeft(main, Cardinality(unread), spawned, addrs) \in Nat
      /\ MainLeft(main', Cardinality(unread'), spawned', addrs') \in Nat
  <2>1. /\ Cardinality(unread) \in 0 .. Cardinality(Entries)
        /\ Cardinality(unread') \in 0 .. Cardinality(Entries) /\ Cardinality(Entries) \in Nat
    <3>1. unread \in SUBSET Entries /\ unread' \in SUBSET Entries
      BY DEF StartInv, TypeOK
    <3>2. /\ IsFiniteSet(unread) /\ Cardinality(unread) <= Cardinality(Entries)
          /\ IsFiniteSet(unread') /\ Cardinality(unread') <= Cardinality(Entries)
      BY <3>1, FS_Subset
    <3>3. QED
      BY <3>2, FS_CardinalityType
  <2>2. /\ spawned \in 0 .. ThreadNum /\ spawned' \in 0 .. ThreadNum
        /\ addrs \in 0 .. MaxAddrs /\ addrs' \in 0 .. MaxAddrs
    BY DEF StartInv, TypeOK
  <2>3. /\ MainLeft(main, Cardinality(unread), spawned, addrs)
             \in 0 .. 3 * Cardinality(Entries) + 3 * MaxAddrs + ThreadNum + 5
        /\ MainLeft(main', Cardinality(unread'), spawned', addrs')
             \in 0 .. 3 * Cardinality(Entries) + 3 * MaxAddrs + ThreadNum + 5
    BY <2>1, <2>2, MainLeftBound
  <2>4. QED
    BY <2>1, <2>3, StartAssumption
<1>2. /\ ProcLeft \in 0 .. 1 /\ ProcLeft' \in 0 .. 1
      /\ proc' = proc => ProcLeft' = ProcLeft
      /\ proc = "running" /\ proc' # "running" => ProcLeft = 1 /\ ProcLeft' = 0
  BY DEF ProcLeft
<1>3. Cardinality(Unstarted) \in Nat
  BY UnstartedBound
<1>4. CASE Main
  BY <1>1, <1>2, <1>3, <1>4, MainFalls, OneLess DEF MainGoes, StepsLeft
<1>5. ASSUME NEW t \in Threads, Start(t) PROVE StepsLeft' < StepsLeft
  <2>1. Cardinality(Unstarted') \in Nat
    BY <1>3, <1>5, StartFalls, UnstartedBound, FS_CardinalityType, FiniteThreads, FS_Subset DEF Unstarted
  <2>2. QED
    BY <1>1, <1>2, <1>3, <1>5, <2>1, StartFalls, OneLess DEF StepsLeft
<1>6. QED
  BY <1>4, <1>5 DEF Next

\* For a directory of finitely many entries the start is over after at most
\* MaxSteps steps of main and the threads, in whichever order they come and
\* whatever fails: neither the loop over the entries nor the one over the
\* addresses can go on for ever.  (With ReachedStays, the part of NotDeaf that
\* needs no fairness.)
THEOREM StartIsFinite ==
  ASSUME IsFiniteSet(Entries)
  PROVE  Spec => [](StepsLeft \in 0 .. MaxSteps) /\ [][StepsLeft' < StepsLeft]_vars
<1>1. StartInv => StepsLeft \in 0 .. MaxSteps
  BY StepsLeftBound DEF StartInv
<1>2. StartInv /\ StartInv' /\ [Next]_vars => [StepsLeft' < StepsLeft]_vars
  BY StepsFall
<1>3. QED
  BY <1>1, <1>2, StartInvHolds, PTL DEF Spec

=============================================================================
