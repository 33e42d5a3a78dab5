---------------------------- MODULE ServerStart ----------------------------
(***************************************************************************)
(* The start of the server: the constructor of HttpServer, which opens the *)
(* log and caches the error pages, and run up to its first accept          *)
(* (src/HttpServer.cpp), with openListenFd (src/NetworkAction.cpp), while  *)
(* the worker threads already open logs of their own.  What happens once   *)
(* connections are accepted is module HttpServer.                          *)
(*                                                                         *)
(* A program of role "client" calls openClientFd instead, which goes       *)
(* through its addresses in the same way; nothing in the server calls it.  *)
(*                                                                         *)
(* All threads take their descriptors from one table, the lowest free one  *)
(* first.  Any file may be missing, and any step of setting up a socket    *)
(* may fail, for reasons outside the program.                              *)
(***************************************************************************)
EXTENDS Naturals, FiniteSets

CONSTANTS
  ThreadNum,   \* how many worker threads
  MaxFd,       \* the highest descriptor
  Entries,     \* the entries of ./error/
  Codes,       \* status codes
  MaxAddrs     \* bound on the addresses getaddrinfo returns

ASSUME StartAssumption ==
  /\ ThreadNum \in Nat
  /\ MaxFd \in Nat /\ MaxFd >= 3
  /\ MaxAddrs \in Nat \ {0}
  /\ Codes \subseteq Nat \ {0}

Threads == 1 .. ThreadNum
Fds     == 3 .. MaxFd

\* Code of an entry that is no regular file or whose name is not digits.html.
NoPage == 0

VARIABLES
  role,           \* "server" or "client"
  proc,           \* "running", "exited" (run returned) or "aborted" (an
                  \* exception that nothing catches)
  table,          \* what each descriptor is
  main,           \* what the main thread executes next
  thread,         \* what the workers do
  spawned,        \* how many of them there are
  code,           \* the status code in an entry's name
  unread,         \* entries that readdir has not returned yet
  dirEnt,         \* the entry whose page is being read
  errorMsgCache,  \* the entry whose page is cached for a code
  addrs,          \* addresses not tried yet
  listenFd        \* local variable of openListenFd, then of run

vars == <<role, proc, table, main, thread, spawned, code, unread, dirEnt, errorMsgCache, addrs, listenFd>>

cacheVars  == <<code, unread, dirEnt, errorMsgCache>>
threadVars == <<role, thread, spawned>>
socketVars == <<addrs, listenFd>>

Init ==
  /\ role \in {"server", "client"}
  /\ proc = "running"
  /\ table = [f \in Fds |-> "free"]
  /\ main = IF role = "server" THEN "log" ELSE "resolve"
  /\ thread = [t \in Threads |-> "none"]
  /\ spawned = 0
  /\ code \in [Entries -> Codes \cup {NoPage}]
  /\ unread = Entries
  /\ dirEnt = {}
  /\ errorMsgCache = [c \in {} |-> {}]
  /\ addrs = 0
  /\ listenFd = 0

Free == {f \in Fds : table[f] = "free"}

\* A new descriptor, and the end of one.
Opens(f, what) ==
  /\ f \in Free /\ \A g \in Free : f <= g
  /\ table' = [table EXCEPT ![f] = what]
Closes(what) == table' = [f \in Fds |-> IF table[f] = what THEN "free" ELSE table[f]]

Goto(from, to) == proc = "running" /\ main = from /\ main' = to /\ UNCHANGED proc

\* An exception in main leaves the constructor uncaught; in run it is caught.
Throws(from, end) ==
  proc = "running" /\ main = from /\ proc' = end /\ UNCHANGED <<main, table>>

-----------------------------------------------------------------------------
(***************************************************************************)
(* The constructor: logOutput.reDirect and updateErrorMsgCache.            *)
(***************************************************************************)
ReDirect ==
  /\ \/ Goto("log", "opendir") /\ \E f \in Fds : Opens(f, "log")
     \/ Throws("log", "aborted")
  /\ UNCHANGED <<threadVars, cacheVars, socketVars>>

OpenDir ==
  /\ \/ Goto("opendir", "readdir") /\ \E f \in Fds : Opens(f, "dir")
     \/ Throws("opendir", "aborted")
  /\ UNCHANGED <<threadVars, cacheVars, socketVars>>

\* Mutation: the loop ends at an entry that is no page.
ReadDirStops ==
  /\ \E e \in unread :
       /\ unread' = IF code[e] = NoPage THEN {} ELSE unread \ {e}
       /\ \/ code[e] = NoPage /\ Goto("readdir", "readdir") /\ UNCHANGED dirEnt
          \/ code[e] # NoPage /\ Goto("readdir", "open") /\ dirEnt' = {e}
  /\ UNCHANGED <<table, threadVars, code, errorMsgCache, socketVars>>

\* The entries come in any order; Readdir throws when reading one fails.
ReadDir ==
  /\ \/ \E e \in unread :
          /\ unread' = unread \ {e}
          /\ \/ code[e] = NoPage /\ Goto("readdir", "readdir") /\ UNCHANGED dirEnt
             \/ code[e] # NoPage /\ Goto("readdir", "open") /\ dirEnt' = {e}
     \/ Throws("readdir", "aborted") /\ UNCHANGED <<unread, dirEnt>>
  /\ UNCHANGED <<table, threadVars, code, errorMsgCache, socketVars>>

\* Stat and Open.
OpenPage ==
  /\ \/ Goto("open", "load") /\ \E f \in Fds : Opens(f, "page")
     \/ Throws("open", "aborted")
  /\ UNCHANGED <<threadVars, cacheVars, socketVars>>

\* readn, the assignment to the cache, and Close.  Of two names with one code
\* (404.html and 0404.html) the page read last stays.
LoadPage ==
  /\ \/ /\ Goto("load", "readdir")
        /\ Closes("page")
        /\ \E e \in dirEnt :
             errorMsgCache' = [c \in DOMAIN errorMsgCache \cup {code[e]} |->
                                 IF c = code[e] THEN dirEnt ELSE errorMsgCache[c]]
        /\ dirEnt' = {}
     \/ Throws("load", "aborted") /\ UNCHANGED <<errorMsgCache, dirEnt>>
  /\ UNCHANGED <<threadVars, code, unread, socketVars>>

\* Closedir throws when it fails.
CloseDir ==
  /\ unread = {}
  /\ \/ Goto("readdir", "spawn") /\ Closes("dir")
     \/ Throws("readdir", "aborted")
  /\ UNCHANGED <<threadVars, cacheVars, socketVars>>

-----------------------------------------------------------------------------
(***************************************************************************)
(* run: the threads, and openListenFd.                                     *)
(***************************************************************************)

\* A thread that cannot be created is a system_error.
Spawn ==
  /\ spawned < ThreadNum
  /\ \/ /\ Goto("spawn", "spawn")
        /\ spawned' = spawned + 1
        /\ thread' = [thread EXCEPT ![spawned'] = "start"]
        /\ UNCHANGED <<role, table>>
     \/ Throws("spawn", "exited") /\ UNCHANGED threadVars
  /\ UNCHANGED <<cacheVars, socketVars>>

\* The first statement of httpThread, outside its try block.
Start(t) ==
  /\ proc = "running"
  /\ thread[t] = "start"
  /\ \/ /\ \E f \in Fds : Opens(f, "log")
        /\ thread' = [thread EXCEPT ![t] = "pop"]
        /\ UNCHANGED proc
     \/ proc' = "aborted" /\ UNCHANGED <<table, thread>>
  /\ UNCHANGED <<role, main, spawned, cacheVars, socketVars>>

\* Getaddrinfo
Resolve ==
  /\ role = "server" => spawned = ThreadNum
  /\ \E from \in {"spawn", "resolve"} :
       \/ Goto(from, "socket") /\ addrs' \in 1 .. MaxAddrs /\ UNCHANGED table
       \/ Throws(from, "exited") /\ UNCHANGED addrs
  /\ UNCHANGED <<threadVars, cacheVars, listenFd>>

\* Mutation: the loop does not look whether an address is left.
MakeSocketAnyway ==
  /\ addrs' = addrs - 1
  /\ \/ Goto("socket", "bind") /\ \E f \in Fds : Opens(f, "socket") /\ listenFd' = f
     \/ Goto("socket", "socket") /\ listenFd' = 0 /\ UNCHANGED table
  /\ UNCHANGED <<threadVars, cacheVars>>

\* The turn for the next address.  When Socket throws, listenFd stays 0.
MakeSocket ==
  /\ addrs > 0
  /\ addrs' = addrs - 1
  /\ \/ Goto("socket", "bind") /\ \E f \in Fds : Opens(f, "socket") /\ listenFd' = f
     \/ Goto("socket", "socket") /\ listenFd' = 0 /\ UNCHANGED table
  /\ UNCHANGED <<threadVars, cacheVars>>

\* Mutation: the socket is not closed in the catch clause.
BindNoClose ==
  /\ Goto("bind", "listen") \/ Goto("bind", "socket")
  /\ UNCHANGED <<table, threadVars, cacheVars, socketVars>>

\* When Bind or Listen throws, the socket is closed; listenFd keeps its number.
Bind ==
  /\ role = "server"
  /\ \/ Goto("bind", "listen") /\ UNCHANGED table
     \/ Goto("bind", "socket") /\ Closes("socket")
  /\ UNCHANGED <<threadVars, cacheVars, socketVars>>

Listen ==
  /\ \/ Goto("listen", "accept") /\ table' = [table EXCEPT ![listenFd] = "listener"]
     \/ Goto("listen", "socket") /\ Closes("socket")
  /\ UNCHANGED <<threadVars, cacheVars, socketVars>>

\* Mutation: openListenFd tries for ever.
TryAgain ==
  /\ addrs = 0
  /\ Goto("socket", "socket")
  /\ addrs' = 1
  /\ UNCHANGED <<table, threadVars, cacheVars, listenFd>>

\* No address is left: what listenFd holds is returned all the same.
NoAddressLeft ==
  /\ role = "server" /\ addrs = 0
  /\ Goto("socket", "accept")
  /\ UNCHANGED <<table, threadVars, cacheVars, socketVars>>

Listening == listenFd \in Fds /\ table[listenFd] = "listener"

\* Accept throws when listenFd is no listening socket, or the table is full.
AcceptFails ==
  /\ ~ Listening \/ Free = {}
  /\ Throws("accept", "exited")
  /\ UNCHANGED <<threadVars, cacheVars, socketVars>>

-----------------------------------------------------------------------------
(***************************************************************************)
(* openClientFd: Connect takes the place of Bind and Listen.               *)
(***************************************************************************)
Connect ==
  /\ role = "client"
  /\ \/ Goto("bind", "connected") /\ table' = [table EXCEPT ![listenFd] = "connection"]
     \/ Goto("bind", "socket") /\ Closes("socket")
  /\ UNCHANGED <<threadVars, cacheVars, socketVars>>

\* Here the function throws when no address is left.
ConnectFails ==
  /\ role = "client" /\ addrs = 0
  /\ Throws("socket", "exited")
  /\ UNCHANGED <<threadVars, cacheVars, socketVars>>

-----------------------------------------------------------------------------
Main ==
  \/ ReDirect \/ OpenDir \/ ReadDir \/ OpenPage \/ LoadPage \/ CloseDir
  \/ Spawn \/ Resolve \/ MakeSocket \/ Bind \/ Listen \/ NoAddressLeft \/ AcceptFails
  \/ Connect \/ ConnectFails

Next == Main \/ \E t \in Threads : Start(t)

Spec == Init /\ [][Next]_vars

\* Threads that can run are scheduled.
FairSpec == Spec /\ WF_vars(Main) /\ \A t \in Threads : WF_vars(Start(t))

-----------------------------------------------------------------------------
(***************************************************************************)
(* Properties                                                              *)
(***************************************************************************)
Things == {"free", "log", "dir", "page", "socket", "listener", "connection"}

\* The type invariant.
TypeOK ==
  /\ role \in {"server", "client"}
  /\ proc \in {"running", "exited", "aborted"}
  /\ table \in [Fds -> Things]
  /\ main \in {"log", "opendir", "readdir", "open", "load", "spawn",
               "socket", "bind", "listen", "accept", "resolve", "connected"}
  /\ thread \in [Threads -> {"none", "start", "pop"}]
  /\ spawned \in 0 .. ThreadNum
  /\ code \in [Entries -> Codes \cup {NoPage}]
  /\ unread \subseteq Entries
  /\ dirEnt \subseteq Entries /\ Cardinality(dirEnt) <= 1
  /\ DOMAIN errorMsgCache \subseteq Codes
  /\ addrs \in 0 .. MaxAddrs
  /\ listenFd \in {0} \cup Fds

Are(what) == {f \in Fds : table[f] = what}

\* When the server comes to accept, nothing of its start is left open, however
\* many addresses failed and however the threads' logs came in between: there
\* are the logs, and the listening socket or none.  So a number of a failed
\* socket that is kept in listenFd, which may be a log's by then, is never
\* taken for a listening one.  A client has its connection, or nothing.
StartLeavesNothing ==
  /\ main = "accept" =>
       /\ Are("dir") = {} /\ Are("page") = {} /\ Are("socket") = {}
       /\ Are("listener") \subseteq {listenFd}
       /\ Cardinality(Are("log")) = 1 + Cardinality({t \in Threads : thread[t] = "pop"})
  /\ role = "client" /\ (main = "connected" \/ proc # "running") =>
       Fds \ Free = Are("connection") /\ (main = "connected" => Fds \ Free = {listenFd})

\* The loop over ./error/ ends only when the cache is complete, whatever the
\* order of the entries and whichever are no pages: the workers find every page
\* in it, under its code, and nothing else.
CacheBeforeThreads ==
  \A t \in Threads : thread[t] # "none" =>
    /\ DOMAIN errorMsgCache = {code[e] : e \in Entries} \ {NoPage}
    /\ \A c \in DOMAIN errorMsgCache : \E e \in Entries : errorMsgCache[c] = {e} /\ code[e] = c

Connected == main = "connected" /\ table[listenFd] = "connection"

\* The server does not stay up without listening: it comes to accept on a
\* listening socket, or its process ends.  A client comes to be connected, or
\* is told that it is not.
NotDeaf == <>[](proc # "running" \/ Listening \/ Connected)

\* "Opens and returns the listening socket ...; on failure runtime_error is
\* thrown" (src/NetworkAction.hpp:22): run goes on with a listening socket.
ListenOrThrow == main = "accept" => Listening

=============================================================================
