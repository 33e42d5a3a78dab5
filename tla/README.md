# Verification of web_service

TLA+ modules, TLC configurations and TLAPS proofs for the multi-threaded HTTP
server in this repository (C++17, about 1900 lines).  Line numbers refer to
`src/`.

## 1. Inventory

The program (`shoot.cpp`) is one process: a main thread that accepts
connections and seven detached threads that serve them.

| Component | State | Operations | Talks to |
|---|---|---|---|
| `Pool<int>` (`Pool.hpp`) | circular buffer, `front`, `rear`, semaphores `mutex`, `slots`, `items` | `push`, `pop` | shared by main and all workers |
| `HttpServer` (`HttpServer.cpp`) | `fdPool`, `errorMsgCache`, `handlers`; the process's descriptor table | `run`, `httpThread`, `scheduler`, `checkAndInit`, `baseHandle`, `updateErrorMsgCache` | clients through sockets, files, CGI processes |
| CGI execution (inside `baseHandle`) | child process, pipe | pipe, fork, exec, wait, read | `HttpResponse::getRespForCgiBuf` |
| `HttpRequest` | line, headers, body | `fillData`, parser, accessors of the URI's parts | `Rio::readn` |
| `HttpResponse` | line, headers, body | setters, `sendData`, parser of CGI output | `Rio::writen` |
| `Rio` | internal buffer of the buffered reader | `readn`, `writen`, `limitTimeToRead`, `readnInBuf`, `readLineInBuf` | `read`, `write`, `select` |
| `NetworkAction` | none | `openListenFd`, `openClientFd` | sockets |
| `wrapper` | none | system calls that throw `cFunctionError` or `runtime_error` | the kernel |
| `LogOutput`, `misc`, MIME table | one log file per thread | formatting | files |

Hard behaviours: threads interleaving in the pool; exceptions that cross
several calls on their way to one of six catch clauses, leaving descriptors
and half-built responses behind; descriptors reused by the kernel as soon as
they are closed; a receive timeout racing the request; clients that stall or
reset at any point; `fork` in a multi-threaded process; a parent that waits for
its child before it reads the child's output; files that change between
`stat`, `access`, `open` and `exec`; counts that run past a buffer in the read
loops; regular expressions that split a message elsewhere than its grammar
does; a server that begins to accept although it has no listening socket.
PROJECT.json lists each at its line ("hazards"), with the properties that would
catch it, or why none does.

What makes the components correct:

* Pool: mutual exclusion on the buffer, no overwrite and no underflow, FIFO
  order, no item lost or duplicated, progress.
* HttpServer: it implements an abstract service (a connection is accepted, gets
  at most one reply, the one to its own request, and is closed); a descriptor
  has one owner at a time; no socket is lost; the process ends for known reasons
  only; an accepted connection is closed in the end.
* Rio: what is counted was read; a message that is there is read intact; the
  buffered calls return the stream in order, whatever mixture of them is made;
  the loops end.
* CGI execution: there is a child for every `Wait`; a worker has all of its own
  program's output when it answers; nothing stops without a reason; a client is
  answered by one process and sees the end of its connection, although children
  inherit the connections and may go on as servers of their own.
* `baseHandle`: the length sent is the length of the body; what a changing file
  system cannot make it answer.
* `HttpRequest`, `HttpResponse`: a message that arrives in one piece is parsed as
  it was sent, a program's output is answered as it was written, and what is
  sent can be read back.
* Start: workers find the page cache complete; nothing is left open; the server
  listens or ends, a client is connected or told that it is not.

## 2. Modules

| Module | Models | Proved about in |
|---|---|---|
| `BoundedQueue` | what a pool promises: FIFO queue, blocking push and pop | |
| `Pool` | `Pool.hpp`, one step per semaphore operation and buffer access | `PoolProofs` |
| `HttpServer` | `run`, `httpThread`, `baseHandle`, `fillData`, `sendData`: control flow, descriptors, replies | `HttpServerProofs` |
| `Service` | what the server promises each client: accept, at most one reply to its own request, close | |
| `RioReadn` | `Rio::readn` and the loops around it | `RioProofs` |
| `RioBuffered` | `readnInBuf`, `readLineInBuf`, `rioRead`, `limitTimeToRead` | `RioProofs` |
| `Cgi` | the dynamic branch of `baseHandle` with its processes and pipes | `CgiProofs` |
| `ForkedServer` | the clients and `fdPool` across the processes of `Cgi`; the child whose `exec` failed | `ForkedProofs` |
| `BaseHandle` | `baseHandle` for one request, one system call per step | `BaseHandleProofs` |
| `HttpRequest`, `HttpResponse` | the parsers, the accessors of the URI, `convertByteBuf`: operators, no state | `MessagesProofs` |
| `Messages` | `fillData`, `checkAndInit`, the edits of the path, the answer of a program | `MessagesProofs` |
| `ServerStart` | the constructor, `updateErrorMsgCache`, `run` up to `Accept`, `openListenFd`, `openClientFd` | `ServerStartProofs` |
| `MCPool`, `MCHttpServer` | sets of model values and symmetry for TLC | |
| `MCHttpServerLive` | `HttpServer` with four clients, each with a part of its own, for liveness | |

How they fit together.  `Pool` implements `BoundedQueue` (proved), and
`HttpServer` uses `BoundedQueue` as `fdPool` through `INSTANCE`, so that the
server's state space does not contain the semaphores; `HttpServer` in turn
implements `Service` (proved).  The other modules look closer at what
`HttpServer` takes as one of its outcomes: `ServerStart` at what comes before
its first state, `RioReadn` and `Messages` at `Fill`, `BaseHandle` at
`ErrorPage`, `HeadOnly`, `OpenFile`, `ReadFile`, `Cgi` at `MakePipe` and
`RunCgi`.  `RioBuffered` EXTENDS `RioReadn`, and `ForkedServer` EXTENDS `Cgi`;
both are shown to keep to the behaviours of the module they extend.  `Messages`
EXTENDS `HttpResponse`, which EXTENDS `HttpRequest`.

**Pool.**  `pc[t]` is the statement a thread executes next.  `push` and `pop`
are six steps each, plus the call; the names of the actions follow the calls
(`P(&sp.slots)` is `PushPSlots`).  `item[t]` is the argument of `push` or the
local variable of `pop`.  `Size` is the number of items between `front` and
`rear`, computed from the permits and the threads' stages, since the indices
cannot distinguish empty from full.

**Service.**  The abstract service of one server to all its connections:
`phase`, `request` and `replies` of each, `up` for the process.  There are no
threads, descriptors or queue in it.  `HttpServer` implements it with `up` as
`Running` and the other variables as they are.

**HttpServer.**  `at[w]` is where worker `w` is in `httpThread`: `pop`, `fill`
(`request.fillData`), `handle` (`baseHandle`), `read` and `fork` (inside
`baseHandle`, with an open file or pipe), `send`, `catch` (the `runtime_error`
clause), `close`.  The clauses that only log lead straight to `close`.  `open`
is the set of descriptors in use, `sock[f]` the connection behind a socket,
`aux[w]` the other descriptors in local variables of `w`; a descriptor that is
open and referred to by nothing is `Leaked`.  A request is abstracted to what
its handling does (`Kinds`): content, headers and names do not matter to the
properties.  `part` stands for all that the parser refuses: part of a request,
or one whose pieces `readn` laid over each other.  `errorMsgCache` is chosen at
the start from `Caches`.  `Writen` says when `Rio::writen` succeeds and
`WritenThrows` when it throws.  A client may reset its connection before it is
accepted, which `wrapper.cpp` turns into a throwing `Accept`.  `proc` becomes
`exited` when `run` returns (main then returns) and `aborted` when an exception
leaves a thread (`std::terminate`).

**RioReadn.**  `arrived` and `taken` count the bytes that reached the kernel
and those read from it; byte *i* of the stream is the number *i*, so a
misplaced byte is visible.  `Read` passes `usrBuf` and `n` as the code does.
`Return` is the caller's `fdBuf += byteBuf(buf, n)` with the loop condition;
bytes behind the buffer are `Junk`.  `timesOut` tells a socket with a receive
timeout from a pipe.

**RioBuffered.**  `unread` is `rio.buf` from `unreadPtr` on, `pulled` what was
read from the kernel.  A step is an iteration of the loop in `rioRead`
(`Refill`, `AtEof`) or of the loop around it (`CopyBytes` in `readnInBuf`,
`CopyChar` in `readLineInBuf`); the caller asks for anything at any time when
no call is in progress.  A stream has one reader, of one kind.

**Cgi.**  `pc[w]` is a worker's place in the dynamic branch (`fork`, `close`,
`wait`, `read`, `reply`), `prog[w]` the child of its latest request.
`writers[w]` is who holds the write end of its pipe: `Fork` hands every write
end the server holds to the new child, `Exit` takes back all that a child
holds.  `Wait` is `Wait(nullptr)`: it takes any of the `zombies`.  Output is
counted in units, `Cap` of which fill a pipe.  A child whose `exec` failed is
`rogue`: it has gone back into `httpThread`, holds what it inherited, and may
end at any time (`RogueDies`).

**ForkedServer.**  What that child does, and to whom.  `holders[c]` is who has
connection `c` open (`Fork` gives it to the child, the last holder to close it
ends it for the client), `copy[w]` the child's copy of `fdPool`, `data[c]`
whether a request is there to be read: whoever reads it first, server or rogue,
has it.  The rogue's exception is answered by the `runtime_error` clause on the
connection its worker still waits to answer; then it serves its copy, which
nobody fills.  If another thread was inside `push` or `pop` at the fork, the
copied mutex is never released: `copy` is then empty.  Reading a request and
answering it with a page are one step; rogues are asked for pages only; a
client resets its connection only once the server proper has closed it (resets
before that are in `HttpServer`).

**BaseHandle.**  `fs` has the entry the path names and, if that is a directory,
its `index.html`.  Between any two system calls (`Stat`, `access` twice,
`Open`, `readn`, `exec`) others may change it, up to `MaxChanges` times.
`fileStat`, `file`, `response` are the code's local variables; `Expected` is
the answer one look at a file system gives, a definition of its own against
which the handler is compared.

**HttpRequest, HttpResponse.**  A raw message is a sequence of what the regular
expressions tell apart: the method, the rest of the request line, a line end, a
header, a word, a word with `$`, a tab, the zeros of a buffer.
The expressions are greedy, which the operators say: `GetRequestForRawBuf`
takes the *last* place where headers and body can be divided (`Max(Splits)`).
A URI is a sequence of characters, so that `find` and `rfind` can differ.

**Messages.**  `stage` leads one connection from `fill` over `init`
(`checkAndInit`), `handle` (`baseHandle`), `wait` (for a program) and `send` to
`sent` or `closed`.  `Read` is a `read` of `readn`: it lays the next `n` tokens
over the beginning of `buf`, where they cover some of those of the reads before.
`Received` is what the parsers get, as many bytes as were read: `buf`, and
behind it, if there was more than one read, zeros.  `InOnePiece` says that there
was not.  Messages are shorter than the code's buffer of 2 MB (`RioReadn` has
the longer ones), and a read begins and ends between two tokens and covers whole
ones.  `arrived` when `FillData` happens is where the timeout cuts the request
off; a program's output is read to its end. The result of the parser does not
depend on the request line, so method (GET or HEAD) and URI are chosen when they
are first looked at, and what nobody looks at any more is reset; this keeps the
three questions (request, URI, output) from multiplying each other's states.
Part of `UriKeepsMeaning` is about the accessors alone: what `setExt` and
`setParam` write, `getExt` and `getParam` read back, and the other parts stay.

**ServerStart.**  `table` is the one table of descriptors of the process, `main`
and `thread` what main and the workers do, `listenFd` the local variable of
`openListenFd` and then of `run`.  Any file may be missing and any step of a
socket may fail, reading and closing the directory included.  The kernel hands
out the lowest free number, so a worker's log can get the number of a socket
that was closed.  `role` tells the server from a program that calls
`openClientFd`, which goes through its addresses in the same way and throws when
none is left.

## 3. Runs

| Run | Question | Bounds |
|---|---|---|
| `pool` | is the buffer protected, is it a FIFO queue, can all threads block each other, does every item get out and every push in | 2 producers, 2 consumers, 2 items, 2 places |
| `server_safety` | does it implement `Service`; ownership of descriptors, leaks, silent closes, reasons for the end and for a standstill | 2 workers, 2 connections (reused without end), 4 descriptors, pool of 1, all kinds of request, 500 and 404 page there or not |
| `server_live` | is every accepted connection closed, also those that wait behind busy workers and the one a full pool keeps main from pushing | 2 workers, 4 connections (one may stall or be reset, one asks, two are mute), 4 descriptors, pool of 1, requests for a page |
| `server_peer_reset` | (violation) a reset by one client ends the process | 1 worker, 1 connection |
| `readn` | counts and contents of the read loop and of the buffered calls, their end; socket and pipe | 7 bytes in any pieces, three of them line ends; buffer of 3 (`readn`), internal buffer of 2, arguments up to 3 |
| `readn_doc` | (violation) what the comment on `readn` promises | buffer of 2, 3 bytes |
| `cgi` | a child for each wait, all output, what can bring everything to a stop, who answers twice; answers and ends of connections if output fits | 2 workers, pipe of 2, output up to 3, `exec` may fail, 2 connections (reused), pool of 1 |
| `cgi_large_output` | (violation) output larger than a pipe is never answered | 1 worker, pipe of 1, output up to 2 |
| `base_handle` | length and body, the right answer on a quiet file system, status under changes of content | 2 changes, files of up to 2 bytes, 4 extensions, GET and HEAD |
| `messages` | parser, URI, CGI output, wire format, and what becomes of them when `readn` lays pieces over each other | up to 2 headers and 2 words of body, cut off anywhere, read in up to 3 pieces; URIs of up to 5 characters; outputs of up to 2 header lines and 2 words |
| `server_start` | what is open and cached when the server comes to accept; no deaf server; a client connects or is told | 2 workers, 4 descriptors, 3 entries of `./error/`, 2 codes, 2 addresses |
| `server_start_doc` | (violation) `openListenFd` returns without a socket | 1 worker, 1 address |

Why the bounds are enough.

* The pool's threads compete in pairs: two of each kind give every contention
  for each semaphore, and two places reach empty, full and wrapped states.  The
  safety part is proved for all values.
* In `server_safety` four descriptors are few enough to run out with and without
  leaks, and connections are reused, so the run covers unbounded histories.  Two
  connections do not let main block in `push` while both workers are busy; that
  part of `EndHasReason` is proved for all values.
* In `server_live` two connections are in service, one waits in the pool of one,
  and main has accepted a fourth it cannot push; one of the workers may be
  stalled for good by its client meanwhile, and the other has to serve all the
  rest.  Symmetry does not go with liveness, so each client has a part:
  `Staller` asks, and may stop reading or reset its connection, `Asker` asks,
  `Mute` and `Mute2` send nothing (nothing is asked of the second, which only
  keeps a place taken).  Four descriptors let a page run into a full table.
* In `RioReadn`, seven bytes through a buffer of three reach short reads, exact
  multiples, and returns between *n* and 2*n*.  In `RioBuffered` line ends
  follow each other, stand at the end of the internal buffer and inside it, and
  lines are longer than the buffer and than the argument; its safety part is
  proved for all values.
* In `Cgi`, reaping another worker's child and holding another's pipe open need
  two workers and happen between two; an output of three fills a pipe of two.
  With two connections in `ForkedServer`, one is answered by its worker while
  the other waits in `fdPool` and in a rogue's copy of it, and both are reused.
  Its invariants are proved for any number of workers and connections, but for
  the meaning of `Stuck`.
* In `BaseHandle` two changes let a file be replaced and replaced again between
  any calls; files of 0, 1 and 2 bytes shrink, grow and keep their size.
* In `Messages`, URIs of five characters have two question marks, or dots on
  both sides of one; two words of body hold a line end behind a header-like
  line, or a `$` behind a line end; two header lines put a bad status before or
  after another.  A second piece covers the request line, the empty line or all
  of the first, and a third one what that left over.  Its safety invariants are
  proved for messages and URIs of any length, read in any number of pieces (but
  `WireReadsBack` for outputs read in one; of others the run checks it).
* In `ServerStart` two logs and four descriptors let the table fill at every
  step, and two addresses let a socket's number be freed, taken by a log, and
  kept in `listenFd`.

Deadlock is checked for `Pool`, whose threads never stop.  In the other runs
something ends: the process may exit or abort (`HttpServer`, `ServerStart`), a
loop or a request is over (`RioReadn`, `BaseHandle`, `Messages`), and in `Cgi`
everything may really stop, which `StuckHasReason` explains state by state.

Fairness.  Threads that can run are scheduled: weak fairness of each thread's
steps in `Pool`, `HttpServer`, `Cgi`, `ServerStart`, of the reader in
`RioReadn`; in `RioBuffered` of the call in progress (whether there is another
call is the caller's choice); in `ForkedServer` of each worker, of each program
and of each rogue.  It is not assumed that a client connects, sends, reads or
closes; a `write` to a client that does not read is disabled, not slow.  In
`Pool` and `HttpServer` a worker comes back to `pop` after every item, because
the loop of `httpThread` never ends: `Progress` and `AcceptedIsClosed` rest on
that.  In `Cgi`, which is about requests in progress, no worker is assumed to
take up another one.  `sem_wait` does
not queue its waiters and `wait` does not queue its callers, so their fairness
is weak too, and the liveness properties speak of the head of the queue, of
some pusher, of some request, not of a particular one.  The writer of a pipe
(a CGI program) is assumed to end once it has written its output; a full pipe
still blocks it.

What the passing runs show that the code does not say:

* A request is divided at the last line end that fits, not at the empty line:
  a body of several lines loses all but the last to the headers, which is why
  `ParsedAsSent` speaks of bodies of one line.  A `$` in the body makes the
  expression fail and the connection is closed without an answer.
* That, and all that is said here of parsers, holds of a message `readn` reads
  in one piece.  When the segments of a request are read one by one, the later
  is laid over the earlier: the request is refused, and its connection closed
  without an answer, although all of it arrived; or it is taken for another one,
  whose method may be made of two words and whose body always ends in zeros. The
  answer to an output read in pieces is 500, or ends in zeros too; that happens
  when `Wait` returned for another worker's program, while this one's still
  writes (`OneReadIfInTime` of `Cgi`).  `ParsedAsSent`, `ClosedHasReason` and
  `OutputOrError` say what holds in either case.
* A request cut off by the timeout is handled as a whole one as soon as the
  request line and one more line end are there; its last, incomplete header is
  missing, but no value is ever cut short.
* HEAD gets no parameters, so a program run for HEAD does not see its query.
* A `$` in a program's output makes it malformed: 500.  A status code that is
  not in `codeNameMap` gives no answer at all.
* A file that changes between `stat` and `read` never makes `Content-Length`
  differ from the length of the body; the body may hold bytes that were not in
  the file.
* The only way to answer a request twice across processes is a rogue that
  answered and then died: its worker's `Wait` returns, it finds end of file,
  and answers 500 once more.  Server and rogues never both read a request.
* A client of a program sees the end of its connection only when every child
  forked meanwhile has ended too; a rogue blocked in `pop` keeps what it
  inherited open for good (`ClientsSeeTheEnd` therefore assumes `Fits`).
* One client that resets its connection before it is accepted makes `Accept`
  throw and ends the server.
* A buffered read on a silent peer does not end, time limit or not: `rioRead`
  reads again after every error (`Silent` in `CallsEnd`).
* When no address can be bound the server does not stay up deaf: `Accept`
  throws, `run` returns, and the process ends with the status of success.

## 4. Findings

1. `server_peer_reset`: the `runtime_error` clause (`HttpServer.cpp:167-174`)
   answers 500 on the very connection whose failure it handles.  When the
   cause is a reset by the peer, `sendData` throws again, out of the clause,
   and `std::terminate` ends the whole server.  The log text for that event
   (`HttpServer.cpp:11`) says that the remaining bytes may be lost, no more.
2. `readn_doc`: `Rio::readn` passes the start of the buffer and the whole
   length to each `read` (`Rio.cpp:35`), so pieces overwrite each other and up
   to 2*n* - 1 may be returned; `Rio.hpp:35` promises *n* bytes in order.
3. `cgi_large_output`: `baseHandle` waits for the program before it reads the
   pipe (`HttpServer.cpp:114`); output beyond the pipe's capacity blocks both. A
   buffer of 2 MB and a loop around `readn` (`HttpServer.cpp:116-121`) are there
   for such outputs.  The deadlock the comment at `HttpServer.cpp:104` minds is
   another one, of locks that `fork` copies together with one thread only.
4. `server_start_doc`: `openListenFd` catches each failure, closes the socket
   and returns `listenFd` after the last address (`NetworkAction.cpp:24`);
   `NetworkAction.hpp:22` promises an exception.

Divergences met while reading that no run shows: the receive timeout is 100
microseconds where the comment says 3 seconds (`HttpServer.cpp:196-197`);
`limitTimeToRead` waits 3 seconds where its comment says 15 (`Rio.hpp:41`,
`Rio.cpp:80`); the handlers' return values are ignored (`HttpServer.hpp:246`,
`HttpServer.cpp:144`); `rioRead` does not throw on a read error (`Rio.hpp:31`,
`Rio.cpp:17`); `limitTimeToRead` makes an exception for a null pointer and does
not throw it (`Rio.cpp:74`); `openClientFd` does not free what `getaddrinfo`
returned.

## 5. Proofs

Each module of proofs has an inductive invariant, shown to hold initially and
to be preserved by every action, from which the properties follow.

* `PoolProofs`, for every finite set of threads, every set of items and every
  positive buffer length (`PoolAssumption`), proves `TypeOK`,
  `MutualExclusion`, `PermitsConserved`, `ItemsIntact` and
  `NoOverwriteNoUnderflow`.  The invariant is `PoolInv`, the conjunction of the
  first four.  None of the last three is inductive alone: that a store does not
  hit an item needs `rear = Slot(Size)` and `Size < BufLen`, which follow from
  the accounting of permits in `PermitsConserved`; that accounting counts
  threads by stage, so each action is shown to move one thread from one counted
  set to another (`CountMoves`, `PushCounts`, `PopCounts`); that only one
  thread is between store and advance comes from `MutualExclusion`.
  It also proves that `Spec` implements `BoundedQueue!QueueSpec` under the
  mapping `AbsQueue`, `AbsHeld`: `push` takes effect at `PushAdvance`, `pop` at
  `PopAdvance`.  `OnlyEmptyPoolRests` (`NoDeadlock`) is an argument on the same
  accounting: if every thread inside `push` or `pop` waits, none holds `mutex`,
  so its permit is free and nobody waits for it; so every consumer waits for an
  item, and as no thread is between its two semaphores, `items = 0` means an
  empty buffer and all of its places free: no producer waits.
* `HttpServerProofs`, for every finite set of workers and of descriptors, any
  connections, every length of the pool and every set of caches
  (`ServerAssumption`), proves all the safety properties of the server's run:
  `TypeOK`, `DescriptorsHaveOneOwner`, `NoSocketLost`, `EndHasReason`, the
  action properties `SilentCloseHasReason` and `OnlyCgiAndUnreadableLeak`, and
  `ImplementsService`.  The invariant `ServerInv` has one part for each thing a
  step can upset.  `Owners` and `Sockets` say that open sockets, accepted
  connections and places in `fdPool` or in a thread's hands are in one-to-one
  correspondence: a number the kernel hands out anew cannot be referred to by
  anybody, because every reference is to an open descriptor.  `Files` says the
  same of the other descriptors of a worker, and bounds them by where it is.
  `Working` (`Locals` of each worker) ties the local variables to the place in
  the code: the status is still 200 wherever the next statement may throw, and
  what is parsed is what the connection asked.  `SilentCloseHasReason` is about
  the step that gives a request up, because only there can it be seen whether
  the table was full or `Fork` failed: each way into `close` is shown to reply
  or to have one of the reasons `CannotReply` lists (`SilentWorkerStep`), and
  the steps of others leave a worker where it is (`OthersStay`).  `Replied` says
  that who has replied is about to close; without it a `catch` clause could
  answer a second time.  `Ending` is what `accept` found when it failed.  Two of
  the proofs then count: that a full table is made of leaks, queued connections
  and requests in progress (`EndReasoned`), and which step takes the last
  reference to a descriptor away (`OnlyTheseLeak`).  The refinement
  (`ServerImplementsService`) shows action by action which step of `Service` it
  is: `Connect` and `Ask` are the clients', `Accept`, `Reply` (where `sendData`
  succeeds), `Close` and `Stop` the server's, and all that happens inside the
  server is a stutter. In the other direction, `PoolIsUsedAsSpecified` shows
  that the server's steps on `fdPool` are steps of `BoundedQueue`, the
  specification `Pool` implements: main pushes one descriptor after the other
  and each worker is done with what it popped before it pops again.  The third
  part of `EndHasReason`, `StandstillHasReason`, says when all threads wait;
  `ServingIsFinite` counts the statements left until a worker's `Close`, which
  every step of it lowers, through all handlers and `catch` clauses.  Together
  these are what `ClosedInTheEnd` needs of each connection besides fairness.
* `ServerStartProofs`, for any number of threads, descriptors, entries and
  addresses (`StartAssumption`), proves `TypeOK`, `StartLeavesNothing` and
  `CacheBeforeThreads`.  The invariant `StartInv` adds `Caching` (the cache is
  what the entries read so far make it), `Spawning` (there are threads only
  once no entry is left), `Opened` (which descriptors there may be at which
  statement, so a socket is the one in `listenFd` and only there) and `Logs`,
  which counts one log for each thread that runs.  `ReachedStays` and, for a
  directory of finitely many entries, `StartIsFinite` are what `NotDeaf` says
  without fairness: no thread's `open` ends the listening or the connection, and
  every step of main or of a thread lowers `StepsLeft`, which counts entries,
  threads and addresses still to come.
* `BaseHandleProofs`, for files of any size and any number of changes
  (`BaseHandleAssumption`), proves `TypeOK`, `LengthMatchesBody`, `QuietAnswer`
  and `ContentKeepsStatus`.  The invariant `HandleInv` has three layers, as the
  file system is less and less to be relied on: `Answering` holds whatever
  changes, `Settled` (what `stat` and `access` found is still true of the
  entry) while only content does, `Unchanged` (so is the size, and the opened
  file is the entry) while nothing does.
* `RioProofs`, of `RioReadn`, for every buffer and every length of the message
  (`ReadnAssumption`), proves `TypeOK`, `CountsExact` and `WholeMessageIntact`.
  The invariant `ReadnInv` adds to the types `Counts` (the range of `leftCount`
  at each stage, and the length) and `Whole`: if all of the message was there at
  the start, then no call of `read` finds something after one that found less
  than a buffer, so no piece overwrites another. `LoopIsFinite` bounds the steps
  of the loop by what is left to take: each turn of it but the last takes a
  byte.
* `CgiProofs`, for every finite set of workers, every capacity and every bound
  on the output (`CgiAssumption`), proves `TypeOK`, `ReapBalance`,
  `OutputComplete`, `OneReadIfInTime` and `StandstillHasReason`.  The invariant
  `CgiInv` adds `Conserved` (what a program wrote is in its pipe or was read),
  `ChildOfRequest` (the child of a request not yet answered holds the write end
  until it ends) and `ReadsAfterWait`.  `ReapBalance` is what a `Wait` that
  takes any child keeps: a worker that waited and a child that was reaped, not
  whose. `StandstillHasReason` needs `HoldersLive` besides (only living
  children, and the server before it closes it, hold a write end): at a
  standstill every living child is jammed (`RunningIsJammed`), so who reads
  waits for one that is, and who waits has a child to wait for (`ReapBalance`).
  It follows that there is no standstill when no `exec` fails and every output
  fits its pipe (`OutputsThatFitAreServed`).  `RequestIsFinite` adds that a
  request cannot go on for ever either: every step of its worker or its program,
  in any interleaving with the others', lowers the count of those that are left.

* `ForkedProofs` first shows that every step of `ForkedServer` is one of `Cgi`
  or leaves its variables alone (`ForkedIsCgi`), so that all of `CgiProofs` holds
  for it, and then, for every set of connections and length of the pool
  (`ForkedAssumption`), `ForkedTypeOK` and `AnsweredOnce`.  The invariant
  `ForkedInv` adds `OneOwner` (a connection the server proper holds is in
  `fdPool` or in the hands of one worker, and there once) and `AnsweredSoFar`,
  which says for each connection who can still answer it: `AnsweredOnce` alone
  does not exclude a second owner that is about to answer.  `OpenHasReason` says
  why a client has not seen the end of its connection: it waits in `fdPool`, a
  worker serves it, or a child that lives has inherited it (`HoldersServe`: who
  is gone holds nothing, and the server proper only what it serves).
  `ForkedNeverStandsStill` carries `OutputsThatFitAreServed` over.
* `RioProofs` also shows of `RioBuffered` that the buffered calls leave
  `RioReadn` alone (`BufferedIsReadn`), and, for every stream, every set of line
  ends, every size of the buffer and every argument (`BufferedAssumption`),
  `BufferedTypeOK` and `BufferedCallsExact`.  The invariant `BufferedInv` adds
  `InCall` (`count` against what is stored, no line end stored before the call
  ends) and `Idle`. That the stream stays in order is an argument on
  concatenations: what leaves the buffer is what the call stores (`Divided`,
  `HeadAndTail`, `Regrouped`). `CallIsFinite` bounds the steps of a call by what
  it was asked for; a step at the end of the stream ends it, so it can last only
  on a silent peer.

* `MessagesProofs`, for URIs, bodies and outputs of any length
  (`MessagesAssumption`), proves `TypeOK`, `UriKeepsMeaning`, `ParsedAsSent`,
  `ClosedHasReason` and `OutputOrError`, for any number of pieces, and
  `InOnePiece => WireReadsBack`.  The invariant
  `MessagesInv` adds `Edited` (the URI is the served path and the query that
  was sent), `ToArrive` (what the client sends) and `Shaped` (a response has a
  header once, under its name): each action makes one text of another, so that
  each property is established by one step and needs of the invariant what the
  step starts from.  The work is in the lemmas on sequences.  `find` and `rfind`
  are the first and the last place of a character (`MinIs`, `MaxIs`); what they
  find in a URI put together from parts is worked out part by part
  (`LastOfSecond`, `LastOfFirst`, `PartsOf`).  A message is lines of one token,
  an empty line and a body (`Message`): `LinesAre` shows that `Lines` alternates
  tokens and line ends, `HeadersAre` and `BlankIs` where its headers and its
  first empty line are, whatever the body, even for a part of it that has
  arrived (`Heads`).  `RequestSplits` then says where the greedy expression
  divides a request, `OutputGives` what is made of an output, `WireIs` that a
  response is such a message again.  Of what is read in several pieces only the
  end is known (`ReceivedIs`); a greedy division leaves it to the body
  (`ZerosAtTheEnd`), which is what `PiecesParsed` and `PiecesTaken` need.

`NoOverwriteNoUnderflow`, `ItemsIntact` and the type invariants of `RioReadn` and
`Cgi` alone are proved and no run repeats them.

What the theorems rest on is the assumptions on the constants named above and
the specifications; no fact is taken without proof but the theorems of the
prover's library on finite sets, cardinality and sequences.

Model-checked only: all liveness (`Progress`, `AcceptedIsClosed`, `NotDeaf`,
`CallsEnd`, `ClientsSeeTheEnd`), which rests on fairness; `WireReadsBack` of
outputs read in several pieces; and that `Stuck`, which speaks of `ENABLED`, is
`Standstill`, which says the same by what each worker and program is blocked in
(`StuckHasReason` is this and the proved `StandstillHasReason`).  Fairness and
`ENABLED` are out of the prover's reach.  Of each liveness property the half
that needs no fairness is proved, as a statement about single states and steps:
work is finite (`ServingIsFinite`, `LoopIsFinite`, `CallIsFinite`,
`RequestIsFinite`, `StartIsFinite`), and where all wait there is a reason
(`OnlyEmptyPoolRests`, `StandstillHasReason` of `HttpServer` and of `Cgi`,
`OpenHasReason`).  That a thread which does not wait runs is what fairness
assumes.

## 6. Not modelled, and the plan

What the server does is modelled, and the safety properties of the runs are
proved, but for the half of `StuckHasReason` that speaks of `ENABLED` and for
`WireReadsBack` of outputs read in several pieces.

Left out for good:

* formatting of log lines and dates, and with it `misc` and the static buffer of
  `localtime` that all threads share (no state of the server depends on a time
  stamp);
* most of `wrapper.cpp`: functions nothing calls, and system calls whose only
  effect on the server is that they may throw, which is an alternative of the
  action that makes the call;
* `addHandler`, which nothing calls and whose handlers `scheduler` would never
  call (it calls the first two, the server's own), and
  `getRespForRawMessage`, an empty stub;
* `test.cpp` (not part of the build), the content under `htdocs` and `error`;
* memory contents behind a buffer (the page cached from a buffer without
  terminating zero), and the destruction of the server while detached threads
  still run: undefined behaviour, the latter after it has stopped serving;
* how long the receive timeout is: it may expire at any time;
* in `Messages`, reads that begin or end inside a token, and methods other than
  GET and HEAD (the server answers them like GET, without parameters).
