------------------------------ MODULE RioReadn ------------------------------
(***************************************************************************)
(* Rio::readn (src/Rio.cpp) on a descriptor whose bytes arrive over time,  *)
(* called in a loop by HttpRequest::fillData (src/HttpRequest.cpp) for the *)
(* request on a socket and by baseHandle (src/HttpServer.cpp) for the      *)
(* output of a CGI program on a pipe.                                      *)
(*                                                                         *)
(* The byte the peer sends as its i-th is the number i, so that a misplaced *)
(* byte shows.  A read interrupted by a signal changes nothing and is      *)
(* tried again; it is a stuttering step.  A read error throws and the      *)
(* caller gets no bytes at all; see Fill of module HttpServer.             *)
(***************************************************************************)
EXTENDS Integers, Sequences

CONSTANTS
  N,         \* sizeof(buf) in the callers
  Total,     \* how many bytes the peer sends, if it is given the time
  Junk       \* a byte outside the buffer, or never written

ASSUME ReadnAssumption ==
  /\ N \in Nat \ {0}
  /\ Total \in Nat
  /\ Junk \notin Int

VARIABLES
  timesOut,   \* TRUE for a socket with SO_RCVTIMEO, FALSE for a pipe
  arrived,    \* bytes that reached the kernel
  eof,        \* the peer has closed its end
  taken,      \* bytes read from the kernel
  pc,         \* "call", "read", "return" or "done"
  leftCount,  \* local variable of readn
  buf,        \* the caller's buffer, kept from one call to the next
  fdBuf,      \* what the caller has put together
  early       \* bytes that had arrived when the caller began

vars == <<timesOut, arrived, eof, taken, pc, leftCount, buf, fdBuf, early>>

Available == arrived - taken

Init ==
  /\ timesOut \in BOOLEAN
  /\ arrived \in 0 .. Total
  /\ eof = FALSE
  /\ taken = 0
  /\ pc = "call"
  /\ leftCount = 0
  /\ buf = [i \in 1 .. N |-> Junk]
  /\ fdBuf = <<>>
  /\ early = arrived

(***************************************************************************)
(* The peer.                                                               *)
(***************************************************************************)
Arrive(k) ==
  /\ ~ eof
  /\ arrived + k <= Total
  /\ arrived' = arrived + k
  /\ UNCHANGED <<timesOut, eof, taken, pc, leftCount, buf, fdBuf, early>>

Finish ==
  /\ ~ eof
  /\ eof' = TRUE
  /\ UNCHANGED <<timesOut, arrived, taken, pc, leftCount, buf, fdBuf, early>>

(***************************************************************************)
(* readn, and the loop around it: "while (n == sizeof(buf))".              *)
(***************************************************************************)
Call ==
  /\ pc = "call"
  /\ pc' = "read"
  /\ leftCount' = N
  /\ UNCHANGED <<timesOut, arrived, eof, taken, buf, fdBuf, early>>

\* Mutation: a short read is taken for a full one.
ReadIgnoresCount ==
  /\ pc = "read"
  /\ Available > 0
  /\ buf' = [i \in 1 .. N |-> taken + i]
  /\ taken' = taken + N
  /\ leftCount' = leftCount - N
  /\ pc' = "return"
  /\ UNCHANGED <<timesOut, arrived, eof, fdBuf, early>>

\* Mutation: the loop also runs when leftCount is 0.
ReadOnceMore ==
  /\ pc = "read"
  /\ Available > 0
  /\ LET rc == IF Available < N THEN Available ELSE N IN
       /\ buf' = [i \in 1 .. N |-> IF i <= rc THEN taken + i ELSE buf[i]]
       /\ taken' = taken + rc
       /\ leftCount' = leftCount - rc
       /\ pc' = IF leftCount - rc >= 0 THEN "read" ELSE "return"
  /\ UNCHANGED <<timesOut, arrived, eof, fdBuf, early>>

\* read(fd, usrBuf, n): up to n bytes, not up to leftCount, and to the start
\* of the buffer, not to bufPtr.
Read ==
  /\ pc = "read"
  /\ Available > 0
  /\ LET rc == IF Available < N THEN Available ELSE N IN
       /\ buf' = [i \in 1 .. N |-> IF i <= rc THEN taken + i ELSE buf[i]]
       /\ taken' = taken + rc
       /\ leftCount' = leftCount - rc
       /\ pc' = IF leftCount - rc > 0 THEN "read" ELSE "return"
  /\ UNCHANGED <<timesOut, arrived, eof, fdBuf, early>>

\* End of file, or the receive timeout.
ReadNothing ==
  /\ pc = "read"
  /\ Available = 0
  /\ eof \/ timesOut
  /\ pc' = "return"
  /\ UNCHANGED <<timesOut, arrived, eof, taken, leftCount, buf, fdBuf, early>>

\* Mutation: one call only.
ReturnOnce ==
  /\ pc = "return"
  /\ fdBuf' = fdBuf \o [i \in 1 .. N - leftCount |-> IF i <= N THEN buf[i] ELSE Junk]
  /\ pc' = "done"
  /\ UNCHANGED <<timesOut, arrived, eof, taken, leftCount, buf, early>>

\* Mutation: the loop goes on after a short count.
ReturnForever ==
  /\ pc = "return"
  /\ fdBuf' = fdBuf \o [i \in 1 .. N - leftCount |-> IF i <= N THEN buf[i] ELSE Junk]
  /\ pc' = "call"
  /\ UNCHANGED <<timesOut, arrived, eof, taken, leftCount, buf, early>>

\* The return of n - leftCount and fdBuf += byteBuf(buf, n): a count above
\* sizeof(buf) copies what lies behind the buffer.
Return ==
  /\ pc = "return"
  /\ LET n == N - leftCount IN
       /\ fdBuf' = fdBuf \o [i \in 1 .. n |-> IF i <= N THEN buf[i] ELSE Junk]
       /\ pc' = IF n = N THEN "call" ELSE "done"
  /\ UNCHANGED <<timesOut, arrived, eof, taken, leftCount, buf, early>>

Reader == Call \/ Read \/ ReadNothing \/ Return
Next == Reader \/ Finish \/ \E k \in 1 .. Total : Arrive(k)

Spec == Init /\ [][Next]_vars

\* The reading thread is scheduled, and the writer of a pipe (a CGI program)
\* ends some day, which closes its end.
FairSpec == Spec /\ WF_vars(Reader) /\ WF_vars(~ timesOut /\ Finish)

-----------------------------------------------------------------------------
(***************************************************************************)
(* Properties                                                              *)
(***************************************************************************)
Bytes == 1 .. Total

\* The type invariant.
TypeOK ==
  /\ timesOut \in BOOLEAN
  /\ arrived \in 0 .. Total
  /\ eof \in BOOLEAN
  /\ taken \in 0 .. Total
  /\ pc \in {"call", "read", "return", "done"}
  /\ leftCount \in Int
  /\ buf \in [1 .. N -> Bytes \cup {Junk}]
  /\ fdBuf \in Seq(Bytes \cup {Junk})
  /\ early \in 0 .. Total

\* readn never returns as much as 2n: the last read starts with at least one
\* byte missing and takes n at most.  The callers' copy of that many bytes
\* stays within twice their buffer.
ReturnBelowTwiceN == pc \in {"read", "return"} => leftCount > - N /\ leftCount <= N

\* No byte is counted twice or forgotten: what the caller has put together is
\* as long as what was taken from the kernel, even when its bytes are wrong.
LengthIsTaken ==
  Len(fdBuf) = taken - (IF pc \in {"read", "return"} THEN N - leftCount ELSE 0)

\* The counts that readn returns, and that its callers copy by, are right:
\* bounded, and the number of the bytes read.
CountsExact == ReturnBelowTwiceN /\ LengthIsTaken

\* A message that had arrived as a whole before the caller began is read
\* intact, whatever its length (also a multiple of the buffer's).
WholeMessageIntact ==
  pc = "done" /\ early = Total => fdBuf = [i \in 1 .. Total |-> i]

\* readn "reads until n bytes are there or the end of file, and returns the
\* number of bytes read" (src/Rio.hpp:35): on return, that many bytes of the
\* buffer are those that were taken, in their order.
ReadnFillsBuffer ==
  pc = "return" =>
    LET n == N - leftCount IN
      n <= N /\ \A i \in 1 .. n : buf[i] = taken - n + i

\* The caller's loop ends: Total is finite, and a full buffer is followed by
\* a shorter one, if only an empty one.
LoopEnds == <>(pc = "done")

=============================================================================
