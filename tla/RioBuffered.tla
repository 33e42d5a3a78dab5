---------------------------- MODULE RioBuffered ----------------------------
(***************************************************************************)
(* The other ways class Rio reads (src/Rio.cpp): the buffered calls        *)
(* readnInBuf and readLineInBuf, both on top of rioRead, and               *)
(* limitTimeToRead.  They read the stream of RioReadn, whose i-th byte is  *)
(* the number i; a stream has one reader, of one of the three kinds.       *)
(*                                                                         *)
(* rioRead tries again for ever after a read that fails or times out: its  *)
(* loop runs while unreadCount <= 0, and only 0 returns.  Such a read is a *)
(* stuttering step here.  Arguments the calls refuse with an exception (a  *)
(* negative n, a line of less than two places) change nothing.             *)
(***************************************************************************)
EXTENDS RioReadn

CONSTANTS
  Newlines,   \* which bytes of the stream are '\n'
  Size,       \* sizeof(rio.buf)
  MaxLen,     \* bound on what a caller asks for
  Unset       \* no result yet

ASSUME BufferedAssumption ==
  /\ Newlines \subseteq Nat
  /\ Size \in Nat \ {0}
  /\ MaxLen \in Nat \ {0, 1}
  /\ Unset \notin Int

VARIABLES
  reader,   \* "readn", "buffered" or "limited"
  pulled,   \* bytes the buffered or limited reader has read from the kernel
  unread,   \* rio.buf from unreadPtr on; its length is unreadCount
  op,       \* the call in progress, or "none"
  asked,    \* its argument, n or maxLen
  count,    \* leftCount in readnInBuf, n in readLineInBuf
  out,      \* what it has stored
  ret,      \* what it returns, Unset before
  given     \* what the calls before it have returned

bufferVars == <<pulled, unread, op, asked, count, out, ret, given>>
allVars == <<vars, reader, bufferVars>>

BufferedInit ==
  /\ Init
  /\ reader \in {"readn", "buffered", "limited"}
  /\ reader # "readn" => timesOut
  /\ pulled = 0
  /\ unread = <<>>
  /\ op = "none"
  /\ asked = 0
  /\ count = 0
  /\ out = <<>>
  /\ ret = Unset
  /\ given = <<>>

InKernel == arrived - pulled
FromKernel(k) == [i \in 1 .. k |-> pulled + i]
Smaller(a, b) == IF a < b THEN a ELSE b
Running == op # "none" /\ ret = Unset

-----------------------------------------------------------------------------
\* The calls.
CallReadnInBuf(n) ==
  /\ op = "none"
  /\ op' = "readnInBuf"
  /\ asked' = n
  /\ count' = n
  /\ UNCHANGED <<pulled, unread, out, ret, given>>

CallReadLineInBuf(maxLen) ==
  /\ op = "none"
  /\ op' = "readLineInBuf"
  /\ asked' = maxLen
  /\ count' = 1
  /\ UNCHANGED <<pulled, unread, out, ret, given>>

\* The loops of the two calls go on.
Wants ==
  Running /\ IF op = "readnInBuf" THEN count > 0 ELSE count < asked

\* rioRead on an empty buffer.  Nothing to read blocks it, or makes read
\* fail and be called again.
Refill ==
  /\ Wants
  /\ unread = <<>>
  /\ InKernel > 0
  /\ LET rc == Smaller(InKernel, Size) IN
       /\ unread' = FromKernel(rc)
       /\ pulled' = pulled + rc
  /\ UNCHANGED <<op, asked, count, out, ret, given>>

EndOfFile == eof /\ InKernel = 0 /\ unread = <<>>

\* What the return statements compute.
Result == IF op = "readnInBuf" THEN asked - count ELSE count - 1

\* Mutation: the end of file is one more reason to read again.
AtEofAgain ==
  /\ Wants
  /\ EndOfFile
  /\ UNCHANGED bufferVars

\* rioRead returns 0 at the end of file: so do the calls, if they have
\* nothing yet.
AtEof ==
  /\ Wants
  /\ EndOfFile
  /\ ret' = Result
  /\ UNCHANGED <<pulled, unread, op, asked, count, out, given>>

\* rioRead copies what the buffer has, as far as it is wanted; leftCount.
CopyBytes ==
  /\ op = "readnInBuf" /\ Wants
  /\ unread # <<>>
  /\ LET k == Smaller(count, Len(unread)) IN
       /\ out' = out \o SubSeq(unread, 1, k)
       /\ unread' = SubSeq(unread, k + 1, Len(unread))
       /\ count' = count - k
  /\ UNCHANGED <<pulled, op, asked, ret, given>>

\* Mutation: what is left in the buffer behind the line is dropped.
CopyCharDrops ==
  /\ op = "readLineInBuf" /\ Wants
  /\ unread # <<>>
  /\ out' = Append(out, Head(unread))
  /\ count' = count + 1
  /\ IF Head(unread) \in Newlines
       THEN unread' = <<>> /\ ret' = count
       ELSE unread' = Tail(unread) /\ ret' = Unset
  /\ UNCHANGED <<pulled, op, asked, given>>

\* One character; '\n' ends the line (n++ and break).
CopyChar ==
  /\ op = "readLineInBuf" /\ Wants
  /\ unread # <<>>
  /\ out' = Append(out, Head(unread))
  /\ unread' = Tail(unread)
  /\ count' = count + 1
  /\ ret' = IF Head(unread) \in Newlines THEN count ELSE Unset
  /\ UNCHANGED <<pulled, op, asked, given>>

\* leftCount is 0, or the line is full.
Full ==
  /\ Running /\ ~ Wants
  /\ ret' = Result
  /\ UNCHANGED <<pulled, unread, op, asked, count, out, given>>

\* The caller takes the result: as many bytes as it was told.
Take ==
  /\ ret # Unset
  /\ op' = "none"
  /\ given' = given \o [i \in 1 .. ret |-> IF i <= Len(out) THEN out[i] ELSE Junk]
  /\ out' = <<>>
  /\ asked' = 0
  /\ count' = 0
  /\ ret' = Unset
  /\ UNCHANGED <<pulled, unread>>

\* limitTimeToRead: one read of at most n bytes if select finds some in
\* time; both the time limit and the end of file return 0.
LimitTimeToRead(n) ==
  /\ reader = "limited"
  /\ InKernel > 0
  /\ LET rc == Smaller(InKernel, n) IN
       /\ given' = given \o FromKernel(rc)
       /\ pulled' = pulled + rc
  /\ UNCHANGED <<unread, op, asked, count, out, ret>>

Step == Refill \/ AtEof \/ CopyBytes \/ CopyChar \/ Full \/ Take
Ask == \E n \in 0 .. MaxLen : CallReadnInBuf(n) \/ (n >= 2 /\ CallReadLineInBuf(n))

Peer == Finish \/ \E k \in 1 .. Total : Arrive(k)

BufferedNext ==
  \/ reader = "readn" /\ Reader /\ UNCHANGED <<reader, bufferVars>>
  \/ Peer /\ UNCHANGED <<reader, bufferVars>>
  \/ reader = "buffered" /\ (Ask \/ Step) /\ UNCHANGED <<vars, reader>>
  \/ (\E n \in 1 .. MaxLen : LimitTimeToRead(n)) /\ UNCHANGED <<vars, reader>>

BufferedSpec == BufferedInit /\ [][BufferedNext]_allVars

\* The reading thread is scheduled; whether it calls again is its own choice.
\* As in RioReadn only the writer of a pipe is sure to close its end.
BufferedFairSpec ==
  /\ BufferedSpec
  /\ WF_allVars(reader = "readn" /\ Reader /\ UNCHANGED <<reader, bufferVars>>)
  /\ WF_allVars(reader = "buffered" /\ Step /\ UNCHANGED <<vars, reader>>)
  /\ WF_allVars(~ timesOut /\ Finish /\ UNCHANGED <<reader, bufferVars>>)

-----------------------------------------------------------------------------
(***************************************************************************)
(* Properties                                                              *)
(***************************************************************************)

\* The type invariant, that of RioReadn included.
BufferedTypeOK ==
  /\ TypeOK
  /\ reader \in {"readn", "buffered", "limited"}
  /\ pulled \in 0 .. Total
  /\ unread \in Seq(Bytes) /\ Len(unread) <= Size
  /\ op \in {"none", "readnInBuf", "readLineInBuf"}
  /\ asked \in 0 .. MaxLen
  /\ count \in 0 .. MaxLen
  /\ out \in Seq(Bytes) /\ Len(out) <= MaxLen
  /\ ret \in (0 .. MaxLen) \cup {Unset}
  /\ given \in Seq(Bytes \cup {Junk})

\* Across any mixture of calls the bytes come out as the peer sent them: those
\* returned, then those of the call in progress, then those in the buffer are
\* the stream from its beginning on.  Unlike readn the calls lose and swap
\* nothing, also when a line is cut at its length or ends inside the buffer.
StreamInOrder == given \o out \o unread = [i \in 1 .. pulled |-> i]

\* A call returns the number of bytes it stored, and less than it was asked
\* for only at the end of the stream or of a line.
ShortHasReason ==
  ret # Unset =>
    /\ ret = Len(out)
    /\ op = "readnInBuf" => ret = asked \/ EndOfFile
    /\ op = "readLineInBuf" =>
         /\ \A i \in 1 .. ret - 1 : out[i] \notin Newlines
         /\ \/ ret = asked - 1
            \/ EndOfFile
            \/ ret > 0 /\ out[ret] \in Newlines

\* What the buffered calls promise of their results (src/Rio.hpp:46-50).
BufferedCallsExact == StreamInOrder /\ ShortHasReason

\* The peer has sent nothing more and not closed.
Silent == Wants /\ unread = <<>> /\ InKernel = 0 /\ ~ eof

\* The loop around readn ends, and a buffered call ends unless its peer stays
\* silent: a time limit on the socket does not end it, the end of the stream
\* does.
CallsEnd ==
  /\ reader = "readn" => LoopEnds
  /\ [](Running => <>(~ Running \/ Silent))

=============================================================================
