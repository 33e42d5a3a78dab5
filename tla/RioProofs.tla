----------------------------- MODULE RioProofs -----------------------------
(***************************************************************************)
(* Proofs about RioReadn, for every size of the buffer and every length of *)
(* the message, and about RioBuffered, for every stream and its line ends, *)
(* every size of the buffer and every argument of the calls.               *)
(***************************************************************************)
EXTENDS RioBuffered, SequenceTheorems, TLAPS

-----------------------------------------------------------------------------
(***************************************************************************)
(* The inductive invariant.                                                *)
(***************************************************************************)

\* What the calls of read in this call of readn have returned together.
Counted == N - leftCount

Counts ==
  /\ early <= arrived /\ taken <= arrived
  /\ pc = "read" => leftCount \in 1 .. N
  /\ pc = "return" => leftCount \in 1 - N .. N
  /\ LengthIsTaken

\* When the whole message is there no call of read is followed by another one
\* that finds something, so that no piece overwrites another.
Whole ==
  early = Total =>
    /\ \A i \in 1 .. Len(fdBuf) : fdBuf[i] = i
    /\ pc \in {"read", "return"} =>
         Counted <= N /\ \A i \in 1 .. Counted : buf[i] = Len(fdBuf) + i
    /\ pc = "read" => leftCount = N \/ taken = Total
    /\ pc = "return" => leftCount = 0 \/ taken = Total
    /\ pc = "done" => taken = Total

ReadnInv == TypeOK /\ Counts /\ Whole

-----------------------------------------------------------------------------
\* What a call returns: the count, and Junk for what lies behind the buffer.
Copied == [i \in 1 .. Counted |-> IF i <= N THEN buf[i] ELSE Junk]

LEMMA CopiedSeq ==
  ASSUME TypeOK, Counts, pc = "return"
  PROVE  /\ Copied \in Seq(Bytes \cup {Junk}) /\ Len(Copied) = Counted
         /\ fdBuf \o Copied \in Seq(Bytes \cup {Junk})
         /\ Len(fdBuf \o Copied) = Len(fdBuf) + Counted
         /\ \A i \in 1 .. Len(fdBuf) + Counted :
              (fdBuf \o Copied)[i] =
                IF i <= Len(fdBuf) THEN fdBuf[i] ELSE Copied[i - Len(fdBuf)]
<1>1. Counted \in Nat
  BY ReadnAssumption DEF Counts, Counted
<1>2. \A i \in 1 .. Counted : (IF i <= N THEN buf[i] ELSE Junk) \in Bytes \cup {Junk}
  BY <1>1, ReadnAssumption DEF TypeOK
<1>3. Copied \in [1 .. Counted -> Bytes \cup {Junk}]
  BY <1>2 DEF Copied
<1>4. Copied \in Seq(Bytes \cup {Junk}) /\ Len(Copied) = Counted
  BY <1>1, <1>3
<1>5. fdBuf \in Seq(Bytes \cup {Junk})
  BY DEF TypeOK
<1>6. QED
  BY <1>4, <1>5, ConcatProperties

LEMMA InitInv == Init => ReadnInv
<1>1. SUFFICES ASSUME Init PROVE ReadnInv
  OBVIOUS
<1>2. fdBuf \in Seq(Bytes \cup {Junk}) /\ Len(fdBuf) = 0
  BY <1>1, EmptySeq DEF Init
<1>3. /\ arrived \in 0 .. Total /\ early = arrived /\ taken = 0
      /\ pc = "call" /\ leftCount = 0
  BY <1>1 DEF Init
<1>4. TypeOK
  <2>1. timesOut \in BOOLEAN /\ eof \in BOOLEAN
    BY <1>1 DEF Init
  <2>2. buf \in [1 .. N -> Bytes \cup {Junk}]
    BY <1>1 DEF Init
  <2>3. /\ arrived \in 0 .. Total /\ taken \in 0 .. Total /\ early \in 0 .. Total
        /\ leftCount \in Int
    BY <1>3, ReadnAssumption
  <2>4. pc \in {"call", "read", "return", "done"}
    BY <1>3
  <2>5. QED
    BY <1>2, <2>1, <2>2, <2>3, <2>4 DEF TypeOK
<1>5. Counts
  <2>1. early <= arrived /\ taken <= arrived
    BY <1>3, ReadnAssumption
  <2>2. LengthIsTaken
    BY <1>2, <1>3 DEF LengthIsTaken
  <2>3. QED
    BY <1>3, <2>1, <2>2 DEF Counts
<1>6. Whole
  BY <1>2, <1>3 DEF Whole
<1>7. QED
  BY <1>4, <1>5, <1>6 DEF ReadnInv

-----------------------------------------------------------------------------
(***************************************************************************)
(* Each action keeps the invariant.                                        *)
(***************************************************************************)
LEMMA ArriveKeeps ==
  ASSUME ReadnInv, NEW k \in 1 .. Total, Arrive(k)
  PROVE  ReadnInv'
<1>1. TypeOK'
  BY ReadnAssumption DEF ReadnInv, TypeOK, Arrive
<1>2. Counts'
  BY ReadnAssumption DEF ReadnInv, TypeOK, Counts, LengthIsTaken, Arrive
<1>3. Whole'
  BY DEF ReadnInv, Whole, Counted, Arrive
<1>4. QED
  BY <1>1, <1>2, <1>3 DEF ReadnInv

LEMMA FinishKeeps ==
  ASSUME ReadnInv, Finish
  PROVE  ReadnInv'
BY DEF ReadnInv, TypeOK, Counts, LengthIsTaken, Whole, Counted, Finish

LEMMA CallKeeps ==
  ASSUME ReadnInv, Call
  PROVE  ReadnInv'
<1>1. TypeOK'
  BY ReadnAssumption DEF ReadnInv, TypeOK, Call
<1>2. Counts'
  BY ReadnAssumption DEF ReadnInv, TypeOK, Counts, LengthIsTaken, Call
<1>3. Whole'
  BY ReadnAssumption DEF ReadnInv, TypeOK, Whole, Counted, Call
<1>4. QED
  BY <1>1, <1>2, <1>3 DEF ReadnInv

LEMMA ReadKeeps ==
  ASSUME ReadnInv, Read
  PROVE  ReadnInv'
<1> DEFINE rc == IF Available < N THEN Available ELSE N
<1>1. /\ pc = "read" /\ Available > 0
      /\ buf' = [i \in 1 .. N |-> IF i <= rc THEN taken + i ELSE buf[i]]
      /\ taken' = taken + rc
      /\ leftCount' = leftCount - rc
      /\ pc' = IF leftCount - rc > 0 THEN "read" ELSE "return"
      /\ UNCHANGED <<timesOut, arrived, eof, fdBuf, early>>
  BY DEF Read
<1>2. /\ N \in Nat \ {0} /\ Total \in Nat
      /\ arrived \in 0 .. Total /\ taken \in 0 .. Total /\ taken <= arrived
      /\ leftCount \in 1 .. N
  BY <1>1, ReadnAssumption DEF ReadnInv, TypeOK, Counts
<1>3. rc \in 1 .. N /\ taken + rc <= arrived /\ (rc < N => taken + rc = arrived)
  BY <1>1, <1>2 DEF Available
<1> HIDE DEF rc
<1>4. TypeOK'
  <2>1. buf' \in [1 .. N -> Bytes \cup {Junk}]
    BY <1>1, <1>2, <1>3 DEF ReadnInv, TypeOK, Bytes
  <2>2. taken' \in 0 .. Total /\ leftCount' \in Int /\ pc' \in {"read", "return"}
    BY <1>1, <1>2, <1>3
  <2>3. QED
    BY <1>1, <2>1, <2>2 DEF ReadnInv, TypeOK
<1>5. Counts'
  <2>1. Len(fdBuf) = taken - (N - leftCount) /\ early <= arrived
    BY <1>1 DEF ReadnInv, Counts, LengthIsTaken
  <2>2. pc' \in {"read", "return"}
    BY <1>1
  <2>3. (N - leftCount)' = N - leftCount + rc
    BY <1>1, <1>2, <1>3
  <2>4. LengthIsTaken'
    BY <1>1, <1>2, <1>3, <2>1, <2>2, <2>3 DEF LengthIsTaken
  <2>5. QED
    BY <1>1, <1>2, <1>3, <2>1, <2>4 DEF Counts
<1>6. Whole'
  <2>1. SUFFICES ASSUME early = Total PROVE Whole'
    BY <1>1 DEF Whole
  <2>2. arrived = Total
    BY <1>2, <2>1 DEF ReadnInv, Counts
  <2>3. leftCount = N
    BY <1>1, <1>2, <2>1, <2>2 DEF ReadnInv, Whole, Available
  <2>4. Len(fdBuf) = taken
    BY <1>1, <1>2, <2>3 DEF ReadnInv, Counts, LengthIsTaken
  <2>5. Counted' = rc
    BY <1>1, <1>2, <1>3, <2>3 DEF Counted
  <2>6. \A i \in 1 .. rc : buf'[i] = Len(fdBuf) + i
    BY <1>1, <1>2, <1>3, <2>4
  <2>7. leftCount' = 0 \/ taken' = Total
    BY <1>1, <1>2, <1>3, <2>2, <2>3
  <2>8. pc' = "read" => taken' = Total
    BY <1>1, <1>2, <1>3, <2>2, <2>3
  <2>9. \A i \in 1 .. Len(fdBuf) : fdBuf[i] = i
    BY <2>1 DEF ReadnInv, Whole
  <2>10. pc' # "done" /\ fdBuf' = fdBuf
    BY <1>1
  <2>11. Counted' <= N /\ \A i \in 1 .. Counted' : buf'[i] = Len(fdBuf') + i
    <3>1. Counted' <= N
      BY <1>2, <1>3, <2>5
    <3>2. \A i \in 1 .. Counted' : buf'[i] = Len(fdBuf) + i
      BY <2>5, <2>6
    <3>3. QED
      BY <2>10, <3>1, <3>2
  <2>12. QED
    BY <2>7, <2>8, <2>9, <2>10, <2>11 DEF Whole
<1>7. QED
  BY <1>4, <1>5, <1>6 DEF ReadnInv

LEMMA ReadNothingKeeps ==
  ASSUME ReadnInv, ReadNothing
  PROVE  ReadnInv'
<1>1. TypeOK'
  BY DEF ReadnInv, TypeOK, ReadNothing
<1>2. Counts'
  BY ReadnAssumption DEF ReadnInv, TypeOK, Counts, LengthIsTaken, ReadNothing
<1>3. Whole'
  BY ReadnAssumption DEF ReadnInv, TypeOK, Counts, Whole, Counted, Available, ReadNothing
<1>4. QED
  BY <1>1, <1>2, <1>3 DEF ReadnInv

LEMMA ReturnKeeps ==
  ASSUME ReadnInv, Return
  PROVE  ReadnInv'
<1>1. /\ pc = "return"
      /\ fdBuf' = fdBuf \o Copied
      /\ pc' = IF Counted = N THEN "call" ELSE "done"
      /\ UNCHANGED <<timesOut, arrived, eof, taken, leftCount, buf, early>>
  BY DEF Return, Copied, Counted
<1>2. /\ fdBuf' \in Seq(Bytes \cup {Junk})
      /\ Len(fdBuf') = Len(fdBuf) + Counted
      /\ \A i \in 1 .. Len(fdBuf) + Counted :
           fdBuf'[i] = IF i <= Len(fdBuf) THEN fdBuf[i] ELSE Copied[i - Len(fdBuf)]
  BY <1>1, CopiedSeq DEF ReadnInv
<1>3. N \in Nat \ {0} /\ leftCount \in 1 - N .. N /\ taken \in Nat /\ Len(fdBuf) \in Nat
  BY <1>1, ReadnAssumption DEF ReadnInv, TypeOK, Counts
<1>4. TypeOK'
  BY <1>1, <1>2 DEF ReadnInv, TypeOK
<1>5. Counts'
  <2>1. Len(fdBuf) = taken - Counted
    BY <1>1 DEF ReadnInv, Counts, LengthIsTaken, Counted
  <2>2. Len(fdBuf)' = taken'
    BY <1>1, <1>2, <1>3, <2>1 DEF Counted
  <2>3. LengthIsTaken'
    BY <1>1, <1>3, <2>2 DEF LengthIsTaken
  <2>4. QED
    BY <1>1, <2>3 DEF ReadnInv, Counts
<1>6. Whole'
  <2>1. SUFFICES ASSUME early = Total PROVE Whole'
    BY <1>1 DEF Whole
  <2>2. /\ Counted <= N /\ \A i \in 1 .. Counted : buf[i] = Len(fdBuf) + i
        /\ leftCount = 0 \/ taken = Total
        /\ \A i \in 1 .. Len(fdBuf) : fdBuf[i] = i
    BY <1>1, <2>1 DEF ReadnInv, Whole
  <2>3. ASSUME NEW i \in 1 .. Len(fdBuf')
        PROVE  fdBuf'[i] = i
    <3>1. CASE i <= Len(fdBuf)
      BY <1>2, <1>3, <2>2, <3>1 DEF Counted
    <3>2. CASE i > Len(fdBuf)
      <4>1. i - Len(fdBuf) \in 1 .. Counted
        BY <1>2, <1>3, <3>2 DEF Counted
      <4>2. Copied[i - Len(fdBuf)] = i
        BY <1>3, <2>2, <4>1 DEF Copied, Counted
      <4>3. QED
        BY <1>2, <1>3, <3>2, <4>2 DEF Counted
    <3>3. QED
      BY <1>3, <3>1, <3>2
  <2>4. pc' = "done" => taken' = Total
    BY <1>1, <1>3, <2>2 DEF Counted
  <2>5. QED
    BY <1>1, <2>3, <2>4 DEF Whole
<1>7. QED
  BY <1>4, <1>5, <1>6 DEF ReadnInv

LEMMA NextKeeps == ReadnInv /\ [Next]_vars => ReadnInv'
<1>1. ASSUME ReadnInv, UNCHANGED vars PROVE ReadnInv'
  BY <1>1 DEF ReadnInv, TypeOK, Counts, LengthIsTaken, Whole, Counted, vars
<1>2. ASSUME ReadnInv, Next PROVE ReadnInv'
  BY <1>2, ArriveKeeps, FinishKeeps, CallKeeps, ReadKeeps, ReadNothingKeeps, ReturnKeeps
     DEF Next, Reader
<1>3. QED
  BY <1>1, <1>2

LEMMA InvHolds == Spec => []ReadnInv
BY InitInv, NextKeeps, PTL DEF Spec

-----------------------------------------------------------------------------
(***************************************************************************)
(* The theorems.                                                           *)
(***************************************************************************)

\* The type invariant.
THEOREM TypeCorrect == Spec => []TypeOK
<1>1. ReadnInv => TypeOK
  BY DEF ReadnInv
<1>2. QED
  BY <1>1, InvHolds, PTL

\* readn returns less than twice the size of the buffer it was given, and the
\* callers put together as many bytes as were taken from the kernel.
THEOREM CountsRight == Spec => []CountsExact
<1>1. ReadnInv => ReturnBelowTwiceN
  BY ReadnAssumption DEF ReadnInv, Counts, ReturnBelowTwiceN
<1>2. ReadnInv => LengthIsTaken
  BY DEF ReadnInv, Counts
<1>3. QED
  BY <1>1, <1>2, InvHolds, PTL DEF CountsExact

\* A message that is there when the caller begins is read intact.
THEOREM WholeIntact == Spec => []WholeMessageIntact
<1>1. ASSUME ReadnInv, pc = "done", early = Total
      PROVE  fdBuf = [i \in 1 .. Total |-> i]
  <2>1. Len(fdBuf) = Total /\ \A i \in 1 .. Len(fdBuf) : fdBuf[i] = i
    BY <1>1 DEF ReadnInv, TypeOK, Counts, LengthIsTaken, Whole
  <2>2. fdBuf \in Seq(Bytes \cup {Junk})
    BY <1>1 DEF ReadnInv, TypeOK
  <2>3. QED
    BY <2>1, <2>2
<1>2. ReadnInv => WholeMessageIntact
  BY <1>1 DEF WholeMessageIntact
<1>3. QED
  BY <1>2, InvHolds, PTL

-----------------------------------------------------------------------------
(***************************************************************************)
(* How long the loop around readn can last: each of its steps brings the   *)
(* end nearer, and no step of the peer puts it off.                        *)
(***************************************************************************)
AfterStage ==
  CASE pc = "call" -> 3
    [] pc = "read" -> 2
    [] pc = "return" -> (IF leftCount = 0 THEN 4 ELSE 1)
    [] OTHER -> 0

StepsLeft == 5 * (Total - taken) + AfterStage

LEMMA StageIs ==
  ASSUME TypeOK
  PROVE  /\ pc = "call" => AfterStage = 3
         /\ pc = "read" => AfterStage = 2
         /\ pc = "return" => AfterStage = IF leftCount = 0 THEN 4 ELSE 1
         /\ pc = "done" => AfterStage = 0
         /\ AfterStage \in 0 .. 4
BY DEF AfterStage, TypeOK

LEMMA NextStageIs ==
  TypeOK' =>
    /\ pc' = "call" => AfterStage' = 3
    /\ pc' = "read" => AfterStage' = 2
    /\ pc' = "return" => AfterStage' = IF leftCount' = 0 THEN 4 ELSE 1
    /\ pc' = "done" => AfterStage' = 0
    /\ AfterStage' \in 0 .. 4
BY DEF AfterStage, TypeOK

LEMMA StepsLeftBound == ASSUME TypeOK PROVE StepsLeft \in 0 .. 5 * Total + 4
<1>1. AfterStage \in 0 .. 4 /\ taken \in 0 .. Total /\ Total \in Nat
  BY StageIs, ReadnAssumption DEF TypeOK
<1>2. QED
  BY <1>1 DEF StepsLeft

LEMMA FewerLeft ==
  ASSUME NEW total \in Nat, NEW t \in 0 .. total, NEW u \in 0 .. total,
         NEW a \in 0 .. 4, NEW b \in 0 .. 4,
         (u = t /\ b < a) \/ (u > t /\ a = 2)
  PROVE  5 * (total - u) + b < 5 * (total - t) + a
OBVIOUS

LEMMA ReaderShortens ==
  ASSUME ReadnInv, ReadnInv', Reader
  PROVE  StepsLeft' < StepsLeft
<1>0. /\ TypeOK /\ TypeOK' /\ N \in Nat \ {0} /\ Total \in Nat
      /\ taken \in 0 .. Total /\ taken' \in 0 .. Total /\ leftCount \in Int
      /\ AfterStage \in 0 .. 4 /\ AfterStage' \in 0 .. 4
  BY StageIs, NextStageIs, ReadnAssumption DEF ReadnInv, TypeOK
<1>1. CASE Call
  <2>1. AfterStage = 3 /\ AfterStage' = 2 /\ taken' = taken
    BY <1>0, <1>1, StageIs, NextStageIs DEF Call
  <2>2. QED
    BY <1>0, <2>1, FewerLeft DEF StepsLeft
<1>2. CASE Read
  <2>1. AfterStage = 2 /\ Available > 0
    BY <1>0, <1>2, StageIs DEF Read
  <2>2. taken' > taken
    <3>1. arrived \in Nat
      BY <1>0, ReadnAssumption DEF TypeOK
    <3>2. taken' = taken + (IF Available < N THEN Available ELSE N)
      BY <1>2 DEF Read
    <3>3. QED
      BY <1>0, <2>1, <3>1, <3>2 DEF Available
  <2>3. QED
    BY <1>0, <2>1, <2>2, FewerLeft DEF StepsLeft
<1>3. CASE ReadNothing
  <2>1. leftCount' # 0
    BY <1>0, <1>3 DEF ReadNothing, ReadnInv, Counts
  <2>2. AfterStage = 2 /\ AfterStage' = 1 /\ taken' = taken
    BY <1>0, <1>3, <2>1, StageIs, NextStageIs DEF ReadNothing
  <2>3. QED
    BY <1>0, <2>2, FewerLeft DEF StepsLeft
<1>4. CASE Return
  <2>1. /\ pc = "return" /\ taken' = taken
        /\ pc' = IF N - leftCount = N THEN "call" ELSE "done"
    BY <1>4 DEF Return
  <2>2. AfterStage' < AfterStage
    BY <1>0, <2>1, StageIs, NextStageIs
  <2>3. QED
    BY <1>0, <2>1, <2>2, FewerLeft DEF StepsLeft
<1>5. QED
  BY <1>1, <1>2, <1>3, <1>4 DEF Reader

\* Whatever the peer sends, and however it is cut into pieces, the loop around
\* readn makes at most 5 * Total + 4 steps: with each one there are fewer left,
\* and the peer's do not add any.  So it can only fail to end by waiting (the
\* part of CallsEnd that needs no fairness).
THEOREM LoopIsFinite ==
  Spec => /\ [](StepsLeft \in 0 .. 5 * Total + 4)
          /\ [][IF Reader THEN StepsLeft' < StepsLeft ELSE StepsLeft' = StepsLeft]_vars
<1>1. ReadnInv => StepsLeft \in 0 .. 5 * Total + 4
  BY StepsLeftBound DEF ReadnInv
<1>2. ASSUME ReadnInv, ReadnInv', [Next]_vars
      PROVE  [IF Reader THEN StepsLeft' < StepsLeft ELSE StepsLeft' = StepsLeft]_vars
  <2>1. CASE Reader
    BY <1>2, <2>1, ReaderShortens
  <2>2. CASE ~ Reader /\ Next
    BY <2>2 DEF Next, Arrive, Finish, StepsLeft, AfterStage
  <2>3. QED
    BY <1>2, <2>1, <2>2
<1>3. QED
  BY <1>1, <1>2, InvHolds, PTL DEF Spec

-----------------------------------------------------------------------------
(***************************************************************************)
(* The stream is that of RioReadn: the other calls do not touch the state  *)
(* of readn, so what was shown so far holds here too.                      *)
(***************************************************************************)
LEMMA StepIsReadnStep == BufferedNext => [Next]_vars
BY DEF BufferedNext, Next, Peer, LimitTimeToRead

\* With either kind of reader the variables of readn behave as RioReadn says.
THEOREM BufferedIsReadn == BufferedSpec => Spec
<1>1. BufferedInit => Init
  BY DEF BufferedInit
<1>2. [BufferedNext]_allVars => [Next]_vars
  BY StepIsReadnStep DEF allVars
<1>3. QED
  BY <1>1, <1>2, PTL DEF BufferedSpec, Spec

-----------------------------------------------------------------------------
(***************************************************************************)
(* Sequences.                                                              *)
(***************************************************************************)
Data == Bytes \cup {Junk}
Stream(n) == [i \in 1 .. n |-> i]

LEMMA InData ==
  ASSUME NEW s \in Seq(Bytes)
  PROVE  s \in Seq(Data)
BY SeqMonotonic DEF Data

\* The next bytes of the stream are appended to it.
LEMMA StreamGrows ==
  ASSUME pulled \in Nat, NEW k \in Nat
  PROVE  Stream(pulled) \o FromKernel(k) = Stream(pulled + k)
<1> DEFINE n == pulled
           next == FromKernel(k)
<1>1. Stream(n) \in Seq(Int) /\ Len(Stream(n)) = n
  BY DEF Stream
<1>2. next \in Seq(Int) /\ Len(next) = k
  BY DEF FromKernel
<1>3. Stream(n + k) \in Seq(Int) /\ Len(Stream(n + k)) = n + k
  BY DEF Stream
<1>4. /\ Stream(n) \o next \in Seq(Int)
      /\ Len(Stream(n) \o next) = n + k
      /\ \A i \in 1 .. n + k :
           (Stream(n) \o next)[i] = IF i <= n THEN Stream(n)[i] ELSE next[i - n]
  <2> HIDE DEF next
  <2>1. Stream(n) \in Seq(Int) /\ next \in Seq(Int)
    BY <1>1, <1>2
  <2>2. /\ Stream(n) \o next \in Seq(Int)
        /\ Len(Stream(n) \o next) = Len(Stream(n)) + Len(next)
        /\ \A i \in 1 .. Len(Stream(n)) + Len(next) : (Stream(n) \o next)[i] =
             IF i <= Len(Stream(n)) THEN Stream(n)[i] ELSE next[i - Len(Stream(n))]
    BY <2>1, ConcatProperties
  <2>3. QED
    BY <1>1, <1>2, <2>2
<1>5. \A i \in 1 .. n + k : (Stream(n) \o next)[i] = Stream(n + k)[i]
  <2>1. \A i \in 1 .. n + k : i > n => i - n \in 1 .. k
    OBVIOUS
  <2>2. QED
    BY <1>4, <2>1 DEF Stream, FromKernel
<1>6. QED
  BY <1>3, <1>4, <1>5, SeqEqual

\* A sequence falls into its beginning and the rest.
LEMMA Divided ==
  ASSUME NEW S, NEW s \in Seq(S), NEW k \in 0 .. Len(s)
  PROVE  /\ SubSeq(s, 1, k) \in Seq(S) /\ Len(SubSeq(s, 1, k)) = k
         /\ SubSeq(s, k + 1, Len(s)) \in Seq(S)
         /\ Len(SubSeq(s, k + 1, Len(s))) = Len(s) - k
         /\ SubSeq(s, 1, k) \o SubSeq(s, k + 1, Len(s)) = s
<1>1. SubSeq(s, 1, k) \in Seq(S) /\ Len(SubSeq(s, 1, k)) = k
  <2>1. \A i \in 1 .. k : s[i] \in S
    OBVIOUS
  <2>2. QED
    BY <2>1, SubSeqProperties
<1>2. SubSeq(s, k + 1, Len(s)) \in Seq(S) /\ Len(SubSeq(s, k + 1, Len(s))) = Len(s) - k
  <2>1. \A i \in k + 1 .. Len(s) : s[i] \in S
    OBVIOUS
  <2>2. QED
    BY <2>1, SubSeqProperties
<1>3. SubSeq(s, 1, k) \o SubSeq(s, k + 1, Len(s)) = SubSeq(s, 1, Len(s))
  <2>1. 1 \in 1 .. Len(s) + 1 /\ k \in 1 - 1 .. Len(s) /\ Len(s) \in k .. Len(s)
    OBVIOUS
  <2>2. QED
    BY <2>1, ConcatAdjacentSubSeq
<1>4. QED
  BY <1>1, <1>2, <1>3, SubSeqFull

LEMMA HeadAndTail ==
  ASSUME NEW S, NEW s \in Seq(S), s # <<>>
  PROVE  /\ Head(s) \in S /\ <<Head(s)>> \in Seq(S)
         /\ Tail(s) \in Seq(S) /\ Len(Tail(s)) = Len(s) - 1
         /\ <<Head(s)>> \o Tail(s) = s
<1>1. Head(s) \in S /\ Head(s) = s[1] /\ Len(s) \in Nat \ {0}
  OBVIOUS
<1>2. Tail(s) \in Seq(S) /\ Len(Tail(s)) = Len(s) - 1
  BY HeadTailProperties
<1>3. <<Head(s)>> \in Seq(S)
  BY <1>1
<1>4. SubSeq(s, 1, Len(s)) = <<s[1]>> \o SubSeq(s, 2, Len(s))
  <2>1. 1 \in 1 .. Len(s) /\ Len(s) \in 1 .. Len(s) /\ 1 + 1 = 2
    BY <1>1
  <2>2. QED
    BY <2>1, SubSeqRecursiveFirst
<1>5. QED
  BY <1>1, <1>2, <1>3, <1>4, SubSeqFull, TailIsSubSeq

\* A piece moves from one place to another one.
LEMMA Regrouped ==
  ASSUME NEW S, NEW a \in Seq(S), NEW b \in Seq(S), NEW c \in Seq(S), NEW d \in Seq(S)
  PROVE  (a \o (b \o c)) \o d = (a \o b) \o (c \o d)
<1>1. a \o b \in Seq(S) /\ b \o c \in Seq(S)
  BY ConcatProperties
<1>2. (a \o b) \o c = a \o (b \o c)
  BY ConcatAssociative, SMTT(60)
<1>3. ((a \o b) \o c) \o d = (a \o b) \o (c \o d)
  BY <1>1, ConcatAssociative, SMTT(60)
<1>4. QED
  BY <1>2, <1>3

-----------------------------------------------------------------------------
(***************************************************************************)
(* The inductive invariant.                                                *)
(***************************************************************************)

\* Only the buffered reader makes buffered calls.
Idle == reader # "buffered" => op = "none" /\ unread = <<>>

\* How count and out go together during a call.
InCall ==
  /\ op = "none" => out = <<>> /\ ret = Unset
  /\ op = "readnInBuf" => count <= asked /\ Len(out) = asked - count
  /\ op = "readLineInBuf" =>
       /\ asked >= 2
       /\ ret = Unset =>
            /\ count \in 1 .. asked
            /\ Len(out) = count - 1
            /\ \A i \in 1 .. Len(out) : out[i] \notin Newlines

BufferedInv ==
  /\ ReadnInv
  /\ BufferedTypeOK
  /\ pulled <= arrived
  /\ Idle
  /\ InCall
  /\ BufferedCallsExact

LEMMA Sequences ==
  ASSUME BufferedInv
  PROVE  /\ given \in Seq(Data) /\ out \in Seq(Data) /\ unread \in Seq(Data)
         /\ out \in Seq(Bytes) /\ unread \in Seq(Bytes)
         /\ Len(out) \in Nat /\ Len(unread) \in Nat
         /\ given \o out \in Seq(Data)
         /\ arrived \in 0 .. Total /\ pulled \in 0 .. arrived /\ Total \in Nat
<1>1. given \in Seq(Data) /\ out \in Seq(Bytes) /\ unread \in Seq(Bytes)
  BY DEF BufferedInv, BufferedTypeOK, Data
<1>2. out \in Seq(Data) /\ unread \in Seq(Data)
  BY <1>1, InData
<1>3. Len(out) \in Nat /\ Len(unread) \in Nat
  BY <1>1
<1>4. given \o out \in Seq(Data)
  BY <1>1, <1>2, ConcatProperties
<1>5. arrived \in 0 .. Total /\ pulled \in 0 .. arrived /\ Total \in Nat
  BY ReadnAssumption DEF BufferedInv, BufferedTypeOK, TypeOK
<1>6. QED
  BY <1>1, <1>2, <1>3, <1>4, <1>5

LEMMA FromKernelIs ==
  ASSUME BufferedInv, NEW k \in 0 .. arrived - pulled
  PROVE  FromKernel(k) \in Seq(Bytes) /\ FromKernel(k) \in Seq(Data) /\ Len(FromKernel(k)) = k
<1>1. arrived \in 0 .. Total /\ pulled \in 0 .. arrived /\ Total \in Nat /\ k \in Nat
  BY Sequences
<1>2. \A i \in 1 .. k : pulled + i \in Bytes
  BY <1>1 DEF Bytes
<1>3. FromKernel(k) \in Seq(Bytes) /\ Len(FromKernel(k)) = k
  BY <1>1, <1>2 DEF FromKernel
<1>4. QED
  BY <1>3, InData

LEMMA InitBuffered == BufferedInit => BufferedInv
<1>1. SUFFICES ASSUME BufferedInit PROVE BufferedInv
  OBVIOUS
<1>2. ReadnInv
  BY <1>1, InitInv DEF BufferedInit
<1>3. Len(<<>>) = 0 /\ <<>> \in Seq(Bytes) /\ <<>> \in Seq(Data)
  OBVIOUS
<1>4. BufferedTypeOK
  BY <1>1, <1>2, <1>3, ReadnAssumption, BufferedAssumption
     DEF BufferedInit, BufferedTypeOK, ReadnInv, Data
<1>5. pulled <= arrived /\ Idle /\ InCall
  BY <1>1, <1>2, ReadnAssumption DEF BufferedInit, ReadnInv, TypeOK, Idle, InCall
<1>6. BufferedCallsExact
  <2>1. <<>> \o <<>> \o <<>> = [i \in 1 .. 0 |-> i]
    <3>1. <<>> \o <<>> = <<>>
      BY <1>3, ConcatEmptySeq
    <3>2. [i \in 1 .. 0 |-> i] = <<>>
      OBVIOUS
    <3>3. QED
      BY <3>1, <3>2
  <2>2. QED
    BY <1>1, <2>1 DEF BufferedInit, BufferedCallsExact, StreamInOrder, ShortHasReason
<1>7. QED
  BY <1>2, <1>4, <1>5, <1>6 DEF BufferedInv

-----------------------------------------------------------------------------
(***************************************************************************)
(* The other reader, and the peer.                                         *)
(***************************************************************************)
LEMMA OthersKeep ==
  ASSUME BufferedInv, ReadnInv', reader = "readn", Reader, UNCHANGED <<reader, bufferVars>>
  PROVE  BufferedInv'
<1>1. UNCHANGED <<arrived, eof>>
  BY DEF Reader, Call, Read, ReadNothing, Return
<1>2. BufferedTypeOK' /\ (pulled <= arrived)' /\ Idle'
  BY <1>1 DEF BufferedInv, ReadnInv, BufferedTypeOK, Idle, bufferVars
<1>3. InCall' /\ BufferedCallsExact'
  BY <1>1 DEF BufferedInv, InCall, BufferedCallsExact, StreamInOrder, ShortHasReason,
              EndOfFile, InKernel, bufferVars
<1>4. QED
  BY <1>2, <1>3 DEF BufferedInv

\* A peer that has closed its end sends nothing more.
LEMMA PeerKeeps ==
  ASSUME BufferedInv, ReadnInv', Peer, UNCHANGED <<reader, bufferVars>>
  PROVE  BufferedInv'
<1>1. ~ eof /\ arrived' >= arrived
  BY Sequences DEF Peer, Finish, Arrive
<1>2. BufferedTypeOK' /\ Idle'
  BY DEF BufferedInv, ReadnInv, BufferedTypeOK, Idle, bufferVars
<1>3. (pulled <= arrived)'
  BY <1>1, Sequences DEF ReadnInv, TypeOK, bufferVars
<1>4. InCall' /\ BufferedCallsExact'
  BY <1>1 DEF BufferedInv, InCall, BufferedCallsExact, StreamInOrder, ShortHasReason,
              EndOfFile, bufferVars
<1>5. QED
  BY <1>2, <1>3, <1>4 DEF BufferedInv

-----------------------------------------------------------------------------
(***************************************************************************)
(* Calls, and the reads from the kernel.                                   *)
(***************************************************************************)
Untouched == reader = "buffered" /\ UNCHANGED <<vars, reader>>

LEMMA CallsKeep ==
  ASSUME BufferedInv, ReadnInv', Untouched, NEW n \in 0 .. MaxLen,
         CallReadnInBuf(n) \/ (n >= 2 /\ CallReadLineInBuf(n))
  PROVE  BufferedInv'
<1>1. /\ op = "none" /\ out = <<>> /\ ret = Unset /\ Len(<<>>) = 0
      /\ asked' = n /\ UNCHANGED <<pulled, unread, out, ret, given>>
      /\ \/ op' = "readnInBuf" /\ count' = n
         \/ op' = "readLineInBuf" /\ count' = 1 /\ n >= 2
  BY DEF BufferedInv, InCall, CallReadnInBuf, CallReadLineInBuf
<1>2. BufferedTypeOK' /\ (pulled <= arrived)' /\ Idle'
  BY <1>1, BufferedAssumption DEF BufferedInv, ReadnInv, BufferedTypeOK, Idle, Untouched, vars
<1>3. InCall'
  BY <1>1, BufferedAssumption DEF InCall
<1>4. BufferedCallsExact'
  BY <1>1 DEF BufferedInv, BufferedCallsExact, StreamInOrder, ShortHasReason
<1>5. QED
  BY <1>2, <1>3, <1>4 DEF BufferedInv

LEMMA RefillKeeps ==
  ASSUME BufferedInv, ReadnInv', Untouched, Refill
  PROVE  BufferedInv'
<1> DEFINE rc == Smaller(InKernel, Size)
<1>1. /\ ret = Unset /\ unread = <<>>
      /\ unread' = FromKernel(rc) /\ pulled' = pulled + rc
      /\ UNCHANGED <<op, asked, count, out, ret, given>>
  BY DEF Refill, Wants, Running
<1>2. rc \in 0 .. arrived - pulled /\ rc <= Size /\ rc \in Nat
  BY Sequences, BufferedAssumption DEF Smaller, InKernel, Refill
<1> HIDE DEF rc
<1>3. unread' \in Seq(Bytes) /\ Len(unread') = rc
  BY <1>1, <1>2, FromKernelIs
<1>4. BufferedTypeOK'
  BY <1>1, <1>2, <1>3, Sequences DEF BufferedInv, ReadnInv, BufferedTypeOK, Untouched, vars
<1>5. (pulled <= arrived)' /\ Idle' /\ InCall'
  BY <1>1, <1>2, Sequences DEF BufferedInv, Idle, InCall, Untouched, vars
<1>6. StreamInOrder'
  <2>1. given \o out = Stream(pulled)
    <3>1. given \o out \o <<>> = Stream(pulled)
      BY <1>1 DEF BufferedInv, BufferedCallsExact, StreamInOrder, Stream
    <3>2. QED
      BY <3>1, Sequences, ConcatEmptySeq
  <2>2. Stream(pulled) \o FromKernel(rc) = Stream(pulled + rc)
    <3>1. pulled \in Nat
      BY Sequences
    <3>2. QED
      BY <1>2, <3>1, StreamGrows
  <2>3. QED
    BY <1>1, <2>1, <2>2 DEF StreamInOrder, Stream
<1>7. BufferedCallsExact'
  BY <1>1, <1>6 DEF BufferedCallsExact, ShortHasReason
<1>8. QED
  BY <1>4, <1>5, <1>7 DEF BufferedInv

LEMMA LimitTimeToReadKeeps ==
  ASSUME BufferedInv, ReadnInv', NEW n \in 1 .. MaxLen, LimitTimeToRead(n), UNCHANGED <<vars, reader>>
  PROVE  BufferedInv'
<1> DEFINE rc == Smaller(InKernel, n)
<1>1. /\ given' = given \o FromKernel(rc) /\ pulled' = pulled + rc
      /\ UNCHANGED <<unread, op, asked, count, out, ret>>
      /\ op = "none" /\ unread = <<>> /\ out = <<>> /\ ret = Unset
  BY DEF LimitTimeToRead, BufferedInv, Idle, InCall
<1>2. rc \in 0 .. arrived - pulled /\ rc \in Nat
  BY Sequences, BufferedAssumption DEF Smaller, InKernel, LimitTimeToRead
<1> HIDE DEF rc
<1>3. given' \in Seq(Data)
  BY <1>1, <1>2, FromKernelIs, Sequences, ConcatProperties
<1>4. BufferedTypeOK'
  BY <1>1, <1>2, <1>3, Sequences DEF BufferedInv, ReadnInv, BufferedTypeOK, vars, Data
<1>5. (pulled <= arrived)' /\ Idle' /\ InCall'
  BY <1>1, <1>2, Sequences DEF BufferedInv, Idle, InCall, vars
<1>6. StreamInOrder'
  <2>1. given = Stream(pulled)
    <3>1. given \o <<>> \o <<>> = Stream(pulled)
      BY <1>1 DEF BufferedInv, BufferedCallsExact, StreamInOrder, Stream
    <3>2. QED
      BY <3>1, Sequences, ConcatEmptySeq
  <2>2. given' = Stream(pulled')
    <3>1. pulled \in Nat
      BY Sequences
    <3>2. QED
      BY <1>1, <1>2, <2>1, <3>1, StreamGrows
  <2>3. given' \o out' \o unread' = given'
    BY <1>1, <1>3, ConcatEmptySeq
  <2>4. QED
    BY <2>2, <2>3 DEF StreamInOrder, Stream
<1>7. BufferedCallsExact'
  BY <1>1, <1>6 DEF BufferedCallsExact, ShortHasReason
<1>8. QED
  BY <1>4, <1>5, <1>7 DEF BufferedInv

-----------------------------------------------------------------------------
(***************************************************************************)
(* What a call takes from the buffer.                                      *)
(***************************************************************************)
LEMMA CopyBytesKeeps ==
  ASSUME BufferedInv, ReadnInv', Untouched, CopyBytes
  PROVE  BufferedInv'
<1> DEFINE k == Smaller(count, Len(unread))
           head == SubSeq(unread, 1, k)
           rest == SubSeq(unread, k + 1, Len(unread))
<1>1. /\ op = "readnInBuf" /\ ret = Unset /\ count > 0
      /\ out' = out \o head /\ unread' = rest /\ count' = count - k
      /\ UNCHANGED <<pulled, op, asked, ret, given>>
  BY DEF CopyBytes, Wants, Running
<1>2. count \in 0 .. MaxLen /\ asked \in 0 .. MaxLen /\ count <= asked /\ Len(out) = asked - count
  BY <1>1 DEF BufferedInv, BufferedTypeOK, InCall
<1>3. k \in 0 .. Len(unread) /\ k \in 0 .. count
  BY <1>2, Sequences, BufferedAssumption DEF Smaller
<1> HIDE DEF k
<1>4. /\ head \in Seq(Bytes) /\ Len(head) = k /\ rest \in Seq(Bytes) /\ Len(rest) = Len(unread) - k
      /\ head \o rest = unread
  BY <1>3, Sequences, Divided
<1> HIDE DEF head, rest
<1>5. out' \in Seq(Bytes) /\ Len(out') = Len(out) + k
  BY <1>1, <1>4, Sequences, ConcatProperties
<1>6. BufferedTypeOK'
  BY <1>1, <1>2, <1>3, <1>4, <1>5, Sequences, BufferedAssumption
     DEF BufferedInv, ReadnInv, BufferedTypeOK, Untouched, vars
<1>7. (pulled <= arrived)' /\ Idle' /\ InCall'
  BY <1>1, <1>2, <1>3, <1>5 DEF BufferedInv, Idle, InCall, Untouched, vars
<1>8. StreamInOrder'
  <2>1. head \in Seq(Data) /\ rest \in Seq(Data)
    BY <1>4, InData
  <2>2. (given \o (out \o head)) \o rest = (given \o out) \o (head \o rest)
    <3>1. given \in Seq(Data) /\ out \in Seq(Data)
      BY Sequences
    <3>2. \A x, y \in Seq(Data) :
            (given \o (out \o x)) \o y = (given \o out) \o (x \o y)
      <4>1. SUFFICES ASSUME NEW x \in Seq(Data), NEW y \in Seq(Data)
                     PROVE  (given \o (out \o x)) \o y = (given \o out) \o (x \o y)
        OBVIOUS
      <4>2. given \o (out \o x) = (given \o out) \o x
        BY <3>1, ConcatAssociative, SMTT(60)
      <4>3. given \o out \in Seq(Data)
        BY <3>1, ConcatProperties
      <4>4. ((given \o out) \o x) \o y = (given \o out) \o (x \o y)
        BY <4>3, ConcatAssociative, SMTT(60)
      <4>5. QED
        BY <4>2, <4>4
    <3>3. QED
      BY <2>1, <3>2
  <2>3. QED
    BY <1>1, <1>4, <2>2 DEF BufferedInv, BufferedCallsExact, StreamInOrder
<1>9. BufferedCallsExact'
  BY <1>1, <1>8 DEF BufferedCallsExact, ShortHasReason
<1>10. QED
  BY <1>6, <1>7, <1>9 DEF BufferedInv

LEMMA CopyCharKeeps ==
  ASSUME BufferedInv, ReadnInv', Untouched, CopyChar
  PROVE  BufferedInv'
<1> DEFINE c == Head(unread)
<1>1. /\ op = "readLineInBuf" /\ ret = Unset /\ count < asked /\ unread # <<>>
      /\ out' = Append(out, c) /\ unread' = Tail(unread) /\ count' = count + 1
      /\ ret' = IF c \in Newlines THEN count ELSE Unset
      /\ UNCHANGED <<pulled, op, asked, given>>
  BY DEF CopyChar, Wants, Running
<1>2. /\ count \in 1 .. asked /\ asked \in 2 .. MaxLen /\ MaxLen \in Nat
      /\ Len(out) = count - 1 /\ \A i \in 1 .. Len(out) : out[i] \notin Newlines
  BY <1>1, BufferedAssumption DEF BufferedInv, BufferedTypeOK, InCall
<1>3. /\ c \in Bytes /\ <<c>> \in Seq(Bytes)
      /\ Tail(unread) \in Seq(Bytes) /\ Len(Tail(unread)) = Len(unread) - 1
      /\ <<c>> \o Tail(unread) = unread
  BY <1>1, Sequences, HeadAndTail
<1> HIDE DEF c
<1>4. /\ out' \in Seq(Bytes) /\ Len(out') = Len(out) + 1
      /\ \A i \in 1 .. Len(out) : out'[i] = out[i]
      /\ out'[Len(out) + 1] = c
  BY <1>1, <1>3, Sequences, AppendProperties
<1>5. ret' \in (0 .. MaxLen) \cup {Unset} /\ count' \in 0 .. MaxLen
  BY <1>1, <1>2
<1>6. BufferedTypeOK'
  BY <1>1, <1>2, <1>3, <1>4, <1>5, Sequences, BufferedAssumption
     DEF BufferedInv, ReadnInv, BufferedTypeOK, Untouched, vars
<1>7. (pulled <= arrived)' /\ Idle'
  BY <1>1 DEF BufferedInv, Idle, Untouched, vars
<1>8. InCall'
  <2>1. ASSUME ret' = Unset PROVE \A i \in 1 .. Len(out') : out'[i] \notin Newlines
    <3>1. c \notin Newlines
      BY <1>1, <1>2, <2>1, BufferedAssumption
    <3>2. \A i \in 1 .. Len(out') : i = Len(out) + 1 \/ i \in 1 .. Len(out)
      BY <1>4, Sequences
    <3>3. QED
      BY <1>2, <1>4, <3>1, <3>2
  <2>2. QED
    BY <1>1, <1>2, <1>4, <2>1 DEF InCall
<1>9. StreamInOrder'
  <2>1. <<c>> \in Seq(Data) /\ Tail(unread) \in Seq(Data) /\ c \in Data
    BY <1>3, InData DEF Data
  <2>2. Append(out, c) = out \o <<c>>
    BY <2>1, Sequences, AppendIsConcat
  <2>3. (given \o (out \o <<c>>)) \o Tail(unread) = (given \o out) \o (<<c>> \o Tail(unread))
    <3>1. given \in Seq(Data) /\ out \in Seq(Data)
      BY Sequences
    <3>2. QED
      BY <2>1, <3>1, Regrouped
  <2>4. QED
    BY <1>1, <1>3, <2>2, <2>3 DEF BufferedInv, BufferedCallsExact, StreamInOrder
<1>10. ShortHasReason'
  <2>1. SUFFICES ASSUME ret' # Unset PROVE ShortHasReason'
    BY DEF ShortHasReason
  <2>2. ret' = count /\ c \in Newlines
    BY <1>1, <2>1
  <2>3. ret' = Len(out') /\ ret' > 0 /\ out'[ret'] \in Newlines
    BY <1>2, <1>4, <2>2
  <2>4. \A i \in 1 .. ret' - 1 : out'[i] \notin Newlines
    BY <1>2, <1>4, <2>2
  <2>5. QED
    BY <1>1, <2>3, <2>4 DEF ShortHasReason
<1>11. QED
  BY <1>6, <1>7, <1>8, <1>9, <1>10 DEF BufferedInv, BufferedCallsExact

-----------------------------------------------------------------------------
(***************************************************************************)
(* The end of a call.                                                      *)
(***************************************************************************)
LEMMA ReturnsKeep ==
  ASSUME BufferedInv, ReadnInv', Untouched, AtEof \/ Full
  PROVE  BufferedInv'
<1>1. /\ ret = Unset /\ op # "none" /\ ret' = Result
      /\ UNCHANGED <<pulled, unread, op, asked, count, out, given>>
      /\ EndOfFile \/ ~ Wants
  BY DEF AtEof, Full, Wants, Running
<1>2. /\ op \in {"readnInBuf", "readLineInBuf"} /\ MaxLen \in Nat
      /\ count \in 0 .. MaxLen /\ asked \in 0 .. MaxLen
  BY <1>1, BufferedAssumption DEF BufferedInv, BufferedTypeOK
<1>3. ret' = Len(out) /\ Len(out) \in 0 .. MaxLen
  BY <1>1, <1>2 DEF BufferedInv, InCall, Result
<1>4. BufferedTypeOK'
  BY <1>1, <1>3 DEF BufferedInv, ReadnInv, BufferedTypeOK, Untouched, vars
<1>5. (pulled <= arrived)' /\ Idle'
  BY <1>1 DEF BufferedInv, Idle, Untouched, vars
<1>6. InCall'
  <2>1. ret' # Unset
    BY <1>3, BufferedAssumption
  <2>2. QED
    BY <1>1, <2>1 DEF BufferedInv, InCall
<1>7. StreamInOrder'
  BY <1>1 DEF BufferedInv, BufferedCallsExact, StreamInOrder
<1>8. EndOfFile => EndOfFile'
  BY <1>1 DEF EndOfFile, InKernel, Untouched, vars
<1>9. op = "readnInBuf" => ret' = asked \/ EndOfFile
  BY <1>1, <1>2, <1>3 DEF BufferedInv, InCall, Wants, Running
<1>10. op = "readLineInBuf" =>
         /\ \A i \in 1 .. ret' - 1 : out[i] \notin Newlines
         /\ ret' = asked - 1 \/ EndOfFile
  BY <1>1, <1>2, <1>3 DEF BufferedInv, InCall, Wants, Running
<1>11. ShortHasReason'
  BY <1>1, <1>3, <1>8, <1>9, <1>10 DEF ShortHasReason
<1>12. QED
  BY <1>4, <1>5, <1>6, <1>7, <1>11 DEF BufferedInv, BufferedCallsExact

LEMMA TakeKeeps ==
  ASSUME BufferedInv, ReadnInv', Untouched, Take
  PROVE  BufferedInv'
<1>1. /\ ret = Len(out)
      /\ given' = given \o [i \in 1 .. ret |-> IF i <= Len(out) THEN out[i] ELSE Junk]
      /\ op' = "none" /\ out' = <<>> /\ asked' = 0 /\ count' = 0 /\ ret' = Unset
      /\ UNCHANGED <<pulled, unread>>
  BY DEF Take, BufferedInv, BufferedCallsExact, ShortHasReason
<1>2. [i \in 1 .. ret |-> IF i <= Len(out) THEN out[i] ELSE Junk] = out
  BY <1>1, Sequences
<1>3. given' = given \o out /\ given' \in Seq(Data)
  BY <1>1, <1>2, Sequences
<1>4. <<>> \in Seq(Bytes) /\ Len(<<>>) = 0
  OBVIOUS
<1>5. BufferedTypeOK'
  BY <1>1, <1>3, <1>4, BufferedAssumption
     DEF BufferedInv, ReadnInv, BufferedTypeOK, Untouched, vars, Data
<1>6. (pulled <= arrived)' /\ Idle' /\ InCall'
  BY <1>1 DEF BufferedInv, Idle, InCall, Untouched, vars
<1>7. StreamInOrder'
  <2>1. given' \o <<>> = given \o out
    BY <1>3, ConcatEmptySeq
  <2>2. QED
    BY <1>1, <2>1 DEF BufferedInv, BufferedCallsExact, StreamInOrder
<1>8. BufferedCallsExact'
  BY <1>1, <1>7 DEF BufferedCallsExact, ShortHasReason
<1>9. QED
  BY <1>5, <1>6, <1>8 DEF BufferedInv

-----------------------------------------------------------------------------
LEMMA BufferedNextKeeps == BufferedInv /\ [BufferedNext]_allVars => BufferedInv'
<1>1. ASSUME BufferedInv, UNCHANGED allVars PROVE BufferedInv'
  <2>1. ReadnInv'
    BY <1>1, NextKeeps DEF BufferedInv, allVars
  <2>2. BufferedTypeOK' /\ (pulled <= arrived)' /\ Idle' /\ InCall' /\ BufferedCallsExact'
    BY <1>1, <2>1 DEF BufferedInv, ReadnInv, BufferedTypeOK, Idle, InCall, BufferedCallsExact,
                      StreamInOrder, ShortHasReason, EndOfFile, InKernel, allVars, bufferVars, vars
  <2>3. QED
    BY <2>1, <2>2 DEF BufferedInv
<1>2. ASSUME BufferedInv, BufferedNext PROVE BufferedInv'
  <2>1. ReadnInv'
    BY <1>2, StepIsReadnStep, NextKeeps DEF BufferedInv
  <2>2. CASE reader = "readn" /\ Reader /\ UNCHANGED <<reader, bufferVars>>
    BY <1>2, <2>1, <2>2, OthersKeep
  <2>3. CASE Peer /\ UNCHANGED <<reader, bufferVars>>
    BY <1>2, <2>1, <2>3, PeerKeeps
  <2>4. CASE reader = "buffered" /\ (Ask \/ Step) /\ UNCHANGED <<vars, reader>>
    <3>1. Untouched
      BY <2>4 DEF Untouched
    <3>2. CASE Ask
      BY <1>2, <2>1, <3>1, <3>2, CallsKeep DEF Ask
    <3>3. CASE Step
      BY <1>2, <2>1, <3>1, <3>3, RefillKeeps, CopyBytesKeeps, CopyCharKeeps, ReturnsKeep, TakeKeeps
         DEF Step
    <3>4. QED
      BY <2>4, <3>2, <3>3
  <2>5. CASE (\E n \in 1 .. MaxLen : LimitTimeToRead(n)) /\ UNCHANGED <<vars, reader>>
    BY <1>2, <2>1, <2>5, LimitTimeToReadKeeps
  <2>6. QED
    BY <1>2, <2>2, <2>3, <2>4, <2>5 DEF BufferedNext
<1>3. QED
  BY <1>1, <1>2

LEMMA BufferedInvHolds == BufferedSpec => []BufferedInv
BY InitBuffered, BufferedNextKeeps, PTL DEF BufferedSpec

-----------------------------------------------------------------------------
(***************************************************************************)
(* The theorems.                                                           *)
(***************************************************************************)

\* The type invariant.
THEOREM BufferedTypeCorrect == BufferedSpec => []BufferedTypeOK
<1>1. BufferedInv => BufferedTypeOK
  BY DEF BufferedInv
<1>2. QED
  BY <1>1, BufferedInvHolds, PTL

\* readnInBuf and readLineInBuf hand out the stream in order, in any mixture,
\* and return short counts only at the end of a line or of the stream.
THEOREM BufferedExact == BufferedSpec => []BufferedCallsExact
<1>1. BufferedInv => BufferedCallsExact
  BY DEF BufferedInv
<1>2. QED
  BY <1>1, BufferedInvHolds, PTL

-----------------------------------------------------------------------------
(***************************************************************************)
(* How long a buffered call can last.                                      *)
(***************************************************************************)
Missing == IF op = "readnInBuf" THEN count ELSE asked - count

CallStepsLeft ==
  IF op = "none" THEN 0
  ELSE IF ret # Unset THEN 1
  ELSE 2 + 2 * Missing + (IF unread = <<>> THEN 1 ELSE 0)

LEMMA MissingBound ==
  ASSUME BufferedInv, op # "none", ret = Unset
  PROVE  Missing \in 0 .. MaxLen
BY BufferedAssumption DEF BufferedInv, BufferedTypeOK, InCall, Missing

AtMostSteps == CallStepsLeft \in 0 .. 2 * MaxLen + 3

LEMMA CallStepsBound == BufferedInv => AtMostSteps
BY MissingBound, BufferedAssumption DEF AtMostSteps, CallStepsLeft

LEMMA NextCallStepsBound == BufferedInv' => AtMostSteps'
BY CallStepsBound, PTL

LEMMA StepShortens ==
  ASSUME BufferedInv, BufferedInv', Step
  PROVE  CallStepsLeft' < CallStepsLeft
<1>0. /\ MaxLen \in Nat /\ count \in 0 .. MaxLen /\ asked \in 0 .. MaxLen
      /\ op \in {"none", "readnInBuf", "readLineInBuf"} /\ unread \in Seq(Bytes)
      /\ op = "none" => ret = Unset
      /\ ret # Unset => op # "none"
      /\ Len(unread) \in Nat
  BY BufferedAssumption DEF BufferedInv, BufferedTypeOK, InCall
<1>1. CASE Refill
  <2>1. op # "none" /\ ret = Unset /\ unread = <<>> /\ UNCHANGED <<op, asked, count, ret>>
    BY <1>1 DEF Refill, Wants, Running
  <2>2. unread' # <<>>
    <3>1. Smaller(InKernel, Size) \in 1 .. arrived - pulled
      BY <1>1, Sequences, BufferedAssumption DEF Refill, InKernel, Smaller
    <3>2. arrived - pulled \in Nat
      BY Sequences
    <3>3. Len(unread') = Smaller(InKernel, Size)
      BY <1>1, <3>1, <3>2, FromKernelIs DEF Refill
    <3>4. QED
      BY <3>1, <3>2, <3>3
  <2>3. Missing \in 0 .. MaxLen /\ Missing' = Missing
    BY <2>1, MissingBound DEF Missing
  <2>4. QED
    BY <1>0, <2>1, <2>2, <2>3 DEF CallStepsLeft
<1>2. CASE AtEof \/ Full
  <2>1. op # "none" /\ ret = Unset /\ op' = op /\ ret' = Result
    BY <1>2 DEF AtEof, Full, Wants, Running
  <2>2. ret' # Unset
    BY <1>0, <2>1, BufferedAssumption DEF Result
  <2>3. Missing \in 0 .. MaxLen
    BY <2>1, MissingBound
  <2>4. QED
    BY <1>0, <2>1, <2>2, <2>3 DEF CallStepsLeft
<1>3. CASE CopyBytes
  <2>1. /\ op = "readnInBuf" /\ ret = Unset /\ count > 0 /\ unread # <<>>
        /\ UNCHANGED <<op, ret>> /\ count' = count - Smaller(count, Len(unread))
    BY <1>3 DEF CopyBytes, Wants, Running
  <2>2. Len(unread) > 0
    BY <1>0, <2>1
  <2>3. count' \in Nat /\ count' < count
    BY <1>0, <2>1, <2>2 DEF Smaller
  <2>4. Missing = count /\ Missing' = count'
    BY <2>1 DEF Missing
  <2>5. QED
    BY <1>0, <2>1, <2>3, <2>4 DEF CallStepsLeft
<1>4. CASE CopyChar
  <2>1. /\ op = "readLineInBuf" /\ ret = Unset /\ count < asked /\ unread # <<>>
        /\ UNCHANGED <<op, asked>> /\ count' = count + 1
    BY <1>4 DEF CopyChar, Wants, Running
  <2>2. Missing = asked - count /\ Missing' = asked - count'
    BY <2>1 DEF Missing
  <2>3. QED
    BY <1>0, <2>1, <2>2 DEF CallStepsLeft
<1>5. CASE Take
  BY <1>0, <1>5 DEF Take, CallStepsLeft
<1>6. QED
  BY <1>1, <1>2, <1>3, <1>4, <1>5 DEF Step

\* A call of readnInBuf or readLineInBuf makes at most 2 * MaxLen + 3 steps,
\* whatever is in the buffer and however the stream is cut: each one brings
\* its return nearer, and nothing but a new call adds any.  So a call can
\* only fail to return by waiting for its peer (see Silent).
THEOREM CallIsFinite ==
  BufferedSpec =>
    /\ [](CallStepsLeft \in 0 .. 2 * MaxLen + 3)
    /\ [][/\ Step => CallStepsLeft' < CallStepsLeft
          /\ CallStepsLeft' > CallStepsLeft => Ask]_allVars
<1>1. BufferedInv => CallStepsLeft \in 0 .. 2 * MaxLen + 3
  BY CallStepsBound DEF AtMostSteps
<1>2. ASSUME BufferedInv, BufferedInv', [BufferedNext]_allVars
      PROVE  [/\ Step => CallStepsLeft' < CallStepsLeft
              /\ CallStepsLeft' > CallStepsLeft => Ask]_allVars
  <2>1. Step => CallStepsLeft' < CallStepsLeft
    BY <1>2, StepShortens
  <2>2. CallStepsLeft \in Int /\ CallStepsLeft' \in Int
    BY <1>2, CallStepsBound, NextCallStepsBound, BufferedAssumption DEF AtMostSteps
  <2>3. CASE Step
    BY <2>1, <2>2, <2>3
  <2>4. CASE UNCHANGED <<op, asked, count, ret, unread>>
    BY <2>1, <2>2, <2>4 DEF CallStepsLeft, Missing
  <2>5. CASE UNCHANGED allVars
    BY <2>5
  <2>6. QED
    BY <1>2, <2>1, <2>3, <2>4, <2>5 DEF BufferedNext, bufferVars, LimitTimeToRead
<1>3. QED
  BY <1>1, <1>2, BufferedInvHolds, PTL DEF BufferedSpec

=============================================================================
