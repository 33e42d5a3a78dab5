--------------------------- MODULE MessagesProofs ---------------------------
(***************************************************************************)
(* What is proved of Messages, for all bounds on the messages: its type    *)
(* invariant and its safety invariants.  The lemmas say, in this order:    *)
(*   - what find and rfind give for a URI that is put together from parts  *)
(*     (src/HttpRequest.cpp);                                              *)
(*   - where the lines of a message end, which of them are headers, and    *)
(*     which is the first empty one, for any lines and any body;           *)
(*   - what is made of a program's output, and of a response that is read  *)
(*     back from the wire (src/HttpResponse.cpp);                          *)
(*   - what is made of a request of which only the beginning arrives, and  *)
(*     of texts whose pieces are laid over each other (src/Rio.cpp).       *)
(***************************************************************************)
EXTENDS Messages, SequenceTheorems, FiniteSetTheorems, WellFoundedInduction, TLAPS

-----------------------------------------------------------------------------
(***************************************************************************)
(* The smallest and the largest of a set of positions.                     *)
(***************************************************************************)
\* The smallest position of a set that is not empty: by well-foundedness of <.
LEMMA MinIs ==
  ASSUME NEW I, I \subseteq Nat, I # {}
  PROVE  Min(I) \in I /\ \A i \in I : Min(I) <= i
<1> DEFINE Less == {p \in Nat \X Nat : p[1] < p[2]}
<1>0. OpToRel(<, Nat) = Less
  BY DEF OpToRel
<1>1. PICK m \in I : \A i \in I : <<i, m>> \notin Less
  <2>1. IsWellFoundedOn(Less, Nat)
    BY <1>0, NatLessThanWellFounded
  <2> HIDE DEF Less
  <2>2. QED
    BY <2>1, WFMin
<1>2. \A i \in I : m <= i
  <2> SUFFICES ASSUME NEW i \in I PROVE m <= i
    OBVIOUS
  <2>1. i \in Nat /\ m \in Nat
    OBVIOUS
  <2>2. <<i, m>> \notin Less
    BY <1>1
  <2>3. ~ (i < m)
    BY <2>1, <2>2
  <2>4. QED
    BY <2>1, <2>3
<1>3. QED
  BY <1>2 DEF Min

\* The largest position of a set: n minus the smallest of the differences.
LEMMA MaxIs ==
  ASSUME NEW n \in Nat, NEW I, I \subseteq 0 .. n, I # {}
  PROVE  Max(I) \in I /\ \A i \in I : i <= Max(I)
<1> DEFINE J == {n - i : i \in I}
<1>1. J \subseteq Nat /\ J # {}
  <2>1. \A i \in I : n - i \in Nat
    <3> SUFFICES ASSUME NEW i \in I PROVE n - i \in Nat
      OBVIOUS
    <3>1. i \in 0 .. n
      OBVIOUS
    <3>2. QED
      BY <3>1
  <2>2. QED
    BY <2>1
<1>2. Min(J) \in J /\ \A j \in J : Min(J) <= j
  BY <1>1, MinIs
<1>3. PICK m \in I : Min(J) = n - m
  BY <1>2
<1>4. \A i \in I : i <= m
  <2> SUFFICES ASSUME NEW i \in I PROVE i <= m
    OBVIOUS
  <2>1. n - m <= n - i
    BY <1>2, <1>3
  <2>2. QED
    BY <2>1
<1>5. QED
  BY <1>4 DEF Max

-----------------------------------------------------------------------------
(***************************************************************************)
(* find and rfind.                                                         *)
(***************************************************************************)
LEMMA FindIs ==
  ASSUME NEW S, NEW s \in Seq(S), NEW c
  PROVE  /\ Find(s, c) \in 0 .. Len(s)
         /\ Find(s, c) = 0 <=> ~ Contains(s, c)
         /\ Find(s, c) # 0 => s[Find(s, c)] = c
         /\ \A i \in 1 .. Len(s) : s[i] = c => Find(s, c) <= i
<1> DEFINE I == {i \in 1 .. Len(s) : s[i] = c}
<1>1. Find(s, c) = IF I # {} THEN Min(I) ELSE 0
  BY DEF Find, SelectInSeq
<1>2. I \subseteq Nat /\ Len(s) \in Nat
  OBVIOUS
<1>3. I # {} => Min(I) \in I /\ \A i \in I : Min(I) <= i
  BY <1>2, MinIs
<1>4. QED
  BY <1>1, <1>2, <1>3 DEF Contains

\* rfind gives a place of the character, and the last.
LEMMA RFindIs ==
  ASSUME NEW S, NEW s \in Seq(S), NEW c
  PROVE  /\ RFind(s, c) \in 0 .. Len(s)
         /\ RFind(s, c) = 0 <=> ~ Contains(s, c)
         /\ RFind(s, c) # 0 => s[RFind(s, c)] = c
         /\ \A i \in 1 .. Len(s) : s[i] = c => i <= RFind(s, c)
<1> DEFINE I == {i \in 1 .. Len(s) : s[i] = c}
<1>1. RFind(s, c) = IF I # {} THEN Max(I) ELSE 0
  BY DEF RFind, SelectLastInSeq
<1>2. I \subseteq 0 .. Len(s) /\ Len(s) \in Nat
  OBVIOUS
<1>3. I # {} => Max(I) \in I /\ \A i \in I : i <= Max(I)
  BY <1>2, MaxIs
<1>4. QED
  BY <1>1, <1>2, <1>3 DEF Contains

\* There is one first and one last place.
LEMMA FindAt ==
  ASSUME NEW S, NEW s \in Seq(S), NEW c, NEW k \in 1 .. Len(s), s[k] = c,
         \A i \in 1 .. k - 1 : s[i] # c
  PROVE  Find(s, c) = k
<1>1. /\ Find(s, c) \in 1 .. Len(s) /\ s[Find(s, c)] = c /\ Find(s, c) <= k
  BY FindIs DEF Contains
<1>2. QED
  BY <1>1

\* A place of the character with none behind it is the one rfind gives.
LEMMA RFindAt ==
  ASSUME NEW S, NEW s \in Seq(S), NEW c, NEW k \in 1 .. Len(s), s[k] = c,
         \A i \in k + 1 .. Len(s) : s[i] # c
  PROVE  RFind(s, c) = k
<1>1. /\ RFind(s, c) \in 1 .. Len(s) /\ s[RFind(s, c)] = c /\ k <= RFind(s, c)
  BY RFindIs DEF Contains
<1>2. QED
  BY <1>1

\* substr up to a place and behind it.
LEMMA BeforeIs ==
  ASSUME NEW S, NEW s \in Seq(S), NEW k \in 0 .. Len(s)
  PROVE  /\ Before(s, k) \in Seq(S)
         /\ Len(Before(s, k)) = IF k = 0 THEN Len(s) ELSE k - 1
         /\ \A i \in 1 .. Len(Before(s, k)) : Before(s, k)[i] = s[i]
BY DEF Before

\* What is behind a place, or nothing for no place.
LEMMA AfterIs ==
  ASSUME NEW S, NEW s \in Seq(S), NEW k \in 0 .. Len(s)
  PROVE  /\ After(s, k) \in Seq(S)
         /\ Len(After(s, k)) = IF k = 0 THEN 0 ELSE Len(s) - k
         /\ \A i \in 1 .. Len(After(s, k)) : After(s, k)[i] = s[k + i]
BY DEF After

-----------------------------------------------------------------------------
(***************************************************************************)
(* A URI is its path and its query, which begins with a question mark.     *)
(***************************************************************************)
Query(u) == LET pos == Find(u, "?") IN IF pos = 0 THEN <<>> ELSE SubSeq(u, pos, Len(u))

IsPath(p)  == ~ Contains(p, "?")
IsQuery(q) == q = <<>> \/ (Len(q) > 0 /\ q[1] = "?")

\* A URI is its path and its query.
LEMMA UriIs ==
  ASSUME NEW S, NEW u \in Seq(S)
  PROVE  /\ GetPath(u) \in Seq(S) /\ Query(u) \in Seq(S)
         /\ u = GetPath(u) \o Query(u)
         /\ IsPath(GetPath(u)) /\ IsQuery(Query(u))
<1> DEFINE k == Find(u, "?")
<1>1. /\ k \in 0 .. Len(u) /\ (k = 0 <=> ~ Contains(u, "?")) /\ (k # 0 => u[k] = "?")
      /\ \A i \in 1 .. Len(u) : u[i] = "?" => k <= i
  BY FindIs
<1>2. GetPath(u) = Before(u, k) /\ Query(u) = IF k = 0 THEN <<>> ELSE SubSeq(u, k, Len(u))
  BY DEF GetPath, Query
<1> HIDE DEF k
<1>3. CASE k = 0
  BY <1>1, <1>2, <1>3 DEF Before, IsPath, IsQuery
<1>4. CASE k # 0
  <2>1. /\ GetPath(u) \in Seq(S) /\ Len(GetPath(u)) = k - 1
        /\ \A i \in 1 .. k - 1 : GetPath(u)[i] = u[i]
    BY <1>1, <1>2, <1>4 DEF Before
  <2>2. /\ Query(u) \in Seq(S) /\ Len(Query(u)) = Len(u) - k + 1
        /\ \A i \in 1 .. Len(u) - k + 1 : Query(u)[i] = u[k + i - 1]
    BY <1>1, <1>2, <1>4
  <2>3. IsPath(GetPath(u))
    BY <1>1, <2>1 DEF IsPath, Contains
  <2>4. IsQuery(Query(u))
    BY <1>1, <1>4, <2>2 DEF IsQuery
  <2>5. u = GetPath(u) \o Query(u)
    <3>1. /\ GetPath(u) \o Query(u) \in Seq(S) /\ Len(GetPath(u) \o Query(u)) = Len(u)
          /\ \A i \in 1 .. Len(u) : (GetPath(u) \o Query(u))[i] =
               IF i <= k - 1 THEN GetPath(u)[i] ELSE Query(u)[i - (k - 1)]
      BY <1>1, <2>1, <2>2, ConcatProperties
    <3>2. ASSUME NEW i \in 1 .. Len(u) PROVE u[i] = (GetPath(u) \o Query(u))[i]
      <4>1. CASE i <= k - 1
        BY <1>1, <2>1, <3>1, <4>1
      <4>2. CASE i > k - 1
        <5>1. i - (k - 1) \in 1 .. Len(u) - k + 1 /\ k + (i - (k - 1)) - 1 = i
              /\ ~ (i <= k - 1)
          BY <1>1, <1>4, <4>2
        <5>2. Query(u)[i - (k - 1)] = u[i]
          BY <2>2, <5>1
        <5>3. (GetPath(u) \o Query(u))[i] = Query(u)[i - (k - 1)]
          BY <3>1, <5>1
        <5>4. QED
          BY <5>2, <5>3
      <4>3. i <= k - 1 \/ i > k - 1
        <5>1. i \in Int /\ k \in Int
          BY <1>1
        <5>2. QED
          BY <5>1
      <4>4. QED
        BY <4>1, <4>2, <4>3
    <3>3. QED
      BY <3>1, <3>2, SeqEqual
  <2>6. QED
    BY <2>1, <2>2, <2>3, <2>4, <2>5
<1>5. QED
  BY <1>3, <1>4

\* And there is no other way to divide it.
LEMMA PartsOf ==
  ASSUME NEW S, NEW p \in Seq(S), NEW q \in Seq(S), IsPath(p), IsQuery(q)
  PROVE  GetPath(p \o q) = p /\ Query(p \o q) = q
<1> DEFINE u == p \o q
<1>1. /\ u \in Seq(S) /\ Len(u) = Len(p) + Len(q)
      /\ \A i \in 1 .. Len(p) + Len(q) : u[i] = IF i <= Len(p) THEN p[i] ELSE q[i - Len(p)]
  BY ConcatProperties
<1>2. Len(p) \in Nat /\ Len(q) \in Nat /\ \A i \in 1 .. Len(p) : p[i] # "?"
  BY DEF IsPath, Contains
<1>3. CASE q = <<>>
  <2>1. u = p
    BY <1>3
  <2>2. Find(u, "?") = 0
    BY <2>1, FindIs DEF IsPath
  <2>3. QED
    BY <1>3, <2>1, <2>2 DEF GetPath, Before, Query
<1>4. CASE Len(q) > 0 /\ q[1] = "?"
  <2>1. Find(u, "?") = Len(p) + 1
    <3>1. Len(p) + 1 \in 1 .. Len(u) /\ u[Len(p) + 1] = "?"
      BY <1>1, <1>2, <1>4, SMTT(60)
    <3>2. \A i \in 1 .. Len(p) + 1 - 1 : u[i] # "?"
      BY <1>1, <1>2, SMTT(60)
    <3> DEFINE k == Len(p) + 1
    <3>3. k \in 1 .. Len(u) /\ u[k] = "?" /\ \A i \in 1 .. k - 1 : u[i] # "?"
      BY <3>1, <3>2
    <3> HIDE DEF u, k
    <3>4. Find(u, "?") = k
      BY <1>1, <3>3, FindAt
    <3>5. QED
      BY <3>4 DEF k
  <2>2. GetPath(u) = SubSeq(u, 1, Len(p)) /\ Query(u) = SubSeq(u, Len(p) + 1, Len(p) + Len(q))
    BY <1>1, <1>2, <2>1, SMTT(60) DEF GetPath, Before, Query
  <2>3. SubSeq(u, 1, Len(p)) = p
    BY <1>1, <1>2, SubSeqProperties, SeqEqual
  <2>4. SubSeq(u, Len(p) + 1, Len(p) + Len(q)) = q
    BY <1>1, <1>2, SubSeqProperties, SeqEqual
  <2>5. QED
    BY <2>2, <2>3, <2>4
<1>5. QED
  BY <1>3, <1>4 DEF IsQuery

\* setPath replaces the path.
LEMMA SetPathIs ==
  ASSUME NEW S, NEW u \in Seq(S), NEW p \in Seq(S)
  PROVE  SetPath(u, p) = p \o Query(u)
<1>1. CASE Find(u, "?") = 0
  BY <1>1 DEF SetPath, Query
<1>2. CASE Find(u, "?") # 0
  BY <1>2 DEF SetPath, Query
<1>3. QED
  BY <1>1, <1>2

-----------------------------------------------------------------------------
(***************************************************************************)
(* The last place of a character in what is put together from two parts.   *)
(***************************************************************************)
LastPart(s, c) == After(s, RFind(s, c))

\* It is in the second part, if that has it.
LEMMA LastOfSecond ==
  ASSUME NEW S, NEW a \in Seq(S), NEW b \in Seq(S), NEW c, Contains(b, c)
  PROVE  /\ RFind(a \o b, c) = Len(a) + RFind(b, c)
         /\ LastPart(a \o b, c) = LastPart(b, c)
<1> DEFINE s == a \o b  r == RFind(b, c)
<1>1. /\ s \in Seq(S) /\ Len(s) = Len(a) + Len(b) /\ Len(a) \in Nat /\ Len(b) \in Nat
      /\ \A i \in 1 .. Len(a) + Len(b) : s[i] = IF i <= Len(a) THEN a[i] ELSE b[i - Len(a)]
  BY ConcatProperties
<1>2. r \in 1 .. Len(b) /\ b[r] = c /\ \A i \in 1 .. Len(b) : b[i] = c => i <= r
  BY RFindIs
<1> HIDE DEF s, r
<1>3. RFind(s, c) = Len(a) + r
  <2>1. Len(a) + r \in 1 .. Len(s) /\ s[Len(a) + r] = c
    <3>1. /\ Len(a) + r \in 1 .. Len(a) + Len(b) /\ ~ (Len(a) + r <= Len(a))
          /\ Len(a) + r - Len(a) = r
      BY <1>1, <1>2
    <3>2. QED
      BY <1>1, <1>2, <3>1
  <2>2. ASSUME NEW i \in Len(a) + r + 1 .. Len(s) PROVE s[i] # c
    <3>1. i - Len(a) \in 1 .. Len(b) /\ ~ (i <= Len(a)) /\ ~ (i - Len(a) <= r) /\ i \in 1 .. Len(a) + Len(b)
      BY <1>1, <1>2
    <3>2. s[i] = b[i - Len(a)]
      BY <1>1, <3>1
    <3>3. QED
      BY <1>2, <3>1, <3>2
  <2>3. QED
    BY <1>1, <2>1, <2>2, RFindAt
<1>4. After(s, Len(a) + r) = After(b, r)
  <2>1. /\ After(s, Len(a) + r) \in Seq(S) /\ Len(After(s, Len(a) + r)) = Len(b) - r
        /\ \A i \in 1 .. Len(b) - r : After(s, Len(a) + r)[i] = s[Len(a) + r + i]
    <3>1. Len(a) + r \in 0 .. Len(s) /\ Len(a) + r # 0 /\ Len(s) - (Len(a) + r) = Len(b) - r
      BY <1>1, <1>2
    <3>2. /\ After(s, Len(a) + r) \in Seq(S) /\ Len(After(s, Len(a) + r)) = Len(b) - r
          /\ \A i \in 1 .. Len(After(s, Len(a) + r)) : After(s, Len(a) + r)[i] = s[(Len(a) + r) + i]
      BY <1>1, <3>1, AfterIs
    <3> DEFINE t == After(s, Len(a) + r)
               d == Len(b) - r
    <3>3. Len(t) = d
      BY <3>2
    <3>4. 1 .. Len(t) = 1 .. d
      BY <3>3
    <3> HIDE DEF t, d
    <3>5. \A i \in 1 .. d : t[i] = s[(Len(a) + r) + i]
      BY <3>2, <3>4 DEF t
    <3>6. QED
      BY <3>2, <3>5 DEF t, d
  <2>2. /\ After(b, r) \in Seq(S) /\ Len(After(b, r)) = Len(b) - r
        /\ \A i \in 1 .. Len(b) - r : After(b, r)[i] = b[r + i]
    <3>1. b \in Seq(S) /\ r \in 0 .. Len(b) /\ r # 0
      BY <1>1, <1>2
    <3> HIDE DEF r
    <3>2. /\ After(b, r) \in Seq(S)
          /\ Len(After(b, r)) = IF r = 0 THEN 0 ELSE Len(b) - r
          /\ \A i \in 1 .. Len(After(b, r)) : After(b, r)[i] = b[r + i]
      BY <3>1, AfterIs
    <3>3. Len(After(b, r)) = Len(b) - r
      BY <3>1, <3>2
    <3>4. QED
      BY <3>2, <3>3
  <2>3. ASSUME NEW i \in 1 .. Len(b) - r PROVE s[Len(a) + r + i] = b[r + i]
    <3> DEFINE j == Len(a) + r + i
    <3>1. j \in 1 .. Len(a) + Len(b) /\ ~ (j <= Len(a)) /\ j - Len(a) = r + i
      BY <1>1, <1>2
    <3> HIDE DEF j
    <3>2. s[j] = b[j - Len(a)]
      BY <1>1, <3>1
    <3>3. QED
      BY <3>1, <3>2 DEF j
  <2>4. QED
    BY <2>1, <2>2, <2>3, SeqEqual
<1>5. QED
  BY <1>3, <1>4 DEF LastPart, s, r

\* It is what divides them, if the second part does not have it.
LEMMA LastDivides ==
  ASSUME NEW S, NEW a \in Seq(S), NEW c \in S, NEW e \in Seq(S), ~ Contains(e, c)
  PROVE  LastPart(a \o <<c>> \o e, c) = e
<1> DEFINE b == <<c>> \o e
<1>1. /\ b \in Seq(S) /\ Len(b) = Len(e) + 1 /\ b[1] = c
      /\ \A i \in 1 .. Len(e) : b[i + 1] = e[i]
  OBVIOUS
<1>2. a \o <<c>> \o e = a \o b
  BY ConcatAssociative
<1> HIDE DEF b
<1>3. RFind(b, c) = 1 /\ Contains(b, c)
  <2>1. Len(e) \in Nat /\ \A i \in 1 .. Len(e) : e[i] # c
    BY DEF Contains
  <2>2. ASSUME NEW i \in 2 .. Len(b) PROVE b[i] # c
    <3>1. i - 1 \in 1 .. Len(e) /\ (i - 1) + 1 = i
      BY <1>1, <2>1
    <3>2. b[(i - 1) + 1] = e[i - 1]
      BY <1>1, <3>1
    <3>3. QED
      BY <2>1, <3>1, <3>2
  <2>3. 1 \in 1 .. Len(b)
    BY <1>1, <2>1
  <2>4. QED
    BY <1>1, <2>2, <2>3, RFindAt DEF Contains
<1>4. After(b, 1) = e
  <2>1. /\ After(b, 1) \in Seq(S) /\ Len(After(b, 1)) = Len(e)
        /\ \A i \in 1 .. Len(e) : After(b, 1)[i] = b[1 + i]
    BY <1>1, AfterIs
  <2>2. QED
    BY <1>1, <2>1, SeqEqual
<1>5. QED
  <2>1. LastPart(a \o b, c) = LastPart(b, c)
    BY <1>1, <1>3, LastOfSecond
  <2>2. LastPart(b, c) = e
    BY <1>3, <1>4 DEF LastPart
  <2>3. QED
    BY <1>2, <2>1, <2>2

\* What neither part has is not in the whole.
LEMMA NotInConcat ==
  ASSUME NEW S, NEW a \in Seq(S), NEW b \in Seq(S), NEW c
  PROVE  Contains(a \o b, c) <=> Contains(a, c) \/ Contains(b, c)
<1>1. /\ Len(a \o b) = Len(a) + Len(b) /\ Len(a) \in Nat /\ Len(b) \in Nat
      /\ \A i \in 1 .. Len(a) + Len(b) :
           (a \o b)[i] = IF i <= Len(a) THEN a[i] ELSE b[i - Len(a)]
  BY ConcatProperties
<1>2. ASSUME Contains(a \o b, c) PROVE Contains(a, c) \/ Contains(b, c)
  <2>1. PICK i \in 1 .. Len(a) + Len(b) : (a \o b)[i] = c
    BY <1>1, <1>2 DEF Contains
  <2>2. CASE i <= Len(a)
    BY <1>1, <2>1, <2>2 DEF Contains
  <2>3. CASE ~ (i <= Len(a))
    <3>1. i - Len(a) \in 1 .. Len(b) /\ b[i - Len(a)] = c
      BY <1>1, <2>1, <2>3
    <3>2. QED
      BY <3>1 DEF Contains
  <2>4. QED
    BY <2>2, <2>3
<1>3. ASSUME Contains(a, c) PROVE Contains(a \o b, c)
  <2>1. PICK i \in 1 .. Len(a) : a[i] = c
    BY <1>3 DEF Contains
  <2>2. i \in 1 .. Len(a) + Len(b) /\ (a \o b)[i] = c
    BY <1>1, <2>1
  <2>3. QED
    BY <1>1, <2>2 DEF Contains
<1>4. ASSUME Contains(b, c) PROVE Contains(a \o b, c)
  <2>1. PICK i \in 1 .. Len(b) : b[i] = c
    BY <1>4 DEF Contains
  <2> DEFINE j == Len(a) + i
  <2>2. j \in 1 .. Len(a) + Len(b) /\ ~ (j <= Len(a)) /\ j - Len(a) = i
    BY <1>1
  <2> HIDE DEF j
  <2>3. (a \o b)[j] = c
    BY <1>1, <2>1, <2>2
  <2>4. QED
    BY <1>1, <2>2, <2>3 DEF Contains
<1>5. QED
  BY <1>2, <1>3, <1>4

\* Nor is what the whole does not have in its beginning.
LEMMA BeforeLacks ==
  ASSUME NEW S, NEW s \in Seq(S), NEW k \in 0 .. Len(s), NEW c, ~ Contains(s, c)
  PROVE  ~ Contains(Before(s, k), c)
<1>1. /\ Len(Before(s, k)) = IF k = 0 THEN Len(s) ELSE k - 1
      /\ \A i \in 1 .. Len(Before(s, k)) : Before(s, k)[i] = s[i]
  BY BeforeIs
<1>2. \A i \in 1 .. Len(Before(s, k)) : i \in 1 .. Len(s)
  BY <1>1
<1>3. QED
  BY <1>1, <1>2 DEF Contains

\* The parameters are those of the query.
LEMMA ParamOf ==
  ASSUME NEW S, NEW p \in Seq(S), NEW q \in Seq(S), IsPath(p), IsQuery(q), NEW m
  PROVE  GetParam(m, p \o q) = IF m = "GET" THEN LastPart(q, "?") ELSE <<>>
<1>1. CASE q = <<>>
  <2>1. p \o q = p /\ RFind(p, "?") = 0
    BY <1>1, RFindIs DEF IsPath
  <2>2. After(p, 0) = <<>>
    BY DEF After
  <2>3. LastPart(q, "?") = <<>>
    <3>1. RFind(q, "?") \in 0 .. Len(q) /\ Len(q) = 0
      BY <1>1, RFindIs
    <3>2. RFind(q, "?") = 0
      BY <3>1
    <3>3. QED
      BY <3>2 DEF LastPart, After
  <2>4. QED
    BY <2>1, <2>2, <2>3 DEF GetParam
<1>2. CASE Len(q) > 0 /\ q[1] = "?"
  <2>1. Contains(q, "?")
    BY <1>2 DEF Contains
  <2>2. LastPart(p \o q, "?") = LastPart(q, "?")
    BY <2>1, LastOfSecond
  <2>3. QED
    BY <2>2 DEF GetParam, LastPart
<1>3. QED
  BY <1>1, <1>2 DEF IsQuery

\* The extension is that of the path.
LEMMA ExtOf ==
  ASSUME NEW S, NEW p \in Seq(S), NEW q \in Seq(S), IsPath(p), IsQuery(q)
  PROVE  GetExt(p \o q) = LastPart(p, ".")
BY PartsOf DEF GetExt, LastPart

-----------------------------------------------------------------------------
(***************************************************************************)
(* What the setters set is what the getters find.                          *)
(***************************************************************************)
\* The characters of URIs and of the server's own names.
Chars == {"c", "?", ".", "~", "/", "d", "i", "h"}

\* The values that SettersReadBack sets.
Extension == <<"h">>
Param     == <<"h", "c">>

\* The path that setExt makes of a path.
WithExt(p) == Before(p, RFind(p, ".")) \o <<".">> \o Extension

\* It has the new extension, and no question mark.
LEMMA WithExtIs ==
  ASSUME NEW p \in Seq(Chars), IsPath(p)
  PROVE  /\ WithExt(p) \in Seq(Chars) /\ IsPath(WithExt(p))
         /\ LastPart(WithExt(p), ".") = Extension
<1> DEFINE b == Before(p, RFind(p, "."))
<1>1. /\ b \in Seq(Chars) /\ ~ Contains(b, "?")
      /\ <<".">> \in Seq(Chars) /\ Extension \in Seq(Chars) /\ "." \in Chars
  <2>1. RFind(p, ".") \in 0 .. Len(p)
    BY RFindIs
  <2>2. b \in Seq(Chars) /\ ~ Contains(b, "?")
    BY <2>1, BeforeIs, BeforeLacks DEF IsPath
  <2>3. QED
    BY <2>2 DEF Chars, Extension
<1>2. ~ Contains(<<".">>, "?") /\ ~ Contains(Extension, "?") /\ ~ Contains(Extension, ".")
  BY DEF Contains, Extension
<1> HIDE DEF b
<1>3. WithExt(p) = b \o <<".">> \o Extension
  BY DEF WithExt, b
<1>4. b \o <<".">> \in Seq(Chars) /\ ~ Contains(b \o <<".">>, "?")
  BY <1>1, <1>2, ConcatProperties, NotInConcat
<1>5. b \o <<".">> \o Extension \in Seq(Chars) /\ ~ Contains(b \o <<".">> \o Extension, "?")
  <2> DEFINE a == b \o <<".">>
  <2>1. a \in Seq(Chars) /\ ~ Contains(a, "?")
    BY <1>4
  <2> HIDE DEF a
  <2>2. a \o Extension \in Seq(Chars) /\ ~ Contains(a \o Extension, "?")
    BY <1>1, <1>2, <2>1, ConcatProperties, NotInConcat
  <2>3. QED
    BY <2>2 DEF a
<1>6. LastPart(b \o <<".">> \o Extension, ".") = Extension
  BY <1>1, <1>2, LastDivides
<1>7. QED
  BY <1>3, <1>5, <1>6 DEF IsPath

\* Up to its last slash a path is the same as one that agrees with it so far
\* and has no slash behind it.
LEMMA SameDirectory ==
  ASSUME NEW S, NEW p \in Seq(S), NEW n \in Seq(S), NEW k \in Nat,
         k <= Len(p), k <= Len(n), \A i \in 1 .. k : n[i] = p[i],
         \A i \in k + 1 .. Len(n) : n[i] # "/",
         RFind(p, "/") <= k
  PROVE  Directory(n) = Directory(p)
<1> DEFINE r == RFind(p, "/")
<1>1. r \in 0 .. k /\ Len(n) \in Nat /\ Len(p) \in Nat
  BY RFindIs
<1>2. RFind(n, "/") = r
  <2>1. CASE r = 0
    <3>1. ~ Contains(p, "/")
      BY <2>1, RFindIs
    <3>2. \A i \in 1 .. Len(n) : n[i] # "/"
      <4>1. \A i \in 1 .. k : n[i] # "/"
        BY <3>1 DEF Contains
      <4>2. \A i \in 1 .. Len(n) : i \in 1 .. k \/ i \in k + 1 .. Len(n)
        BY <1>1
      <4>3. QED
        BY <4>1, <4>2
    <3>3. QED
      BY <2>1, <3>2, RFindIs DEF Contains
  <2>2. CASE r # 0
    <3>1. r \in 1 .. Len(n) /\ n[r] = "/"
      BY <1>1, <2>2, RFindIs
    <3>2. ASSUME NEW i \in r + 1 .. Len(n) PROVE n[i] # "/"
      <4>1. CASE i <= k
        <5>1. i \in 1 .. Len(p) /\ ~ (i <= r) /\ i \in 1 .. k
          BY <1>1, <2>2, <4>1
        <5>2. QED
          BY <5>1, RFindIs
      <4>2. CASE i > k
        BY <1>1, <4>2
      <4>3. i <= k \/ i > k
        BY <1>1
      <4>4. QED
        BY <4>1, <4>2, <4>3
    <3>3. QED
      BY <3>1, <3>2, RFindAt
  <2>3. QED
    BY <2>1, <2>2
<1>3. SubSeq(n, 1, r) = SubSeq(p, 1, r)
  <2>1. /\ SubSeq(n, 1, r) \in Seq(S) /\ SubSeq(p, 1, r) \in Seq(S)
        /\ Len(SubSeq(n, 1, r)) = r /\ Len(SubSeq(p, 1, r)) = r
        /\ \A i \in 1 .. r : SubSeq(n, 1, r)[i] = n[i] /\ SubSeq(p, 1, r)[i] = p[i]
    BY <1>1
  <2>2. \A i \in 1 .. r : n[i] = p[i]
    BY <1>1
  <2>3. QED
    BY <2>1, <2>2, SeqEqual
<1>4. QED
  BY <1>2, <1>3 DEF Directory

\* setExt keeps the directory of a path that has an extension, or no dot.
LEMMA WithExtDirectory ==
  ASSUME NEW p \in Seq(Chars), ~ Contains(p, ".") \/ RFind(p, ".") > RFind(p, "/")
  PROVE  Directory(WithExt(p)) = Directory(p)
<1> DEFINE b == Before(p, RFind(p, "."))
           e == <<".">> \o Extension
<1>1. /\ RFind(p, ".") \in 0 .. Len(p) /\ (RFind(p, ".") = 0 <=> ~ Contains(p, "."))
      /\ RFind(p, "/") \in 0 .. Len(p) /\ Len(p) \in Nat
  BY RFindIs
<1>2. /\ b \in Seq(Chars) /\ Len(b) \in Nat
      /\ Len(b) = IF RFind(p, ".") = 0 THEN Len(p) ELSE RFind(p, ".") - 1
      /\ \A i \in 1 .. Len(b) : b[i] = p[i]
  BY <1>1, BeforeIs
<1>3. Len(b) <= Len(p) /\ RFind(p, "/") <= Len(b)
  BY <1>1, <1>2
<1>4. /\ e \in Seq(Chars) /\ Len(e) = 2 /\ e[1] # "/" /\ e[2] # "/"
      /\ <<".">> \in Seq(Chars) /\ Extension \in Seq(Chars)
  BY DEF Chars, Extension
<1> HIDE DEF b, e
<1> DEFINE n == b \o e
<1>5. WithExt(p) = n
  BY <1>2, <1>4, ConcatAssociative DEF WithExt, b, e
<1>6. /\ n \in Seq(Chars) /\ Len(n) = Len(b) + 2
      /\ \A i \in 1 .. Len(b) + 2 : n[i] = IF i <= Len(b) THEN b[i] ELSE e[i - Len(b)]
  <2>1. /\ n \in Seq(Chars) /\ Len(n) = Len(b) + Len(e)
        /\ \A i \in 1 .. Len(b) + Len(e) : n[i] = IF i <= Len(b) THEN b[i] ELSE e[i - Len(b)]
    BY <1>2, <1>4, ConcatProperties
  <2> HIDE DEF n
  <2>2. QED
    BY <1>4, <2>1
<1> HIDE DEF n
<1>7. \A i \in 1 .. Len(b) : n[i] = p[i]
  BY <1>2, <1>6
<1>8. ASSUME NEW i \in Len(b) + 1 .. Len(n) PROVE n[i] # "/"
  <2>1. i - Len(b) \in {1, 2} /\ ~ (i <= Len(b)) /\ i \in 1 .. Len(b) + 2
    BY <1>2, <1>6
  <2>2. n[i] = e[i - Len(b)]
    BY <1>6, <2>1
  <2>3. QED
    BY <1>4, <2>1, <2>2
<1>9. QED
  <2>1. Len(b) <= Len(n)
    BY <1>2, <1>6
  <2>2. Directory(n) = Directory(p)
    BY <1>2, <1>3, <1>6, <1>7, <1>8, <2>1, SameDirectory
  <2>3. QED
    BY <1>5, <2>2

\* setParam replaces what is behind the last question mark; the path ends at
\* the first.
LEMMA WithParam ==
  ASSUME NEW u \in Seq(Chars)
  PROVE  /\ GetParam("GET", SetParam("GET", u, Param)) = Param
         /\ GetPath(SetParam("GET", u, Param)) = GetPath(u)
<1> DEFINE r == RFind(u, "?")
           f == Find(u, "?")
           b == Before(u, r)
           e == <<"?">> \o Param
           x == b \o <<"?">> \o Param
<1>1. /\ r \in 0 .. Len(u) /\ (r = 0 <=> ~ Contains(u, "?")) /\ (r # 0 => u[r] = "?")
      /\ \A i \in 1 .. Len(u) : u[i] = "?" => i <= r
      /\ Len(u) \in Nat
  BY RFindIs
<1>2. /\ f \in 0 .. Len(u) /\ (f = 0 <=> ~ Contains(u, "?")) /\ (f # 0 => u[f] = "?")
      /\ \A i \in 1 .. Len(u) : u[i] = "?" => f <= i
  BY FindIs
<1>3. /\ b \in Seq(Chars) /\ Len(b) = IF r = 0 THEN Len(u) ELSE r - 1
      /\ \A i \in 1 .. Len(b) : b[i] = u[i]
  BY <1>1, BeforeIs
<1>4. /\ <<"?">> \in Seq(Chars) /\ Param \in Seq(Chars) /\ "?" \in Chars
      /\ e \in Seq(Chars) /\ Len(e) = 3 /\ e[1] = "?" /\ ~ Contains(Param, "?")
  BY DEF Chars, Param, Contains
<1>5. SetParam("GET", u, Param) = x
  BY DEF SetParam
<1> HIDE DEF r, f, b, e
<1>6. LastPart(x, "?") = Param
  BY <1>3, <1>4, LastDivides
<1>7. x = b \o e
  BY <1>3, <1>4, ConcatAssociative, SMTT(60) DEF e
<1> HIDE DEF x
<1>8. GetPath(x) = GetPath(u)
  <2>1. CASE r = 0
    <3>1. b = u /\ IsPath(u)
      BY <1>1, <2>1 DEF b, Before, IsPath
    <3>2. GetPath(x) = u
      BY <1>4, <1>7, <3>1, PartsOf DEF IsQuery
    <3>3. GetPath(u) = u
      BY <1>1, <1>2, <2>1 DEF GetPath, Before, f
    <3>4. QED
      BY <3>2, <3>3
  <2>2. CASE r # 0
    <3>1. /\ f \in 1 .. r /\ u[f] = "?" /\ \A i \in 1 .. f - 1 : u[i] # "?"
      <4>1. f \in 1 .. r /\ u[f] = "?"
        BY <1>1, <1>2, <2>2
      <4>2. ASSUME NEW i \in 1 .. f - 1 PROVE u[i] # "?"
        <5>1. i \in 1 .. Len(u) /\ ~ (f <= i)
          BY <1>2, <4>1
        <5>2. QED
          BY <1>2, <5>1
      <4>3. QED
        BY <4>1, <4>2
    <3>2. /\ x \in Seq(Chars) /\ Len(x) = r - 1 + 3
          /\ \A i \in 1 .. r - 1 + 3 : x[i] = IF i <= r - 1 THEN b[i] ELSE e[i - (r - 1)]
      <4>1. /\ b \o e \in Seq(Chars) /\ Len(b \o e) = Len(b) + Len(e)
            /\ \A i \in 1 .. Len(b) + Len(e) : (b \o e)[i] = IF i <= Len(b) THEN b[i] ELSE e[i - Len(b)]
        BY <1>3, <1>4, ConcatProperties
      <4>2. Len(b) = r - 1 /\ Len(e) = 3
        BY <1>3, <1>4, <2>2
      <4>3. QED
        BY <1>7, <4>1, <4>2
    <3>3. \A i \in 1 .. r : x[i] = u[i]
      <4>1. \A i \in 1 .. r - 1 : x[i] = u[i]
        BY <1>1, <1>3, <2>2, <3>2
      <4>2. x[r] = u[r]
        <5>1. r \in 1 .. r - 1 + 3 /\ ~ (r <= r - 1) /\ r - (r - 1) = 1
          BY <1>1, <2>2
        <5>2. QED
          BY <1>1, <1>4, <2>2, <3>2, <5>1
      <4>3. \A i \in 1 .. r : i \in 1 .. r - 1 \/ i = r
        BY <1>1, <2>2
      <4>4. QED
        BY <4>1, <4>2, <4>3
    <3>4. Find(x, "?") = f
      <4>1. f \in 1 .. Len(x) /\ x[f] = "?"
        BY <1>1, <3>1, <3>2, <3>3
      <4>2. \A i \in 1 .. f - 1 : i \in 1 .. r
        BY <1>1, <3>1
      <4>3. QED
        BY <3>1, <3>2, <3>3, <4>1, <4>2, FindAt
    <3>5. GetPath(x) = SubSeq(x, 1, f - 1) /\ GetPath(u) = SubSeq(u, 1, f - 1)
      BY <3>1, <3>4 DEF GetPath, Before, f
    <3>6. /\ SubSeq(x, 1, f - 1) \in Seq(Chars) /\ SubSeq(u, 1, f - 1) \in Seq(Chars)
          /\ Len(SubSeq(x, 1, f - 1)) = f - 1 /\ Len(SubSeq(u, 1, f - 1)) = f - 1
          /\ \A i \in 1 .. f - 1 : SubSeq(x, 1, f - 1)[i] = x[i] /\ SubSeq(u, 1, f - 1)[i] = u[i]
      BY <1>1, <3>1, <3>2
    <3>7. \A i \in 1 .. f - 1 : x[i] = u[i]
      BY <1>1, <3>1, <3>3
    <3>8. QED
      BY <1>1, <3>1, <3>5, <3>6, <3>7, SeqEqual
  <2>3. QED
    BY <2>1, <2>2
<1>9. QED
  BY <1>5, <1>6, <1>8 DEF GetParam, LastPart

\* All together.
LEMMA SettersAre ==
  ASSUME NEW m, NEW u \in Seq(Chars)
  PROVE  SettersReadBack(m, u)
<1> DEFINE p == GetPath(u)
           q == Query(u)
<1>1. /\ p \in Seq(Chars) /\ q \in Seq(Chars) /\ u = p \o q /\ IsPath(p) /\ IsQuery(q)
  BY UriIs
<1>2. WithExt(p) \in Seq(Chars) /\ IsPath(WithExt(p)) /\ LastPart(WithExt(p), ".") = Extension
  BY <1>1, WithExtIs
<1>3. SetExt(u, Extension) = WithExt(p) \o q
  BY <1>1, <1>2, SetPathIs DEF SetExt, WithExt
<1> HIDE DEF p, q
<1>4. GetExt(SetExt(u, Extension)) = Extension
  BY <1>1, <1>2, <1>3, ExtOf
<1>5. GetParam(m, SetExt(u, Extension)) = GetParam(m, u)
  BY <1>1, <1>2, <1>3, ParamOf
<1>6. GetPath(SetExt(u, Extension)) = WithExt(p)
  BY <1>1, <1>2, <1>3, PartsOf
<1>7. ~ Contains(p, ".") \/ RFind(p, ".") > RFind(p, "/") =>
        Directory(GetPath(SetExt(u, Extension))) = Directory(p)
  BY <1>1, <1>6, WithExtDirectory
<1>8. GetPath(SetParam(m, u, Param)) = p
  BY WithParam DEF SetParam, p
<1>9. GetParam("GET", SetParam("GET", u, Param)) = Param
  BY WithParam
<1>10. QED
  BY <1>4, <1>5, <1>7, <1>8, <1>9 DEF SettersReadBack, Extension, Param, p

-----------------------------------------------------------------------------
(***************************************************************************)
(* The URI of the request that is being handled.                           *)
(***************************************************************************)

\* The path after checkAndInit, and after baseHandle has found a directory.
FirstPath(u) ==
  WebFileDirPath \o (IF IsDefault(GetPath(u)) THEN DefaultHtmlName ELSE GetPath(u))
ServedPath(u, again) ==
  IF again THEN FirstPath(u) \o <<"/">> \o DefaultHtmlName ELSE FirstPath(u)

\* The URI is the served path with the query of the URI that was sent.
Edited ==
  /\ stage # "handle" => redirected = FALSE
  /\ stage = "handle" =>
       asked.uri \in Seq(Chars) /\ uri = ServedPath(asked.uri, redirected) \o Query(asked.uri)

\* The server's own names.
LEMMA DirAndName ==
  /\ WebFileDirPath \in Seq(Chars) /\ DefaultHtmlName \in Seq(Chars)
  /\ <<"/">> \in Seq(Chars) /\ <<"i">> \in Seq(Chars) /\ "." \in Chars
  /\ ~ Contains(WebFileDirPath, "?") /\ ~ Contains(DefaultHtmlName, "?")
  /\ ~ Contains(<<"/">>, "?")
  /\ DefaultHtmlName = <<"i">> \o <<".">> \o Extension
  /\ Contains(DefaultHtmlName, ".") /\ LastPart(DefaultHtmlName, ".") = Extension
<1>1. /\ WebFileDirPath \in Seq(Chars) /\ DefaultHtmlName \in Seq(Chars)
      /\ <<"/">> \in Seq(Chars) /\ <<"i">> \in Seq(Chars) /\ "." \in Chars
      /\ Extension \in Seq(Chars)
  BY DEF WebFileDirPath, DefaultHtmlName, Chars, Extension
<1>2. ~ Contains(DefaultHtmlName, "?") /\ ~ Contains(<<"/">>, "?") /\ ~ Contains(Extension, ".")
      /\ Contains(DefaultHtmlName, ".")
  BY DEF Contains, DefaultHtmlName, Extension
<1>3. ~ Contains(WebFileDirPath, "?")
  BY DEF Contains, WebFileDirPath
<1>4. DefaultHtmlName = <<"i">> \o <<".">> \o Extension
  BY DEF DefaultHtmlName, Extension
<1>5. QED
  BY <1>1, <1>2, <1>3, <1>4, LastDivides

\* They bring no question mark into the path.
LEMMA PathsAre ==
  ASSUME NEW u \in Seq(Chars), NEW again \in BOOLEAN
  PROVE  /\ FirstPath(u) \in Seq(Chars) /\ IsPath(FirstPath(u))
         /\ ServedPath(u, again) \in Seq(Chars) /\ IsPath(ServedPath(u, again))
<1> DEFINE p == IF IsDefault(GetPath(u)) THEN DefaultHtmlName ELSE GetPath(u)
           d == FirstPath(u) \o <<"/">>
<1>1. p \in Seq(Chars) /\ ~ Contains(p, "?")
  BY UriIs, DirAndName DEF IsPath
<1>2. FirstPath(u) = WebFileDirPath \o p
  BY DEF FirstPath
<1> HIDE DEF p
<1>3. FirstPath(u) \in Seq(Chars) /\ ~ Contains(FirstPath(u), "?")
  BY <1>1, <1>2, DirAndName, ConcatProperties, NotInConcat
<1>4. d \in Seq(Chars) /\ ~ Contains(d, "?")
  BY <1>3, DirAndName, ConcatProperties, NotInConcat
<1>5. ServedPath(u, again) = IF again THEN d \o DefaultHtmlName ELSE FirstPath(u)
  BY DEF ServedPath
<1> HIDE DEF d
<1>6. d \o DefaultHtmlName \in Seq(Chars) /\ ~ Contains(d \o DefaultHtmlName, "?")
  <2>1. DefaultHtmlName \in Seq(Chars) /\ ~ Contains(DefaultHtmlName, "?")
    BY DirAndName
  <2>2. QED
    BY <1>4, <2>1, ConcatProperties, NotInConcat
<1>7. QED
  BY <1>3, <1>5, <1>6 DEF IsPath

\* The extension of the path served: the server's page or the one sent.
LEMMA ExtensionServed ==
  ASSUME NEW u \in Seq(Chars), NEW again \in BOOLEAN
  PROVE  LastPart(ServedPath(u, again), ".") \in DynamicExtNames <=>
           /\ LastPart(GetPath(u), ".") \in DynamicExtNames
           /\ ~ IsDefault(GetPath(u)) /\ ~ again
<1> DEFINE p == GetPath(u)
           w == WebFileDirPath
<1>1. p \in Seq(Chars)
  BY UriIs
<1>2. Extension \notin DynamicExtNames
  BY DEF Extension, DynamicExtNames
<1>3. DefaultHtmlName \in Seq(Chars) /\ Contains(DefaultHtmlName, ".") /\ w \in Seq(Chars)
  BY DirAndName
<1>4. CASE again
  <2> DEFINE d == FirstPath(u) \o <<"/">>
  <2>1. d \in Seq(Chars)
    BY PathsAre, DirAndName, ConcatProperties
  <2>2. ServedPath(u, again) = d \o DefaultHtmlName
    BY <1>4 DEF ServedPath
  <2> HIDE DEF d
  <2>3. LastPart(d \o DefaultHtmlName, ".") = LastPart(DefaultHtmlName, ".")
    BY <1>3, <2>1, LastOfSecond
  <2>4. QED
    BY <1>2, <1>4, <2>2, <2>3, DirAndName
<1>5. CASE ~ again /\ IsDefault(p)
  <2>1. ServedPath(u, again) = w \o DefaultHtmlName
    BY <1>5 DEF ServedPath, FirstPath
  <2>2. LastPart(w \o DefaultHtmlName, ".") = LastPart(DefaultHtmlName, ".")
    BY <1>3, LastOfSecond
  <2>3. QED
    BY <1>2, <1>5, <2>1, <2>2, DirAndName
<1>6. CASE ~ again /\ ~ IsDefault(p)
  <2>1. ServedPath(u, again) = w \o p
    BY <1>6 DEF ServedPath, FirstPath
  <2>2. CASE Contains(p, ".")
    BY <1>1, <1>6, <2>1, <2>2, DirAndName, LastOfSecond
  <2>3. CASE ~ Contains(p, ".")
    <3> DEFINE s == w \o p
    <3>1. LastPart(p, ".") = <<>>
      BY <1>1, <2>3, RFindIs DEF LastPart, After
    <3>2. /\ s \in Seq(Chars) /\ Len(s) = Len(w) + Len(p) /\ Len(p) \in Nat
          /\ \A i \in 1 .. Len(w) + Len(p) : s[i] = IF i <= Len(w) THEN w[i] ELSE p[i - Len(w)]
      BY <1>1, DirAndName, ConcatProperties
    <3>3. Len(w) = 4 /\ w[1] = "." /\ w[2] # "." /\ w[3] # "." /\ w[4] # "."
      BY DEF WebFileDirPath
    <3> HIDE DEF s, w, p
    <3>4. RFind(s, ".") = 1
      <4>1. 1 \in 1 .. Len(s) /\ s[1] = "."
        BY <3>2, <3>3
      <4>2. ASSUME NEW i \in 2 .. Len(s) PROVE s[i] # "."
        <5>1. CASE i <= 4
          <6>1. i \in {2, 3, 4} /\ s[i] = w[i]
            BY <3>2, <3>3, <5>1
          <6>2. QED
            BY <3>3, <6>1
        <5>2. CASE ~ (i <= 4)
          <6>1. i \in 1 .. 4 + Len(p) /\ i - 4 \in 1 .. Len(p)
            BY <3>2, <3>3, <5>2
          <6>2. s[i] = p[i - 4]
            BY <3>2, <3>3, <5>2, <6>1
          <6>3. QED
            BY <2>3, <6>1, <6>2 DEF Contains
        <5>3. QED
          BY <5>1, <5>2
      <4>3. QED
        BY <3>2, <4>1, <4>2, RFindAt
    <3>5. Len(LastPart(s, ".")) = 3 + Len(p)
      <4>1. Len(After(s, 1)) = Len(s) - 1
        BY <3>2, <3>3, AfterIs
      <4>2. QED
        BY <3>2, <3>3, <3>4, <4>1 DEF LastPart
    <3>6. LastPart(s, ".") # <<"c">> /\ LastPart(p, ".") # <<"c">>
      <4>1. LastPart(s, ".") # <<"c">>
        <5>1. Len(<<"c">>) = 1
          OBVIOUS
        <5>2. Len(p) \in Nat
          BY <3>2
        <5>3. 3 + Len(p) # 1
          BY <5>2
        <5>4. QED
          BY <3>5, <5>1, <5>3, Zenon
      <4>2. <<>> # <<"c">>
        OBVIOUS
      <4>3. QED
        BY <3>1, <4>1, <4>2
    <3>7. QED
      BY <2>1, <3>6 DEF DynamicExtNames, s, p
  <2>4. QED
    BY <2>2, <2>3
<1>7. QED
  BY <1>4, <1>5, <1>6

\* Such a URI has the meaning of the one sent.
LEMMA EditedMeans == Edited /\ redirected \in BOOLEAN => UriKeepsMeaning
<1> SUFFICES ASSUME Edited, redirected \in BOOLEAN, stage = "handle"
             PROVE  /\ GetParam(asked.method, uri) = GetParam(asked.method, asked.uri)
                    /\ IsDynamic(uri) <=> /\ IsDynamic(asked.uri)
                                          /\ ~ IsDefault(GetPath(asked.uri))
                                          /\ ~ redirected
                    /\ SettersReadBack(asked.method, uri)
  BY DEF UriKeepsMeaning
<1> DEFINE u == asked.uri
           p == ServedPath(u, redirected)
<1>1. /\ u \in Seq(Chars) /\ uri = p \o Query(u)
      /\ p \in Seq(Chars) /\ IsPath(p)
  BY PathsAre DEF Edited
<1>2. /\ GetPath(u) \in Seq(Chars) /\ Query(u) \in Seq(Chars) /\ u = GetPath(u) \o Query(u)
      /\ IsPath(GetPath(u)) /\ IsQuery(Query(u))
  BY <1>1, UriIs
<1>3. GetExt(uri) = LastPart(p, ".") /\ GetExt(u) = LastPart(GetPath(u), ".")
  <2>1. GetExt(uri) = LastPart(p, ".")
    BY <1>1, <1>2, ExtOf
  <2>2. GetExt(u) = LastPart(GetPath(u), ".")
    BY DEF GetExt, LastPart
  <2>3. QED
    BY <2>1, <2>2
<1>4. uri \in Seq(Chars)
  BY <1>1, <1>2, ConcatProperties
<1>5. GetParam(asked.method, uri) = GetParam(asked.method, u)
  <2>1. GetParam(asked.method, p \o Query(u)) = GetParam(asked.method, GetPath(u) \o Query(u))
    BY <1>1, <1>2, ParamOf
  <2>2. QED
    BY <1>1, <1>2, <2>1
<1>6. IsDynamic(uri) <=> IsDynamic(u) /\ ~ IsDefault(GetPath(u)) /\ ~ redirected
  BY <1>1, <1>3, ExtensionServed DEF IsDynamic
<1>7. QED
  BY <1>4, <1>5, <1>6, SettersAre

-----------------------------------------------------------------------------
(***************************************************************************)
(* Lines of one token.                                                     *)
(***************************************************************************)

\* The first k lines, put together.
Pairs(s, k) == [j \in 1 .. 2 * k |-> IF j % 2 = 1 THEN s[(j + 1) \div 2] ELSE "nl"]

\* Every token of them is followed by its line end.
LEMMA PairsAre ==
  ASSUME NEW S, NEW s \in Seq(S), NEW k \in 0 .. Len(s)
  PROVE  /\ Pairs(s, k) \in Seq(S \cup {"nl"}) /\ Len(Pairs(s, k)) = 2 * k
         /\ \A j \in 1 .. k : Pairs(s, k)[2 * j - 1] = s[j] /\ Pairs(s, k)[2 * j] = "nl"
<1>1. k \in Nat /\ Len(s) \in Nat
  OBVIOUS
<1>2. ASSUME NEW j \in 1 .. 2 * k PROVE (IF j % 2 = 1 THEN s[(j + 1) \div 2] ELSE "nl") \in S \cup {"nl"}
  <2>1. j % 2 = 1 => (j + 1) \div 2 \in 1 .. Len(s)
    BY <1>1
  <2>2. QED
    BY <2>1
<1>3. Pairs(s, k) \in [1 .. 2 * k -> S \cup {"nl"}]
  BY <1>2 DEF Pairs
<1>4. Pairs(s, k) \in Seq(S \cup {"nl"}) /\ Len(Pairs(s, k)) = 2 * k
  <2>1. 2 * k \in Nat
    BY <1>1
  <2>2. Pairs(s, k) \in Seq(S \cup {"nl"})
    BY <1>3, <2>1, SeqDef
  <2>3. QED
    BY <1>3, <2>1, <2>2, LenProperties
<1>5. ASSUME NEW j \in 1 .. k PROVE Pairs(s, k)[2 * j - 1] = s[j] /\ Pairs(s, k)[2 * j] = "nl"
  <2>1. /\ 2 * j - 1 \in 1 .. 2 * k /\ 2 * j \in 1 .. 2 * k
        /\ (2 * j - 1) % 2 = 1 /\ (2 * j) % 2 # 1 /\ ((2 * j - 1) + 1) \div 2 = j
    BY <1>1
  <2>2. QED
    BY <2>1 DEF Pairs
<1>6. QED
  BY <1>4, <1>5

\* One more line is put behind the others.
LEMMA PairsGrow ==
  ASSUME NEW S, NEW s \in Seq(S), NEW k \in 1 .. Len(s)
  PROVE  Pairs(s, k) = Pairs(s, k - 1) \o <<s[k], "nl">>
<1> DEFINE a == Pairs(s, k - 1)
           e == <<s[k], "nl">>
           T == S \cup {"nl"}
<1>1. /\ a \in Seq(T) /\ Len(a) = 2 * k - 2
      /\ \A j \in 1 .. k - 1 : a[2 * j - 1] = s[j] /\ a[2 * j] = "nl"
  <2>1. k - 1 \in 0 .. Len(s) /\ 2 * (k - 1) = 2 * k - 2
    OBVIOUS
  <2>2. QED
    BY <2>1, PairsAre
<1>2. /\ Pairs(s, k) \in Seq(T) /\ Len(Pairs(s, k)) = 2 * k
      /\ \A j \in 1 .. k : Pairs(s, k)[2 * j - 1] = s[j] /\ Pairs(s, k)[2 * j] = "nl"
  <2>1. k \in 0 .. Len(s)
    OBVIOUS
  <2>2. QED
    BY <2>1, PairsAre
<1>3. s[k] \in S /\ e \in Seq(T) /\ Len(e) = 2 /\ e[1] = s[k] /\ e[2] = "nl"
  OBVIOUS
<1> HIDE DEF a, e, T
<1>4. /\ a \o e \in Seq(T) /\ Len(a \o e) = 2 * k
      /\ \A i \in 1 .. 2 * k : (a \o e)[i] = IF i <= 2 * k - 2 THEN a[i] ELSE e[i - (2 * k - 2)]
  <2>1. /\ a \o e \in Seq(T) /\ Len(a \o e) = Len(a) + Len(e)
        /\ \A i \in 1 .. Len(a) + Len(e) : (a \o e)[i] = IF i <= Len(a) THEN a[i] ELSE e[i - Len(a)]
    BY <1>1, <1>3, ConcatProperties
  <2>2. Len(a) + Len(e) = 2 * k
    BY <1>1, <1>3
  <2>3. QED
    BY <1>1, <2>1, <2>2
<1>5. ASSUME NEW i \in 1 .. 2 * k PROVE Pairs(s, k)[i] = (a \o e)[i]
  <2>1. PICK j \in 1 .. k : i = 2 * j - 1 \/ i = 2 * j
    <3>1. CASE i % 2 = 1
      <4>1. (i + 1) \div 2 \in 1 .. k /\ i = 2 * ((i + 1) \div 2) - 1
        BY <3>1
      <4>2. QED
        BY <4>1
    <3>2. CASE i % 2 # 1
      <4>1. i \div 2 \in 1 .. k /\ i = 2 * (i \div 2)
        BY <3>2
      <4>2. QED
        BY <4>1
    <3>3. QED
      BY <3>1, <3>2
  <2>2. CASE j <= k - 1
    <3>1. i <= 2 * k - 2 /\ j \in 1 .. k - 1
      BY <2>1, <2>2
    <3>2. QED
      BY <1>1, <1>2, <1>4, <2>1, <3>1
  <2>3. CASE j = k
    <3>1. ~ (i <= 2 * k - 2) /\ i - (2 * k - 2) = IF i = 2 * j THEN 2 ELSE 1
      BY <2>1, <2>3
    <3>2. i = 2 * j => Pairs(s, k)[i] = "nl"
      BY <1>2
    <3>3. i # 2 * j => i = 2 * j - 1 /\ Pairs(s, k)[i] = s[k]
      BY <1>2, <2>1, <2>3
    <3>4. QED
      BY <1>3, <1>4, <3>1, <3>2, <3>3
  <2>4. j <= k - 1 \/ j = k
    OBVIOUS
  <2>5. QED
    BY <2>2, <2>3, <2>4
<1>6. QED
  BY <1>2, <1>4, <1>5, SeqEqual DEF a, e

\* FlattenSeq, by the recursive function it defines.
IsFlat(f, l, n) == f = [i \in 1 .. n |-> IF i = 1 THEN l[i] ELSE f[i - 1] \o l[i]]
Flat(l, n) == CHOOSE f : IsFlat(f, l, n)

\* What FlattenSeq gives is that function's last value.
LEMMA FlattenIs ==
  ASSUME NEW l
  PROVE  FlattenSeq(l) = IF Len(l) = 0 THEN l ELSE Flat(l, Len(l))[Len(l)]
BY DEF FlattenSeq, Flat, IsFlat

\* Lines puts all of them together.
LEMMA LinesAre ==
  ASSUME NEW S, NEW s \in Seq(S)
  PROVE  Lines(s) = Pairs(s, Len(s))
<1> DEFINE n == Len(s)
           l == [i \in 1 .. n |-> <<s[i], "nl">>]
           flat == Flat(l, n)
           g == [i \in 1 .. n |-> Pairs(s, i)]
<1>1. n \in Nat /\ Len(l) = n
  OBVIOUS
<1>2. Lines(s) = IF n = 0 THEN l ELSE flat[n]
  <2>1. Lines(s) = FlattenSeq(l)
    BY DEF Lines
  <2>2. FlattenSeq(l) = IF n = 0 THEN l ELSE flat[n]
    <3> HIDE DEF l, n
    <3>1. QED
      BY <1>1, FlattenIs
  <2>3. QED
    BY <2>1, <2>2
<1>3. Pairs(s, 0) = <<>>
  <2>1. Pairs(s, 0) \in Seq(S \cup {"nl"}) /\ Len(Pairs(s, 0)) = 0
    BY PairsAre
  <2>2. QED
    BY <2>1, EmptySeq
<1>4. ASSUME NEW i \in 1 .. n PROVE g[i] = IF i = 1 THEN l[i] ELSE g[i - 1] \o l[i]
  <2>1. g[i] = Pairs(s, i - 1) \o l[i]
    BY PairsGrow
  <2>2. CASE i = 1
    <3>1. <<>> \o l[i] = l[i]
      <4>1. l[i] \in Seq(S \cup {"nl"})
        OBVIOUS
      <4>2. QED
        BY <4>1, ConcatEmptySeq
    <3>2. QED
      BY <1>3, <2>1, <2>2, <3>1
  <2>3. CASE i # 1
    <3>1. i - 1 \in 1 .. n
      BY <2>3
    <3>2. g[i - 1] = Pairs(s, i - 1)
      BY <3>1
    <3>3. QED
      BY <2>1, <2>3, <3>2
  <2>4. QED
    BY <2>2, <2>3
<1> HIDE DEF l
<1>5. IsFlat(g, l, n)
  <2>1. g = [i \in 1 .. n |-> g[i]]
    OBVIOUS
  <2> HIDE DEF g, n
  <2>2. QED
    BY <1>4, <2>1 DEF IsFlat
<1>6. IsFlat(flat, l, n)
  BY <1>5 DEF Flat
<1> HIDE DEF flat, g
<1>7. \A i \in 1 .. n : flat[i] = g[i]
  <2> DEFINE I == {i \in 1 .. n : flat[i] # g[i]}
  <2>1. I \subseteq Nat
    OBVIOUS
  <2>2. SUFFICES ASSUME I # {} PROVE FALSE
    OBVIOUS
  <2>3. PICK m \in I : \A i \in I : m <= i
    BY <2>1, <2>2, MinIs
  <2>4. m \in 1 .. n /\ flat[m] # g[m]
    OBVIOUS
  <2>5. flat[m] = IF m = 1 THEN l[m] ELSE flat[m - 1] \o l[m]
    BY <1>6, <2>4 DEF IsFlat
  <2>6. CASE m = 1
    BY <1>4, <2>4, <2>5, <2>6
  <2>7. CASE m # 1
    <3>1. m - 1 \in 1 .. n /\ ~ (m <= m - 1)
      BY <2>4, <2>7
    <3>2. flat[m - 1] = g[m - 1]
      BY <2>3, <3>1
    <3>3. g[m] = g[m - 1] \o l[m]
      BY <1>4, <2>4, <2>7
    <3>4. QED
      BY <2>4, <2>5, <2>7, <3>2, <3>3
  <2>8. QED
    BY <2>6, <2>7
<1>8. CASE n = 0
  BY <1>2, <1>3, <1>8 DEF l
<1>9. CASE n # 0
  <2>1. n \in 1 .. n
    BY <1>1, <1>9
  <2>2. QED
    BY <1>2, <1>7, <1>9, <2>1 DEF g
<1>10. QED
  BY <1>8, <1>9

\* The first k lines of s are those of t, each a token and its line end.
Heads(s, t, k) ==
  /\ 2 * k <= Len(s)
  /\ \A j \in 1 .. k : s[2 * j - 1] = t[j] /\ t[j] # "nl" /\ s[2 * j] = "nl"

\* The line ends of such lines.
LEMMA EndsAre ==
  ASSUME NEW S, NEW s \in Seq(S), NEW t, NEW k \in Nat, Heads(s, t, k)
  PROVE  /\ \A j \in 1 .. k : 2 * j \in LineEnds(s)
         /\ \A i \in LineEnds(s) : i <= 2 * k => \E j \in 1 .. k : i = 2 * j
<1>1. Len(s) \in Nat /\ 2 * k <= Len(s)
  BY DEF Heads
<1>2. ASSUME NEW j \in 1 .. k PROVE 2 * j \in LineEnds(s)
  <2>1. 2 * j \in 1 .. Len(s)
    BY <1>1
  <2>2. QED
    BY <2>1 DEF LineEnds, Heads
<1>3. ASSUME NEW i \in LineEnds(s), i <= 2 * k PROVE \E j \in 1 .. k : i = 2 * j
  <2>1. i \in 1 .. 2 * k /\ s[i] = "nl"
    BY <1>1, <1>3 DEF LineEnds
  <2>2. CASE i % 2 = 1
    <3>1. (i + 1) \div 2 \in 1 .. k /\ i = 2 * ((i + 1) \div 2) - 1
      BY <2>1, <2>2
    <3>2. PICK j \in 1 .. k : i = 2 * j - 1
      BY <3>1
    <3>3. QED
      BY <2>1, <3>2 DEF Heads
  <2>3. CASE i % 2 # 1
    <3>1. i \div 2 \in 1 .. k /\ i = 2 * (i \div 2)
      BY <2>1, <2>3
    <3>2. QED
      BY <3>1
  <2>4. QED
    BY <2>2, <2>3
<1>4. QED
  BY <1>2, <1>3

\* The line end before a given place.
Previous(s, end) == Max({0} \cup {i \in LineEnds(s) : i < end})

\* A line end, or the beginning, with no line end between it and the place.
LEMMA PreviousIs ==
  ASSUME NEW S, NEW s \in Seq(S), NEW end \in 1 .. Len(s) + 1, NEW e \in 0 .. end - 1,
         e = 0 \/ e \in LineEnds(s),
         \A i \in LineEnds(s) : i < end => i <= e
  PROVE  Previous(s, end) = e
<1> DEFINE I == {0} \cup {i \in LineEnds(s) : i < end}
<1>1. Len(s) \in Nat /\ LineEnds(s) \subseteq 1 .. Len(s)
  BY DEF LineEnds
<1>2. I \subseteq 0 .. Len(s) /\ I # {}
  BY <1>1
<1>3. Max(I) \in I /\ \A i \in I : i <= Max(I)
  BY <1>1, <1>2, MaxIs
<1>4. e \in I /\ \A i \in I : i <= e
  BY <1>1
<1>5. Max(I) \in Nat /\ e \in Nat
  <2>1. Max(I) \in 0 .. Len(s)
    BY <1>2, <1>3
  <2>2. QED
    BY <1>1, <2>1
<1> HIDE DEF I
<1>6. e <= Max(I) /\ Max(I) <= e
  BY <1>3, <1>4
<1>7. QED
  BY <1>5, <1>6 DEF Previous, I

\* A line begins behind the line end before it.
LEMMA LineAtIs ==
  ASSUME NEW s, NEW end
  PROVE  LineAt(s, end) = SubSeq(s, Previous(s, end) + 1, end - 1)
BY DEF LineAt, Previous

\* Each of the lines is its token; a line end behind them ends an empty line.
LEMMA LineIs ==
  ASSUME NEW S, NEW s \in Seq(S), NEW t, NEW k \in Nat, Heads(s, t, k), NEW j \in 1 .. k
  PROVE  LineAt(s, 2 * j) = <<t[j]>>
<1>1. Len(s) \in Nat /\ 2 * k <= Len(s) /\ LineEnds(s) \subseteq 1 .. Len(s)
  BY DEF Heads, LineEnds
<1>2. Previous(s, 2 * j) = 2 * j - 2
  <2>1. 2 * j \in 1 .. Len(s) + 1 /\ 2 * j - 2 \in 0 .. 2 * j - 1
    BY <1>1
  <2>2. 2 * j - 2 = 0 \/ 2 * j - 2 \in LineEnds(s)
    <3>1. CASE j = 1
      BY <3>1
    <3>2. CASE j # 1
      <4>1. j - 1 \in 1 .. k /\ 2 * (j - 1) = 2 * j - 2
        BY <3>2
      <4>2. QED
        BY <4>1, EndsAre
    <3>3. QED
      BY <3>1, <3>2
  <2>3. ASSUME NEW i \in LineEnds(s), i < 2 * j PROVE i <= 2 * j - 2
    <3>1. i \in Nat /\ i <= 2 * k
      BY <1>1, <2>3
    <3>2. \A e \in LineEnds(s) : e <= 2 * k => \E h \in 1 .. k : e = 2 * h
      BY EndsAre
    <3>3. PICK h \in 1 .. k : i = 2 * h
      BY <3>1, <3>2
    <3>4. QED
      BY <2>3, <3>3
  <2>4. QED
    BY <2>1, <2>2, <2>3, PreviousIs
<1>3. LineAt(s, 2 * j) = SubSeq(s, 2 * j - 1, 2 * j - 1)
  <2>1. 2 * j - 2 + 1 = 2 * j - 1
    OBVIOUS
  <2>2. QED
    BY <1>2, <2>1 DEF LineAt, Previous
<1>4. 2 * j - 1 \in 1 .. Len(s) /\ s[2 * j - 1] = t[j]
  BY <1>1 DEF Heads
<1>5. QED
  <2> DEFINE h == 2 * j - 1
  <2>1. h \in 1 .. Len(s) /\ s[h] = t[j] /\ LineAt(s, 2 * j) = SubSeq(s, h, h)
    BY <1>3, <1>4
  <2> HIDE DEF h
  <2>2. SubSeq(s, h, h) = <<s[h]>>
    <3>1. h \in Int /\ s[h] \in S
      BY <1>1, <2>1
    <3>2. /\ SubSeq(s, h, h) \in Seq(S) /\ Len(SubSeq(s, h, h)) = 1
          /\ SubSeq(s, h, h)[1] = s[h]
      BY <1>1, <2>1, <3>1
    <3>3. <<s[h]>> \in Seq(S) /\ Len(<<s[h]>>) = 1 /\ <<s[h]>>[1] = s[h]
      BY <3>1
    <3> HIDE DEF h
    <3>4. \A i \in 1 .. Len(SubSeq(s, h, h)) : i = 1
      BY <3>2
    <3>5. QED
      BY <3>2, <3>3, <3>4, SeqEqual
  <2>3. QED
    BY <2>1, <2>2

\* A line end right behind the lines ends an empty line.
LEMMA EmptyLineIs ==
  ASSUME NEW S, NEW s \in Seq(S), NEW t, NEW k \in Nat, Heads(s, t, k),
         2 * k + 1 \in LineEnds(s)
  PROVE  LineAt(s, 2 * k + 1) = <<>>
<1>1. Len(s) \in Nat /\ 2 * k <= Len(s) /\ LineEnds(s) \subseteq 1 .. Len(s)
  BY DEF Heads, LineEnds
<1>2. Previous(s, 2 * k + 1) = 2 * k
  <2>1. 2 * k + 1 \in 1 .. Len(s) + 1 /\ 2 * k \in 0 .. 2 * k + 1 - 1
    BY <1>1
  <2>2. 2 * k = 0 \/ 2 * k \in LineEnds(s)
    <3>1. CASE k = 0
      BY <3>1
    <3>2. CASE k # 0
      <4>1. k \in 1 .. k
        BY <3>2
      <4>2. QED
        BY <4>1, EndsAre
    <3>3. QED
      BY <3>1, <3>2
  <2>3. \A i \in LineEnds(s) : i < 2 * k + 1 => i <= 2 * k
    BY <1>1
  <2>4. QED
    BY <2>1, <2>2, <2>3, PreviousIs
<1>3. LineAt(s, 2 * k + 1) = SubSeq(s, 2 * k + 1, 2 * k)
  <2> DEFINE end == 2 * k + 1
  <2>1. end - 1 = 2 * k /\ Previous(s, end) + 1 = end
    BY <1>2
  <2>2. LineAt(s, end) = SubSeq(s, Previous(s, end) + 1, end - 1)
    BY LineAtIs
  <2>3. QED
    BY <2>1, <2>2, Zenon
<1>4. 2 * k \in Int /\ 2 * k + 1 \in Int /\ 2 * k < 2 * k + 1
  OBVIOUS
<1>5. QED
  BY <1>3, <1>4, SubSeqEmpty

\* A line of one token is a header if the token is, and then the name is all
\* of it that counts.
LEMMA TokenHeader ==
  ASSUME NEW x, NEW Names
  PROVE  /\ IsHeader(<<x>>, Names) <=> x \in Names
         /\ x \in Names => Name(<<x>>, Names) = <<x>>
<1> DEFINE line == <<x>>
           I == {i \in 1 .. Len(line) : line[i] \in Names}
<1>1. line \in Seq({x}) /\ Len(line) = 1 /\ line[1] = x /\ 1 .. 1 = {1}
  OBVIOUS
<1>2. FirstHeader(line, Names) = IF I # {} THEN Min(I) ELSE 0
  BY DEF FirstHeader, SelectInSeq
<1> HIDE DEF line
<1>3. I = IF x \in Names THEN {1} ELSE {}
  BY <1>1
<1> HIDE DEF I
<1>4. I # {} => Min(I) \in I
  <2>1. I \subseteq Nat
    BY <1>3
  <2>2. QED
    BY <2>1, MinIs
<1>5. FirstHeader(line, Names) = IF x \in Names THEN 1 ELSE 0
  BY <1>2, <1>3, <1>4
<1>6. SubSeq(line, 1, 1) = line
  BY <1>1, SubSeqFull
<1>7. QED
  BY <1>5, <1>6 DEF IsHeader, Name, line

\* An empty line is no header.
LEMMA EmptyNoHeader ==
  ASSUME NEW Names
  PROVE  ~ IsHeader(<<>>, Names)
<1>1. {i \in 1 .. Len(<<>>) : <<>>[i] \in Names} = {}
  OBVIOUS
<1>2. FirstHeader(<<>>, Names) = 0
  BY <1>1 DEF FirstHeader, SelectInSeq
<1>3. QED
  BY <1>2 DEF IsHeader

\* The header lines among the first k of t.
HeaderLines(t, k, Names) == {<<t[j]>> : j \in {i \in 1 .. k : t[i] \in Names}}

\* They are the headers of a text that consists of those lines, with an empty
\* line behind them or the beginning of another one.
LEMMA HeadersAre ==
  ASSUME NEW S, NEW s \in Seq(S), NEW t, NEW k \in Nat, Heads(s, t, k), NEW Names,
         \A i \in LineEnds(s) : i <= 2 * k + 1
  PROVE  Headers(s, Names) = [n \in HeaderLines(t, k, Names) |-> n]
<1> DEFINE ends == {i \in LineEnds(s) : IsHeader(LineAt(s, i), Names)}
           with(n) == {i \in ends : Name(LineAt(s, i), Names) = n}
           D == {Name(LineAt(s, i), Names) : i \in ends}
<1>1. Headers(s, Names) = [n \in D |-> LineAt(s, Max(with(n)))]
  BY DEF Headers
<1>2. Len(s) \in Nat /\ LineEnds(s) \subseteq 1 .. Len(s)
  BY DEF LineEnds
<1>3. ASSUME NEW i \in ends
      PROVE  \E j \in 1 .. k : /\ i = 2 * j /\ t[j] \in Names
                               /\ LineAt(s, i) = <<t[j]>> /\ Name(LineAt(s, i), Names) = <<t[j]>>
  <2>1. i # 2 * k + 1
    <3> SUFFICES ASSUME i = 2 * k + 1 PROVE FALSE
      OBVIOUS
    <3>1. LineAt(s, i) = <<>>
      BY EmptyLineIs
    <3>2. QED
      BY <3>1, EmptyNoHeader
  <2>2. i \in Nat /\ i <= 2 * k + 1
    BY <1>2
  <2>3. i <= 2 * k
    BY <2>1, <2>2
  <2>4. PICK j \in 1 .. k : i = 2 * j
    BY <2>3, EndsAre
  <2>5. LineAt(s, i) = <<t[j]>>
    BY <2>4, LineIs
  <2>6. t[j] \in Names /\ Name(LineAt(s, i), Names) = <<t[j]>>
    BY <2>5, TokenHeader
  <2>7. QED
    BY <2>4, <2>5, <2>6
<1>4. ASSUME NEW j \in 1 .. k, t[j] \in Names
      PROVE  2 * j \in ends /\ Name(LineAt(s, 2 * j), Names) = <<t[j]>>
  <2>1. 2 * j \in LineEnds(s) /\ LineAt(s, 2 * j) = <<t[j]>>
    BY EndsAre, LineIs
  <2>2. QED
    BY <1>4, <2>1, TokenHeader
<1>5. D = HeaderLines(t, k, Names)
  <2>1. ASSUME NEW n \in D PROVE n \in HeaderLines(t, k, Names)
    BY <1>3 DEF HeaderLines
  <2>2. ASSUME NEW n \in HeaderLines(t, k, Names) PROVE n \in D
    <3>1. PICK j \in 1 .. k : t[j] \in Names /\ n = <<t[j]>>
      BY DEF HeaderLines
    <3>2. QED
      BY <1>4, <3>1
  <2>3. QED
    BY <2>1, <2>2
<1>6. ASSUME NEW n \in D PROVE LineAt(s, Max(with(n))) = n
  <2>1. with(n) \subseteq 0 .. Len(s) /\ with(n) # {}
    BY <1>2
  <2>2. Max(with(n)) \in with(n)
    BY <1>2, <2>1, MaxIs
  <2>3. Max(with(n)) \in ends /\ Name(LineAt(s, Max(with(n))), Names) = n
    BY <2>2
  <2>4. QED
    BY <1>3, <2>3
<1>7. QED
  <2> HIDE DEF D, with
  <2>1. [n \in D |-> LineAt(s, Max(with(n)))] = [n \in D |-> n]
    BY <1>6
  <2>2. QED
    BY <1>1, <1>5, <2>1

\* The first empty line is the one behind the lines.
LEMMA BlankIs ==
  ASSUME NEW S, NEW s \in Seq(S), NEW t, NEW k \in Nat, Heads(s, t, k),
         2 * k + 1 \in LineEnds(s)
  PROVE  Blank(s) = 2 * k + 1 /\ HeaderEnds(s) = {2 * j : j \in 1 .. k}
<1> DEFINE n == Len(s)
           I == {i \in LineEnds(s) : LineAt(s, i) = <<>>} \cup {n + 1}
           e == 2 * k + 1
<1>1. n \in Nat /\ LineEnds(s) \subseteq 1 .. n /\ e \in 1 .. n
  BY DEF LineEnds
<1>2. Min(I) \in I /\ \A i \in I : Min(I) <= i
  <2>1. I \subseteq Nat /\ I # {}
    BY <1>1
  <2>2. QED
    BY <2>1, MinIs
<1>3. e \in I
  BY EmptyLineIs
<1>4. ASSUME NEW i \in I PROVE e <= i
  <2>1. i \in Nat
    BY <1>1
  <2>2. SUFFICES ASSUME i <= 2 * k PROVE FALSE
    BY <2>1
  <2>3. i \in LineEnds(s) /\ LineAt(s, i) = <<>>
    BY <1>1, <2>2
  <2>4. PICK j \in 1 .. k : i = 2 * j
    BY <2>2, <2>3, EndsAre
  <2>5. <<t[j]>> = <<>>
    BY <2>3, <2>4, LineIs
  <2>6. QED
    BY <2>5
<1>5. Min(I) = e
  <2>1. Min(I) <= e /\ e <= Min(I)
    BY <1>2, <1>3, <1>4
  <2>2. Min(I) \in Nat
    BY <1>1, <1>2
  <2> HIDE DEF I
  <2>3. QED
    BY <2>1, <2>2
<1>6. Blank(s) = e
  <2>1. Blank(s) = Min(I) % (n + 1)
    BY DEF Blank
  <2>2. e % (n + 1) = e
    <3> HIDE DEF e
    <3>1. QED
      BY <1>1
  <2>3. QED
    BY <1>5, <2>1, <2>2, Zenon
<1>7. HeaderEnds(s) = {2 * j : j \in 1 .. k}
  <2>1. HeaderEnds(s) = {i \in LineEnds(s) : i < e}
    BY <1>6 DEF HeaderEnds
  <2>2. ASSUME NEW i \in LineEnds(s), i < e PROVE \E j \in 1 .. k : i = 2 * j
    <3>1. i <= 2 * k
      BY <1>1, <2>2
    <3>2. QED
      BY <3>1, EndsAre
  <2>3. ASSUME NEW j \in 1 .. k PROVE 2 * j \in LineEnds(s) /\ 2 * j < e
    BY EndsAre
  <2>4. QED
    BY <2>1, <2>2, <2>3
<1>8. QED
  BY <1>6, <1>7

-----------------------------------------------------------------------------
(***************************************************************************)
(* Messages of header lines, an empty line and a body.                     *)
(***************************************************************************)
\* The parts of what is put together are where they are expected.
LEMMA ConcatAt ==
  ASSUME NEW S, NEW a \in Seq(S), NEW b \in Seq(S)
  PROVE  /\ a \o b \in Seq(S) /\ Len(a \o b) = Len(a) + Len(b)
         /\ \A i \in 1 .. Len(a) : (a \o b)[i] = a[i]
         /\ \A i \in 1 .. Len(b) : (a \o b)[Len(a) + i] = b[i]
<1> DEFINE m == a \o b
           k == Len(a)
<1>1. /\ m \in Seq(S) /\ Len(m) = k + Len(b) /\ Len(b) \in Nat /\ k \in Nat
      /\ \A i \in 1 .. k + Len(b) : m[i] = IF i <= k THEN a[i] ELSE b[i - k]
  BY ConcatProperties
<1> HIDE DEF m, k
<1>2. \A i \in 1 .. k : m[i] = a[i]
  BY <1>1
<1>3. ASSUME NEW i \in 1 .. Len(b) PROVE m[k + i] = b[i]
  <2> DEFINE h == k + i
  <2>1. h \in 1 .. k + Len(b) /\ ~ (h <= k) /\ h - k = i
    BY <1>1
  <2> HIDE DEF h
  <2>2. m[h] = b[i]
    BY <1>1, <2>1
  <2>3. QED
    BY <2>2 DEF h
<1>4. QED
  BY <1>1, <1>2, <1>3 DEF m, k

\* Lines, the empty line and a body.
Message(l, b) == Lines(l) \o <<"nl">> \o b

\* The tokens of its lines are no line ends.
NoLineEnd(l) == \A j \in 1 .. Len(l) : l[j] # "nl"

\* It begins with its lines; the empty line and the body are behind them.
LEMMA MessageIs ==
  ASSUME NEW S, "nl" \in S, NEW l \in Seq(S), NoLineEnd(l), NEW b \in Seq(S)
  PROVE  /\ Message(l, b) \in Seq(S) /\ Len(Message(l, b)) = 2 * Len(l) + 1 + Len(b)
         /\ Heads(Message(l, b), l, Len(l))
         /\ 2 * Len(l) + 1 \in LineEnds(Message(l, b))
         /\ \A i \in 1 .. Len(b) : Message(l, b)[2 * Len(l) + 1 + i] = b[i]
<1> DEFINE n == Len(l)
           a == Pairs(l, n)
           c == a \o <<"nl">>
           m == c \o b
<1>1. n \in Nat /\ Len(b) \in Nat /\ S \cup {"nl"} = S
  OBVIOUS
<1>2. /\ a \in Seq(S) /\ Len(a) = 2 * n
      /\ \A j \in 1 .. n : a[2 * j - 1] = l[j] /\ a[2 * j] = "nl"
  BY <1>1, PairsAre
<1>3. <<"nl">> \in Seq(S) /\ Len(<<"nl">>) = 1 /\ <<"nl">>[1] = "nl"
  OBVIOUS
<1>4. Message(l, b) = m
  BY LinesAre DEF Message
<1> HIDE DEF a
<1>5. /\ c \in Seq(S) /\ Len(c) = 2 * n + 1
      /\ \A i \in 1 .. 2 * n : c[i] = a[i]
      /\ c[2 * n + 1] = "nl"
  <2> DEFINE e == <<"nl">>
  <2>1. 2 * n \in Nat /\ Len(e) = 1 /\ e \in Seq(S) /\ e[1] = "nl" /\ 1 \in 1 .. Len(e)
    BY <1>1, <1>3
  <2> DEFINE d == 2 * n
  <2>2. d \in Nat /\ d = Len(a)
    BY <1>2, <2>1
  <2> HIDE DEF d, e, n
  <2>3. /\ a \o e \in Seq(S) /\ Len(a \o e) = Len(a) + Len(e)
        /\ \A i \in 1 .. Len(a) : (a \o e)[i] = a[i]
        /\ \A i \in 1 .. Len(e) : (a \o e)[Len(a) + i] = e[i]
    <3>1. a \in Seq(S) /\ e \in Seq(S)
      BY <1>2, <2>1
    <3>2. QED
      BY <3>1, ConcatAt
  <2>4. QED
    BY <2>1, <2>2, <2>3 DEF d, e
<1> HIDE DEF c, n
<1>6. /\ m \in Seq(S) /\ Len(m) = 2 * n + 1 + Len(b)
      /\ \A i \in 1 .. 2 * n + 1 : m[i] = c[i]
      /\ \A i \in 1 .. Len(b) : m[2 * n + 1 + i] = b[i]
  <2> DEFINE d == 2 * n + 1
  <2>1. d \in Nat /\ d = Len(c)
    BY <1>1, <1>5
  <2> HIDE DEF d
  <2>2. /\ m \in Seq(S) /\ Len(m) = Len(c) + Len(b)
        /\ \A i \in 1 .. Len(c) : m[i] = c[i]
        /\ \A i \in 1 .. Len(b) : m[Len(c) + i] = b[i]
    <3>1. c \in Seq(S)
      BY <1>5
    <3>2. QED
      BY <3>1, ConcatAt
  <2>3. QED
    BY <2>1, <2>2 DEF d
<1> HIDE DEF m
<1>7. ASSUME NEW j \in 1 .. n PROVE m[2 * j - 1] = l[j] /\ m[2 * j] = "nl"
  <2>1. /\ 2 * j - 1 \in 1 .. 2 * n /\ 2 * j \in 1 .. 2 * n
        /\ 2 * j - 1 \in 1 .. 2 * n + 1 /\ 2 * j \in 1 .. 2 * n + 1
    BY <1>1
  <2>2. QED
    BY <1>2, <1>5, <1>6, <2>1
<1>8. Heads(m, l, n)
  <2>1. 2 * n <= Len(m)
    BY <1>1, <1>6
  <2>2. QED
    BY <1>7, <2>1 DEF Heads, NoLineEnd, n
<1>9. 2 * n + 1 \in LineEnds(m)
  <2>1. 2 * n + 1 \in 1 .. Len(m) /\ 2 * n + 1 \in 1 .. 2 * n + 1
    BY <1>1, <1>6
  <2>2. QED
    BY <1>5, <1>6, <2>1 DEF LineEnds
<1>10. QED
  BY <1>4, <1>6, <1>8, <1>9 DEF n

\* Its first empty line divides it.
LEMMA MessageParts ==
  ASSUME NEW S, "nl" \in S, NEW l \in Seq(S), NoLineEnd(l), NEW b \in Seq(S)
  PROVE  /\ Blank(Message(l, b)) = 2 * Len(l) + 1
         /\ HeaderEnds(Message(l, b)) = {2 * j : j \in 1 .. Len(l)}
         /\ \A j \in 1 .. Len(l) : LineAt(Message(l, b), 2 * j) = <<l[j]>>
         /\ \A Names : Headers(SubSeq(Message(l, b), 1, 2 * Len(l) + 1), Names) =
                         [n \in HeaderLines(l, Len(l), Names) |-> n]
         /\ SubSeq(Message(l, b), 2 * Len(l) + 2, Len(Message(l, b))) = b
<1> DEFINE n == Len(l)
           m == Message(l, b)
           h == SubSeq(m, 1, 2 * n + 1)
<1>1. /\ m \in Seq(S) /\ Len(m) = 2 * n + 1 + Len(b) /\ Heads(m, l, n)
      /\ 2 * n + 1 \in LineEnds(m)
      /\ \A i \in 1 .. Len(b) : m[2 * n + 1 + i] = b[i]
      /\ n \in Nat /\ Len(b) \in Nat
  BY MessageIs
<1> HIDE DEF m, n
<1>2. Blank(m) = 2 * n + 1 /\ HeaderEnds(m) = {2 * j : j \in 1 .. n}
  BY <1>1, BlankIs
<1>3. \A j \in 1 .. n : LineAt(m, 2 * j) = <<l[j]>>
  BY <1>1, LineIs
<1>4. /\ h \in Seq(S) /\ Len(h) = 2 * n + 1
      /\ \A i \in 1 .. 2 * n + 1 : h[i] = m[i]
  <2>1. 2 * n + 1 \in 0 .. Len(m)
    BY <1>1
  <2>2. QED
    BY <1>1, <2>1
<1> HIDE DEF h
<1>5. Heads(h, l, n)
  <2>1. ASSUME NEW j \in 1 .. n PROVE h[2 * j - 1] = m[2 * j - 1] /\ h[2 * j] = m[2 * j]
    <3>1. 2 * j - 1 \in 1 .. 2 * n + 1 /\ 2 * j \in 1 .. 2 * n + 1
      BY <1>1
    <3>2. QED
      BY <1>4, <3>1
  <2>2. 2 * n <= Len(h)
    BY <1>1, <1>4
  <2>3. QED
    BY <1>1, <2>1, <2>2 DEF Heads
<1>6. \A Names : Headers(h, Names) = [x \in HeaderLines(l, n, Names) |-> x]
  <2>1. \A i \in LineEnds(h) : i <= 2 * n + 1
    BY <1>4 DEF LineEnds
  <2>2. QED
    BY <1>1, <1>4, <1>5, <2>1, HeadersAre
<1>7. SubSeq(m, 2 * n + 2, Len(m)) = b
  <2> DEFINE e == SubSeq(m, 2 * n + 2, Len(m))
  <2>1. ASSUME NEW i \in 2 * n + 2 .. Len(m) PROVE m[i] \in S
    <3>1. i \in 1 .. Len(m)
      BY <1>1
    <3>2. QED
      BY <1>1, <3>1
  <2>2. 2 * n + 2 \in Int /\ Len(m) \in Int
    BY <1>1
  <2>3. /\ e \in Seq(S)
        /\ Len(e) = IF 2 * n + 2 <= Len(m) THEN Len(m) - (2 * n + 2) + 1 ELSE 0
        /\ \A i \in 1 .. Len(m) - (2 * n + 2) + 1 : e[i] = m[2 * n + 2 + i - 1]
    BY <2>1, <2>2, SubSeqProperties
  <2> HIDE DEF e
  <2>4. Len(e) = Len(b)
    BY <1>1, <2>3
  <2>5. ASSUME NEW i \in 1 .. Len(b) PROVE e[i] = b[i]
    <3>1. i \in 1 .. Len(m) - (2 * n + 2) + 1 /\ 2 * n + 2 + i - 1 = 2 * n + 1 + i
      BY <1>1
    <3>2. QED
      BY <1>1, <2>3, <3>1
  <2>6. QED
    BY <2>3, <2>4, <2>5, SeqEqual DEF e
<1>8. QED
  BY <1>2, <1>3, <1>6, <1>7 DEF m, n, h

-----------------------------------------------------------------------------
(***************************************************************************)
(* The output of a program.                                                *)
(***************************************************************************)
Words == {"m", "line", "nul", "h1", "h2", "t", "$", "tab", "nl", "s302", "s299", "sBad",
          "200", "302", "500", "Server", "Content-Type"}

IsOutput(l, b) == l \in Seq(ResponseNames \cup {"t"}) /\ b \in Seq(Words)

\* What it is divided into.
LEMMA OutputIs ==
  ASSUME NEW l, NEW b, IsOutput(l, b)
  PROVE  LET text == Message(l, b) IN
         /\ l \in Seq(Words) /\ NoLineEnd(l)
         /\ HeaderEnds(text) = {2 * j : j \in 1 .. Len(l)}
         /\ \A j \in 1 .. Len(l) : LineAt(text, 2 * j) = <<l[j]>>
         /\ Headers(SubSeq(text, 1, Blank(text)), ResponseNames) =
              [n \in HeaderLines(l, Len(l), ResponseNames) |-> n]
         /\ SubSeq(text, Blank(text) + 1, Len(text)) = b
<1> DEFINE text == Message(l, b)
<1>1. l \in Seq(Words)
  <2>1. ResponseNames \cup {"t"} \subseteq Words
    BY DEF ResponseNames, StatusNames, Words
  <2>2. QED
    BY <2>1, SeqMonotonic DEF IsOutput
<1>2. NoLineEnd(l)
  <2>1. "nl" \notin ResponseNames \cup {"t"}
    BY DEF ResponseNames, StatusNames
  <2>2. \A j \in 1 .. Len(l) : l[j] \in ResponseNames \cup {"t"}
    BY DEF IsOutput
  <2>3. QED
    BY <2>1, <2>2 DEF NoLineEnd
<1>3. "nl" \in Words /\ b \in Seq(Words)
  BY DEF Words, IsOutput
<1>4. /\ Blank(text) = 2 * Len(l) + 1
      /\ HeaderEnds(text) = {2 * j : j \in 1 .. Len(l)}
      /\ \A j \in 1 .. Len(l) : LineAt(text, 2 * j) = <<l[j]>>
      /\ \A Names : Headers(SubSeq(text, 1, 2 * Len(l) + 1), Names) =
                      [n \in HeaderLines(l, Len(l), Names) |-> n]
      /\ SubSeq(text, 2 * Len(l) + 2, Len(text)) = b
  BY <1>1, <1>2, <1>3, MessageParts
<1> HIDE DEF text
<1>5. 2 * Len(l) + 1 + 1 = 2 * Len(l) + 2
  BY <1>1
<1>6. QED
  <2>1. SubSeq(text, Blank(text) + 1, Len(text)) = b
    BY <1>4, <1>5
  <2>2. Headers(SubSeq(text, 1, Blank(text)), ResponseNames) =
          [n \in HeaderLines(l, Len(l), ResponseNames) |-> n]
    BY <1>4
  <2>3. QED
    BY <1>1, <1>2, <1>4, <2>1, <2>2 DEF text

\* The expression of getRespForCgiBuf matches it unless it has no headers, a
\* line that is none, or a "$" in the body.
LEMMA OutputMatches ==
  ASSUME NEW l, NEW b, IsOutput(l, b)
  PROVE  IsCgiOutput(Message(l, b)) <=> l # <<>> /\ ~ Contains(l, "t") /\ ~ Contains(b, "$")
<1> DEFINE text == Message(l, b)
<1>1. /\ l \in Seq(Words)
      /\ HeaderEnds(text) = {2 * j : j \in 1 .. Len(l)}
      /\ \A j \in 1 .. Len(l) : LineAt(text, 2 * j) = <<l[j]>>
      /\ SubSeq(text, Blank(text) + 1, Len(text)) = b
  BY OutputIs
<1> HIDE DEF text
<1>2. HeaderEnds(text) # {} <=> l # <<>>
  <2>1. Len(l) \in Nat /\ (l = <<>> <=> Len(l) = 0)
    BY <1>1, EmptySeq
  <2>2. Len(l) # 0 => 1 \in 1 .. Len(l)
    BY <2>1
  <2>3. QED
    BY <1>1, <2>1, <2>2
<1>3. ASSUME NEW j \in 1 .. Len(l)
      PROVE  /\ IsHeader(LineAt(text, 2 * j), ResponseNames) <=> l[j] # "t"
             /\ l[j] # "t" => ~ Contains(Name(LineAt(text, 2 * j), ResponseNames), "tab")
  <2>1. LineAt(text, 2 * j) = <<l[j]>> /\ l[j] \in ResponseNames \cup {"t"}
    BY <1>1 DEF IsOutput
  <2>2. "t" \notin ResponseNames /\ "tab" \notin ResponseNames
    BY DEF ResponseNames, StatusNames
  <2>3. l[j] # "tab" => ~ Contains(<<l[j]>>, "tab")
    BY DEF Contains
  <2>4. QED
    BY <2>1, <2>2, <2>3, TokenHeader
<1>4. (\A i \in HeaderEnds(text) : /\ IsHeader(LineAt(text, i), ResponseNames)
                                  /\ ~ Contains(Name(LineAt(text, i), ResponseNames), "tab"))
      <=> ~ Contains(l, "t")
  <2>1. Contains(l, "t") <=> \E j \in 1 .. Len(l) : l[j] = "t"
    BY DEF Contains
  <2>2. QED
    BY <1>1, <1>3, <2>1
<1>5. QED
  BY <1>1, <1>2, <1>4 DEF IsCgiOutput, text

\* The places of a status among the headers.
LEMMA StatusIs ==
  ASSUME NEW l, NEW b, IsOutput(l, b), NEW code
  PROVE  StatusAt(Message(l, b), code) = {2 * j : j \in {i \in 1 .. Len(l) : l[i] = code}}
<1> DEFINE text == Message(l, b)
<1>1. /\ HeaderEnds(text) = {2 * j : j \in 1 .. Len(l)}
      /\ \A j \in 1 .. Len(l) : LineAt(text, 2 * j)[1] = l[j]
  <2>1. /\ HeaderEnds(text) = {2 * j : j \in 1 .. Len(l)}
        /\ \A j \in 1 .. Len(l) : LineAt(text, 2 * j) = <<l[j]>>
    BY OutputIs
  <2> HIDE DEF text
  <2>2. QED
    BY <2>1
<1> HIDE DEF text
<1>2. QED
  BY <1>1 DEF StatusAt, text

\* A status code without a name comes to codeNameMap.at.
LEMMA OutputThrows ==
  ASSUME NEW l, NEW b, IsOutput(l, b)
  PROVE  ThrowsOutOfRange(Message(l, b)) <=>
           /\ l # <<>> /\ ~ Contains(l, "t") /\ ~ Contains(b, "$")
           /\ \E i \in 1 .. Len(l) : /\ l[i] = "s299"
                                     /\ \A j \in 1 .. Len(l) : l[j] = "sBad" => i < j
<1> DEFINE text == Message(l, b)
<1>1. /\ StatusAt(text, "s299") = {2 * j : j \in {i \in 1 .. Len(l) : l[i] = "s299"}}
      /\ StatusAt(text, "sBad") = {2 * j : j \in {i \in 1 .. Len(l) : l[i] = "sBad"}}
  BY StatusIs
<1>2. IsCgiOutput(text) <=> l # <<>> /\ ~ Contains(l, "t") /\ ~ Contains(b, "$")
  BY OutputMatches
<1> HIDE DEF text
<1>3. (\E i \in StatusAt(text, "s299") : \A j \in StatusAt(text, "sBad") : i < j) <=>
        \E i \in 1 .. Len(l) : l[i] = "s299" /\ \A j \in 1 .. Len(l) : l[j] = "sBad" => i < j
  <2>1. ASSUME NEW i \in StatusAt(text, "s299"), \A j \in StatusAt(text, "sBad") : i < j
        PROVE  \E h \in 1 .. Len(l) : l[h] = "s299" /\ \A j \in 1 .. Len(l) : l[j] = "sBad" => h < j
    <3>1. PICK h \in 1 .. Len(l) : l[h] = "s299" /\ i = 2 * h
      BY <1>1
    <3>2. ASSUME NEW j \in 1 .. Len(l), l[j] = "sBad" PROVE h < j
      <4>1. 2 * j \in StatusAt(text, "sBad")
        BY <1>1, <3>2
      <4>2. 2 * h < 2 * j
        BY <2>1, <3>1, <4>1
      <4>3. QED
        BY <4>2
    <3>3. QED
      BY <3>1, <3>2
  <2>2. ASSUME NEW h \in 1 .. Len(l), l[h] = "s299", \A j \in 1 .. Len(l) : l[j] = "sBad" => h < j
        PROVE  \E i \in StatusAt(text, "s299") : \A j \in StatusAt(text, "sBad") : i < j
    <3>1. 2 * h \in StatusAt(text, "s299")
      BY <1>1, <2>2
    <3>2. ASSUME NEW i \in StatusAt(text, "sBad") PROVE 2 * h < i
      <4>1. PICK j \in 1 .. Len(l) : l[j] = "sBad" /\ i = 2 * j
        BY <1>1
      <4>2. h < j
        BY <2>2, <4>1
      <4>3. QED
        BY <4>1, <4>2
    <3>3. QED
      BY <3>1, <3>2
  <2>3. QED
    BY <2>1, <2>2
<1>4. QED
  BY <1>2, <1>3 DEF ThrowsOutOfRange, text

\* What the headers of a well-formed output make: its body, every header that
\* is not a status, and the one status that has a name.
LEMMA OutputGives ==
  ASSUME NEW l, NEW b, IsOutput(l, b)
  PROVE  FromHeaders(Message(l, b)) =
           [code    |-> IF Contains(l, "s302") THEN "302" ELSE "200",
            headers |-> [n \in HeaderLines(l, Len(l), {"h1"}) |-> n],
            body    |-> b]
<1> DEFINE text == Message(l, b)
           all == Headers(SubSeq(text, 1, Blank(text)), ResponseNames)
           D   == HeaderLines(l, Len(l), ResponseNames)
           E   == {m \in DOMAIN all : m[1] \notin StatusNames}
<1>1. all = [n \in D |-> n] /\ SubSeq(text, Blank(text) + 1, Len(text)) = b
  BY OutputIs
<1>2. StatusAt(text, "s302") = {} <=> ~ Contains(l, "s302")
  BY StatusIs DEF Contains
<1>3. FromHeaders(text) =
        [code    |-> IF StatusAt(text, "s302") = {} THEN "200" ELSE "302",
         headers |-> [n \in E |-> all[n]],
         body    |-> SubSeq(text, Blank(text) + 1, Len(text))]
  BY DEF FromHeaders
<1>4. E = HeaderLines(l, Len(l), {"h1"})
  <2>1. E = {m \in D : m[1] \notin StatusNames}
    <3> HIDE DEF all, D
    <3>1. QED
      BY <1>1
  <2>2. ASSUME NEW m \in D, m[1] \notin StatusNames PROVE m \in HeaderLines(l, Len(l), {"h1"})
    <3>1. PICK j \in 1 .. Len(l) : l[j] \in ResponseNames /\ m = <<l[j]>>
      BY DEF HeaderLines
    <3>2. l[j] = "h1"
      BY <2>2, <3>1 DEF ResponseNames
    <3>3. QED
      BY <3>1, <3>2 DEF HeaderLines
  <2>3. ASSUME NEW m \in HeaderLines(l, Len(l), {"h1"}) PROVE m \in D /\ m[1] \notin StatusNames
    <3>1. PICK j \in 1 .. Len(l) : l[j] = "h1" /\ m = <<l[j]>>
      BY DEF HeaderLines
    <3>2. "h1" \in ResponseNames /\ "h1" \notin StatusNames
      BY DEF ResponseNames, StatusNames
    <3>3. QED
      BY <3>1, <3>2 DEF HeaderLines
  <2> HIDE DEF D, E
  <2>4. QED
    BY <2>1, <2>2, <2>3
<1>5. [n \in E |-> all[n]] = [n \in E |-> n]
  <2>1. \A n \in E : n \in D
    <3> HIDE DEF all, D
    <3>1. QED
      BY <1>1
  <2> HIDE DEF all, D, E
  <2>2. \A n \in E : all[n] = n
    BY <1>1, <2>1
  <2>3. QED
    BY <2>2
<1> HIDE DEF all, D, E, text
<1>6. QED
  BY <1>1, <1>2, <1>3, <1>4, <1>5 DEF text

\* The fields and the codes of a response, whatever it is made from.
Codes == {"200", "302", "500"}

IsResponse(r) == DOMAIN r = {"code", "headers", "body"} /\ r.code \in Codes

\* The headers with one of them set.
With(headers, name) ==
  [n \in {<<name>>} \cup DOMAIN headers |-> IF n = <<name>> THEN n ELSE headers[n]]

\* Setting a header changes the headers only.
LEMMA SetHeaderIs ==
  ASSUME NEW r, IsResponse(r), NEW name
  PROVE  /\ IsResponse(SetHeader(r, name)) /\ SetHeader(r, name).code = r.code
         /\ SetHeader(r, name).body = r.body
         /\ SetHeader(r, name).headers = With(r.headers, name)
BY DEF IsResponse, SetHeader, With

\* The default response, the 500, and whatever is made of a program's output.
LEMMA ResponsesAre ==
  ASSUME NEW text
  PROVE  IsResponse(Ok200) /\ IsResponse(Malformed500) /\ IsResponse(GetRespForCgiBuf(text))
<1>1. IsResponse(Ok200)
  BY DEF IsResponse, Ok200, Codes
<1>2. IsResponse(Malformed500)
  <2>1. IsResponse([Ok200 EXCEPT !.code = "500", !.body = <<"t">>])
    BY DEF IsResponse, Ok200, Codes
  <2>2. QED
    BY <2>1, SetHeaderIs DEF Malformed500
<1>3. IsResponse(FromHeaders(text))
  BY DEF IsResponse, FromHeaders, Codes
<1>4. QED
  BY <1>1, <1>2, <1>3 DEF GetRespForCgiBuf

\* A response has each header once, under its name.
Answer(r, code, D, body) ==
  /\ IsResponse(r)
  /\ r.code = code /\ r.headers = [n \in D |-> n] /\ r.body = body

\* Setting a header adds its name.
LEMMA SetHeaderAnswer ==
  ASSUME NEW r, NEW code, NEW D, NEW body, Answer(r, code, D, body), NEW name
  PROVE  Answer(SetHeader(r, name), code, {<<name>>} \cup D, body)
<1>1. /\ IsResponse(SetHeader(r, name)) /\ SetHeader(r, name).code = code
      /\ SetHeader(r, name).body = body
      /\ SetHeader(r, name).headers = With(r.headers, name)
  BY SetHeaderIs DEF Answer
<1>2. With(r.headers, name) = [n \in {<<name>>} \cup D |-> n]
  BY DEF Answer, With
<1>3. QED
  BY <1>1, <1>2 DEF Answer

\* getRespForCgiBuf with the header that baseHandle sets.
LEMMA OutputAnswer ==
  ASSUME NEW l, NEW b, IsOutput(l, b)
  PROVE  LET resp == SetHeader(GetRespForCgiBuf(Message(l, b)), "Server") IN
         IF l # <<>> /\ ~ Contains(l, "t") /\ ~ Contains(b, "$") /\ ~ Contains(l, "sBad")
         THEN Answer(resp, IF Contains(l, "s302") THEN "302" ELSE "200",
                     {<<"Server">>} \cup HeaderLines(l, Len(l), {"h1"}), b)
         ELSE Answer(resp, "500", {<<"Server">>, <<"Content-Type">>}, <<"t">>)
<1> DEFINE text == Message(l, b)
           resp == SetHeader(GetRespForCgiBuf(text), "Server")
           good == l # <<>> /\ ~ Contains(l, "t") /\ ~ Contains(b, "$") /\ ~ Contains(l, "sBad")
<1>1. GetRespForCgiBuf(text) = IF good THEN FromHeaders(text) ELSE Malformed500
  <2>1. IsCgiOutput(text) <=> l # <<>> /\ ~ Contains(l, "t") /\ ~ Contains(b, "$")
    BY OutputMatches
  <2>2. StatusAt(text, "sBad") = {} <=> ~ Contains(l, "sBad")
    BY StatusIs DEF Contains
  <2>3. QED
    BY <2>1, <2>2 DEF GetRespForCgiBuf
<1>2. CASE good
  <2>1. FromHeaders(text) = [code    |-> IF Contains(l, "s302") THEN "302" ELSE "200",
                            headers |-> [n \in HeaderLines(l, Len(l), {"h1"}) |-> n],
                            body    |-> b]
    BY OutputGives
  <2> HIDE DEF text
  <2>2. Answer(FromHeaders(text), IF Contains(l, "s302") THEN "302" ELSE "200",
               HeaderLines(l, Len(l), {"h1"}), b)
    BY <2>1 DEF Answer, IsResponse, Codes
  <2>3. QED
    BY <1>1, <1>2, <2>2, SetHeaderAnswer DEF text
<1>3. CASE ~ good
  <2> DEFINE r == [Ok200 EXCEPT !.code = "500", !.body = <<"t">>]
  <2>1. Answer(r, "500", {}, <<"t">>)
    <3>1. <<>> = [n \in {} |-> n]
      OBVIOUS
    <3>2. QED
      BY <3>1 DEF Answer, IsResponse, Codes, Ok200
  <2> HIDE DEF r
  <2>2. Answer(SetHeader(r, "Content-Type"), "500", {<<"Content-Type">>} \cup {}, <<"t">>)
    BY <2>1, SetHeaderAnswer
  <2>3. Answer(SetHeader(Malformed500, "Server"), "500",
               {<<"Server">>} \cup ({<<"Content-Type">>} \cup {}), <<"t">>)
    BY <2>2, SetHeaderAnswer DEF Malformed500, r
  <2>4. {<<"Server">>} \cup ({<<"Content-Type">>} \cup {}) = {<<"Server">>, <<"Content-Type">>}
    OBVIOUS
  <2>5. Answer(SetHeader(Malformed500, "Server"), "500", {<<"Server">>, <<"Content-Type">>}, <<"t">>)
    BY <2>3, <2>4
  <2>6. QED
    BY <1>1, <1>3, <2>5
<1>4. QED
  BY <1>2, <1>3

\* What the actions choose from are sequences.
LEMMA BoundedIsSeq ==
  ASSUME NEW S, NEW n \in Nat, NEW s \in BoundedSeq(S, n)
  PROVE  s \in Seq(S) /\ Len(s) \in 0 .. n
<1>1. PICK m \in 0 .. n : s \in [1 .. m -> S]
  BY DEF BoundedSeq, SeqOf
<1>2. s \in Seq(S) /\ Len(s) = m
  BY <1>1, SeqDef, LenProperties
<1>3. QED
  BY <1>2

\* The beginning of a sequence.
LEMMA PrefixIs ==
  ASSUME NEW S, NEW s \in Seq(S), NEW k \in 0 .. Len(s)
  PROVE  /\ SubSeq(s, 1, k) \in Seq(S) /\ Len(SubSeq(s, 1, k)) = k
         /\ \A i \in 1 .. k : SubSeq(s, 1, k)[i] = s[i]
OBVIOUS

\* The rest of a sequence.
LEMMA SuffixIs ==
  ASSUME NEW S, NEW s \in Seq(S), NEW k \in 0 .. Len(s)
  PROVE  /\ SubSeq(s, k + 1, Len(s)) \in Seq(S)
         /\ Len(SubSeq(s, k + 1, Len(s))) = Len(s) - k
         /\ \A i \in 1 .. Len(s) - k : SubSeq(s, k + 1, Len(s))[i] = s[k + i]
OBVIOUS

\* What readn hands over after several reads ends in zeros, and so does what
\* is behind a line end in it.
LEMMA ZerosAtTheEnd ==
  ASSUME NEW s \in Seq(Words), Len(s) > 0, Last(s) = "nul", NEW e \in LineEnds(s)
  PROVE  LET rest == SubSeq(s, e + 1, Len(s)) IN
         rest \in Seq(Words) /\ rest # <<>> /\ Last(rest) = "nul"
<1> DEFINE n == Len(s)
           rest == SubSeq(s, e + 1, Len(s))
<1>1. n \in Nat /\ e \in 1 .. n /\ s[e] = "nl" /\ s[n] = "nul"
  BY DEF LineEnds, Last
<1>2. e < n /\ e \in 0 .. n
  BY <1>1
<1>3. /\ rest \in Seq(Words) /\ Len(rest) = n - e
      /\ \A i \in 1 .. n - e : rest[i] = s[e + i]
  BY <1>2, SuffixIs
<1> HIDE DEF n, rest
<1>4. n - e \in 1 .. n - e /\ e + (n - e) = n /\ Len(rest) > 0
  BY <1>1, <1>2, <1>3
<1>5. rest[Len(rest)] = "nul"
  BY <1>1, <1>3, <1>4
<1>6. rest # <<>>
  BY <1>4
<1>7. QED
  BY <1>3, <1>5, <1>6 DEF Last, rest

\* It is the buffer and the zeros.
LEMMA ReceivedIs ==
  ASSUME buf \in Seq(Words), ~ InOnePiece
  PROVE  Received \in Seq(Words) /\ Len(Received) > 0 /\ Last(Received) = "nul"
<1>1. Received = Append(buf, "nul") /\ "nul" \in Words
  BY DEF Received, Words
<1>2. QED
  BY <1>1 DEF Last

\* The outputs of programs that Messages has are such outputs.
LEMMA OutputsAre ==
  ASSUME NEW out \in Outputs
  PROVE  IsOutput(out.lines, out.body)
<1>1. out.lines \in BoundedSeq(ResponseNames \cup {"t"}, MaxLines) /\ out.body \in Bodies
  BY DEF Outputs
<1>2. out.lines \in Seq(ResponseNames \cup {"t"})
  BY <1>1, BoundedIsSeq, MessagesAssumption
<1>3. out.body \in Seq({"t", "$", "tab", "nl", "h1"})
  BY <1>1, BoundedIsSeq, MessagesAssumption DEF Bodies
<1>4. {"t", "$", "tab", "nl", "h1"} \subseteq Words
  BY DEF Words
<1>5. QED
  BY <1>2, <1>3, <1>4, SeqMonotonic DEF IsOutput

\* What a program that has ended leaves: a reason to close the connection, or
\* the answer that OutputOrError expects.
Shaped ==
  stage = "send" /\ InOnePiece =>
    \E D \in SUBSET {<<"h1">>, <<"Server">>, <<"Content-Type">>} :
      response.headers = [n \in D |-> n] /\ response.body \in Seq(Words)

\* As much of a program's output as the loop reads, and all of it.
Whole ==
  /\ program \in Outputs /\ arrived = Len(Output) /\ Output \in Seq(Words)
  /\ buf = SubSeq(Output, 1, arrived)

\* What a program writes is answered, or refused, as the properties say.
LEMMA OutputTaken ==
  ASSUME TypeOK, InOnePiece, Whole, TakeOutput
  PROVE  /\ UnansweredHasReason' /\ OutputOrError' /\ Shaped'
         /\ stage' = "closed" => program' # Nothing
<1> DEFINE l == program.lines
           b == program.body
           text == Message(l, b)
           good == l # <<>> /\ ~ Contains(l, "t") /\ ~ Contains(b, "$") /\ ~ Contains(l, "sBad")
           resp == SetHeader(GetRespForCgiBuf(text), "Server")
           D == {<<"Server">>} \cup HeaderLines(l, Len(l), {"h1"})
<1>1. IsOutput(l, b)
  BY OutputsAre DEF Whole
<1>2. /\ stage' \in {"closed", "send"} /\ program' = program /\ asked' = asked /\ InOnePiece'
      /\ stage' = "closed" => ThrowsOutOfRange(text)
      /\ stage' = "send" => /\ ~ ThrowsOutOfRange(text)
                            /\ response' = IF asked.method = "HEAD" THEN [resp EXCEPT !.body = <<>>] ELSE resp
  <2>1. Output = text
    BY DEF Output, Message
  <2>2. Received = Output
    BY SubSeqFull DEF Whole, Received
  <2>3. QED
    BY <2>1, <2>2 DEF TakeOutput, InOnePiece, reading
<1>3. ThrowsOutOfRange(text) <=>
        /\ l # <<>> /\ ~ Contains(l, "t") /\ ~ Contains(b, "$")
        /\ \E i \in 1 .. Len(l) : l[i] = "s299" /\ \A j \in 1 .. Len(l) : l[j] = "sBad" => i < j
  BY <1>1, OutputThrows
<1>4. /\ good => Answer(resp, IF Contains(l, "s302") THEN "302" ELSE "200", D, b)
      /\ ~ good => Answer(resp, "500", {<<"Server">>, <<"Content-Type">>}, <<"t">>)
  BY <1>1, OutputAnswer
<1>5. l \in Seq(ResponseNames \cup {"t"}) /\ b \in Seq(Words)
  BY <1>1 DEF IsOutput
<1> HIDE DEF text, resp, l, b
<1>6. CASE stage' = "closed"
  <2>1. ThrowsOutOfRange(text)
    BY <1>2, <1>6
  <2>2. PICK i \in 1 .. Len(l) : l[i] = "s299" /\ \A j \in 1 .. Len(l) : l[j] = "sBad" => i < j
    BY <1>3, <2>1
  <2>3. ~ Contains(SubSeq(l, 1, i), "sBad")
    <3>1. Len(l) \in Nat
      BY <1>5
    <3>2. Len(SubSeq(l, 1, i)) = i /\ \A j \in 1 .. i : SubSeq(l, 1, i)[j] = l[j]
      BY <1>5, <3>1
    <3>3. \A j \in 1 .. i : j \in 1 .. Len(l) /\ ~ (i < j)
      BY <3>1
    <3>4. QED
      BY <2>2, <3>2, <3>3 DEF Contains
  <2>4. UnansweredHasReason'
    BY <1>2, <1>3, <2>1, <2>2, <2>3 DEF UnansweredHasReason, l
  <2>5. program' # Nothing
    BY <1>2, <1>3, <2>1 DEF Nothing, l
  <2>6. QED
    BY <1>6, <2>4, <2>5 DEF OutputOrError, Shaped
<1>7. CASE stage' = "send"
  <2>1. ~ ThrowsOutOfRange(text)
    BY <1>2, <1>7
  <2>2. /\ response'.code = resp.code /\ response'.headers = resp.headers
        /\ response'.body = IF asked.method = "HEAD" THEN <<>> ELSE resp.body
    <3>1. DOMAIN resp = {"code", "headers", "body"}
      BY <1>4 DEF Answer, IsResponse
    <3>2. response' = IF asked.method = "HEAD" THEN [resp EXCEPT !.body = <<>>] ELSE resp
      BY <1>2, <1>7
    <3>3. QED
      BY <3>1, <3>2
  <2>3. Sane(program) <=> /\ l # <<>> /\ \A j \in 1 .. Len(l) : l[j] \in {"h1", "s302"}
                      /\ ~ Contains(b, "$")
    <3>1. ToSet(l) \subseteq {"h1", "s302"} <=> \A j \in 1 .. Len(l) : l[j] \in {"h1", "s302"}
      <4>1. DOMAIN l = 1 .. Len(l)
        BY <1>5
      <4>2. ToSet(l) = {l[j] : j \in 1 .. Len(l)}
        BY <4>1 DEF ToSet
      <4>3. QED
        BY <4>2
    <3>2. QED
      BY <3>1 DEF Sane, l, b
  <2>4. Sane(program) <=> good
    <3>1. ASSUME Sane(program) PROVE good
      <4>1. \A j \in 1 .. Len(l) : l[j] # "t" /\ l[j] # "sBad"
        BY <2>3, <3>1
      <4>2. QED
        BY <2>3, <3>1, <4>1 DEF Contains
    <3>2. ASSUME good PROVE Sane(program)
      <4>1. \A j \in 1 .. Len(l) : l[j] \in ResponseNames /\ l[j] # "sBad"
        BY <1>5, <3>2 DEF Contains
      <4>2. \A j \in 1 .. Len(l) : l[j] # "s299"
        <5>1. \A i \in 1 .. Len(l) : l[i] # "sBad"
          BY <4>1
        <5>2. QED
          BY <1>3, <2>1, <3>2, <5>1
      <4>3. \A j \in 1 .. Len(l) : l[j] \in {"h1", "s302"}
        BY <4>1, <4>2 DEF ResponseNames, StatusNames
      <4>4. QED
        BY <2>3, <3>2, <4>3
    <3>3. QED
      BY <3>1, <3>2
  <2>5. OutputOrError'
    <3>1. ASSUME good
          PROVE  /\ response'.code = IF Contains(l, "s302") THEN "302" ELSE "200"
                 /\ DOMAIN response'.headers = {<<n>> : n \in {"Server"} \cup (ToSet(l) \cap {"h1"})}
                 /\ response'.body = IF asked.method = "HEAD" THEN <<>> ELSE b
      <4>1. D = {<<n>> : n \in {"Server"} \cup (ToSet(l) \cap {"h1"})}
        <5>1. DOMAIN l = 1 .. Len(l)
          BY <1>5
        <5>2. ToSet(l) = {l[j] : j \in 1 .. Len(l)}
          BY <5>1 DEF ToSet
        <5>3. QED
          BY <5>2 DEF HeaderLines
      <4>2. QED
        BY <1>4, <2>2, <3>1, <4>1 DEF Answer
    <3>2. ASSUME ~ good
          PROVE  /\ response'.code = "500"
                 /\ DOMAIN response'.headers = {<<"Server">>, <<"Content-Type">>}
                 /\ response'.body = <<>> <=> asked.method = "HEAD"
      <4>1. <<"t">> # <<>>
        OBVIOUS
      <4>2. QED
        BY <1>4, <2>2, <3>2, <4>1 DEF Answer
    <3>3. QED
      BY <1>2, <2>4, <3>1, <3>2 DEF OutputOrError, l, b
  <2>6. Shaped'
    <3>1. <<"t">> \in Seq(Words) /\ <<>> \in Seq(Words)
      BY DEF Words
    <3>2. response'.body \in Seq(Words)
      BY <1>4, <1>5, <2>2, <3>1 DEF Answer
    <3>3. D \subseteq {<<"h1">>, <<"Server">>, <<"Content-Type">>}
      BY DEF HeaderLines
    <3>4. QED
      BY <1>4, <2>2, <3>2, <3>3 DEF Answer, Shaped
  <2>7. QED
    BY <1>7, <2>5, <2>6 DEF UnansweredHasReason
<1>8. QED
  BY <1>2, <1>6, <1>7

\* If pieces laid over each other are taken for an output, its body ends in
\* zeros.
LEMMA PiecesTaken ==
  ASSUME buf \in Seq(Words), ~ InOnePiece, TakeOutput
  PROVE  UnansweredHasReason' /\ OutputOrError' /\ Shaped'
<1> DEFINE r == Received
           given == GetRespForCgiBuf(r)
           resp == SetHeader(given, "Server")
<1>1. /\ stage' = "send" => response' = IF asked.method = "HEAD" THEN [resp EXCEPT !.body = <<>>] ELSE resp
      /\ ~ InOnePiece' /\ asked' = asked
  BY DEF TakeOutput, InOnePiece, reading
<1>2. SUFFICES ASSUME stage' = "send", response'.code # "500"
               PROVE  IF asked.method = "HEAD" THEN response'.body = <<>>
                      ELSE response'.body # <<>> /\ Last(response'.body) = "nul"
  BY <1>1 DEF UnansweredHasReason, OutputOrError, Shaped
<1>3. r \in Seq(Words) /\ Len(r) > 0 /\ Last(r) = "nul"
  BY ReceivedIs
<1>4. IsResponse(given) /\ IsResponse(resp) /\ resp.code = given.code /\ resp.body = given.body
  <2>1. IsResponse(given)
    BY ResponsesAre
  <2> HIDE DEF given
  <2>2. QED
    BY <2>1, SetHeaderIs
<1>5. IsCgiOutput(r) /\ given = FromHeaders(r)
  <2>1. Malformed500.code = "500"
    BY ResponsesAre, SetHeaderIs DEF Malformed500, SetHeader, Ok200
  <2>2. response'.code = given.code
    <3> HIDE DEF given, resp
    <3>1. QED
      BY <1>1, <1>2, <1>4 DEF IsResponse
  <2>3. QED
    BY <1>2, <2>1, <2>2 DEF GetRespForCgiBuf
<1> HIDE DEF r, given, resp
<1>6. Blank(r) \in LineEnds(r)
  <2> DEFINE I == {i \in LineEnds(r) : LineAt(r, i) = <<>>} \cup {Len(r) + 1}
             z == Len(r)
  <2>1. HeaderEnds(r) # {}
    BY <1>5 DEF IsCgiOutput
  <2>2. I \subseteq Nat /\ I # {} /\ LineEnds(r) \subseteq 1 .. z /\ z \in Nat
    BY <1>3 DEF LineEnds
  <2>3. Min(I) \in I
    BY <2>2, MinIs
  <2>4. Blank(r) = Min(I) % (z + 1)
    BY DEF Blank
  <2>5. Min(I) = z + 1 \/ (Min(I) \in LineEnds(r) /\ Min(I) \in 1 .. z)
    BY <2>2, <2>3
  <2> HIDE DEF I, z
  <2>6. CASE Min(I) = z + 1
    <3>1. Blank(r) = 0
      BY <2>2, <2>4, <2>6
    <3>2. HeaderEnds(r) = {}
      BY <2>2, <3>1 DEF HeaderEnds
    <3>3. QED
      BY <2>1, <3>2
  <2>7. CASE Min(I) \in LineEnds(r) /\ Min(I) \in 1 .. z
    <3>1. Blank(r) = Min(I)
      BY <2>2, <2>4, <2>7
    <3>2. QED
      BY <2>7, <3>1
  <2>8. QED
    BY <2>5, <2>6, <2>7
<1>7. given.body # <<>> /\ Last(given.body) = "nul"
  <2>1. given.body = SubSeq(r, Blank(r) + 1, Len(r))
    BY <1>5 DEF FromHeaders
  <2>2. QED
    BY <1>3, <1>6, <2>1, ZerosAtTheEnd
<1>8. QED
  BY <1>1, <1>2, <1>4, <1>7 DEF IsResponse

-----------------------------------------------------------------------------
(***************************************************************************)
(* The response on the wire.                                               *)
(***************************************************************************)
HeaderNames == {<<"h1">>, <<"Server">>, <<"Content-Type">>}

\* SetToSeq lists the members of a finite set.
LEMMA SetToSeqIs ==
  ASSUME NEW D, IsFiniteSet(D)
  PROVE  /\ SetToSeq(D) \in Seq(D)
         /\ \A d \in D : \E i \in 1 .. Len(SetToSeq(D)) : SetToSeq(D)[i] = d
<1> DEFINE c == Cardinality(D)
           f == SetToSeq(D)
<1>1. c \in Nat /\ ExistsBijection(1 .. c, D)
  BY FS_CardinalityType
<1>2. \E g \in [1 .. c -> D] : IsInjective(g)
  BY <1>1 DEF ExistsBijection, Bijection, Injection
<1>3. f \in [1 .. c -> D] /\ IsInjective(f)
  BY <1>2 DEF SetToSeq
<1> HIDE DEF f
<1>4. f \in Injection(1 .. c, D)
  BY <1>3 DEF Injection
<1>5. IsFiniteSet(1 .. c) /\ Cardinality(1 .. c) = c
  <2> HIDE DEF c
  <2>1. 1 \in Int /\ c \in Int
    BY <1>1
  <2>2. IsFiniteSet(1 .. c) /\ Cardinality(1 .. c) = IF 1 > c THEN 0 ELSE c - 1 + 1
    BY <2>1, FS_Interval
  <2>3. QED
    BY <1>1, <2>2
<1>6. f \in Surjection(1 .. c, D)
  BY <1>4, <1>5, FS_Injection
<1>7. \A d \in D : \E i \in 1 .. c : f[i] = d
  BY <1>6 DEF Surjection
<1>8. f \in Seq(D) /\ Len(f) = c
  <2> HIDE DEF c
  <2>1. f \in Seq(D)
    BY <1>1, <1>3, SeqDef
  <2>2. QED
    BY <1>1, <1>3, <2>1, LenProperties
<1>9. QED
  BY <1>7, <1>8 DEF f

\* A line before the others.
LEMMA FirstLine ==
  ASSUME NEW S, "nl" \in S, NEW c \in S, NEW t \in Seq(S)
  PROVE  <<c, "nl">> \o Lines(t) = Lines(<<c>> \o t)
<1> DEFINE n == Len(t)
           u == <<c>> \o t
           a == Pairs(t, n)
           e == <<c, "nl">>
           p == Pairs(u, n + 1)
<1>1. n \in Nat /\ S \cup {"nl"} = S
  OBVIOUS
<1>2. /\ u \in Seq(S) /\ Len(u) = n + 1 /\ u[1] = c
      /\ \A j \in 1 .. n : u[j + 1] = t[j]
  OBVIOUS
<1>3. Lines(t) = a /\ Lines(u) = p
  <2>1. Lines(u) = Pairs(u, Len(u))
    BY <1>2, LinesAre
  <2>2. QED
    BY <1>2, <2>1, LinesAre
<1>4. /\ a \in Seq(S) /\ Len(a) = 2 * n
      /\ \A j \in 1 .. n : a[2 * j - 1] = t[j] /\ a[2 * j] = "nl"
  BY <1>1, PairsAre
<1>5. e \in Seq(S) /\ Len(e) = 2 /\ e[1] = c /\ e[2] = "nl"
  OBVIOUS
<1> HIDE DEF u, a, e
<1>6. /\ p \in Seq(S) /\ Len(p) = 2 * (n + 1)
      /\ \A j \in 1 .. n + 1 : p[2 * j - 1] = u[j] /\ p[2 * j] = "nl"
  <2>1. n + 1 \in 0 .. Len(u)
    BY <1>1, <1>2
  <2>2. QED
    BY <1>1, <1>2, <2>1, PairsAre
<1> DEFINE m == e \o a
<1>7. /\ m \in Seq(S) /\ Len(m) = Len(e) + Len(a)
      /\ \A i \in 1 .. Len(e) : m[i] = e[i]
      /\ \A i \in 1 .. Len(a) : m[Len(e) + i] = a[i]
  <2>1. e \in Seq(S) /\ a \in Seq(S)
    BY <1>4, <1>5
  <2>2. QED
    BY <2>1, ConcatAt
<1> HIDE DEF m, n, p
<1>8. ASSUME NEW j \in 1 .. n + 1
      PROVE  m[2 * j - 1] = u[j] /\ m[2 * j] = "nl"
  <2>1. CASE j = 1
    <3>1. 1 \in 1 .. Len(e) /\ 2 \in 1 .. Len(e) /\ 2 * j - 1 = 1 /\ 2 * j = 2
      BY <1>5, <2>1
    <3>2. QED
      BY <1>2, <1>5, <1>7, <2>1, <3>1
  <2>2. CASE j # 1
    <3> DEFINE h == j - 1
    <3>1. h \in 1 .. n /\ h + 1 = j
      BY <1>1, <2>2
    <3>2. 2 * h - 1 \in 1 .. Len(a) /\ 2 * h \in 1 .. Len(a)
          /\ 2 * j - 1 = Len(e) + (2 * h - 1) /\ 2 * j = Len(e) + 2 * h
      BY <1>1, <1>4, <1>5, <2>2
    <3> HIDE DEF h
    <3>3. m[2 * j - 1] = a[2 * h - 1] /\ m[2 * j] = a[2 * h]
      BY <1>7, <3>2
    <3>4. QED
      BY <1>2, <1>4, <3>1, <3>3
  <2>3. QED
    BY <2>1, <2>2
<1>9. ASSUME NEW i \in 1 .. 2 * (n + 1) PROVE m[i] = p[i]
  <2>1. PICK j \in 1 .. n + 1 : i = 2 * j - 1 \/ i = 2 * j
    <3>1. CASE i % 2 = 1
      <4>1. (i + 1) \div 2 \in 1 .. n + 1 /\ i = 2 * ((i + 1) \div 2) - 1
        BY <1>1, <3>1
      <4>2. QED
        BY <4>1
    <3>2. CASE i % 2 # 1
      <4>1. i \div 2 \in 1 .. n + 1 /\ i = 2 * (i \div 2)
        BY <1>1, <3>2
      <4>2. QED
        BY <4>1
    <3>3. QED
      BY <3>1, <3>2
  <2>2. QED
    BY <1>6, <1>8, <2>1
<1>10. Len(m) = 2 * (n + 1)
  BY <1>1, <1>4, <1>5, <1>7
<1>11. m = p
  BY <1>6, <1>7, <1>9, <1>10, SeqEqual
<1>12. QED
  BY <1>3, <1>11 DEF m, e, u

\* Two tokens in a row.
LEMMA AppendToken ==
  ASSUME NEW x, NEW y
  PROVE  Append(<<x>>, y) = <<x, y>>
<1> DEFINE T == {x, y}
           s == <<x>>
           a == Append(s, y)
           e == <<x, y>>
<1>1. s \in Seq(T) /\ y \in T /\ Len(s) = 1 /\ s[1] = x
  OBVIOUS
<1>2. e \in Seq(T) /\ Len(e) = 2 /\ e[1] = x /\ e[2] = y
  OBVIOUS
<1> HIDE DEF s, e, T
<1>3. /\ a \in Seq(T) /\ Len(a) = Len(s) + 1
      /\ \A i \in 1 .. Len(s) : a[i] = s[i]
      /\ a[Len(s) + 1] = y
  <2>1. s \in Seq(T) /\ y \in T
    BY <1>1
  <2>2. QED
    BY <2>1, AppendProperties
<1> HIDE DEF a
<1>4. Len(a) = 2 /\ a[1] = x /\ a[2] = y
  <2>1. Len(s) + 1 = 2 /\ 1 \in 1 .. Len(s)
    BY <1>1
  <2>2. QED
    BY <1>1, <1>3, <2>1
<1>5. \A i \in 1 .. 2 : i = 1 \/ i = 2
  OBVIOUS
<1>6. a = e
  BY <1>2, <1>3, <1>4, <1>5, SeqEqual
<1>7. QED
  BY <1>6 DEF a, s, e

\* The bytes of a response are a message whose first line is its status line.
LEMMA WireIs ==
  ASSUME NEW r, NEW D \in SUBSET HeaderNames, r.headers = [n \in D |-> n]
  PROVE  \E t \in Seq(Words) :
           /\ ToSet(t) \subseteq {"h1", "Server", "Content-Type"}
           /\ {<<t[i]>> : i \in 1 .. Len(t)} = D
           /\ GetHeaders(r) = Lines(t)
<1> DEFINE names == SetToSeq(D)
           t == [i \in 1 .. Len(names) |-> names[i][1]]
<1>1. IsFiniteSet(D)
  <2>1. HeaderNames = ({<<"h1">>} \cup {<<"Server">>}) \cup {<<"Content-Type">>}
    BY DEF HeaderNames
  <2>2. IsFiniteSet(HeaderNames)
    <3>1. IsFiniteSet({<<"h1">>})
      BY FS_Singleton
    <3>2. IsFiniteSet({<<"h1">>} \cup {<<"Server">>})
      BY <3>1, FS_AddElement
    <3>3. QED
      BY <2>1, <3>2, FS_AddElement
  <2>3. QED
    BY <2>2, FS_Subset
<1>2. names \in Seq(D) /\ \A d \in D : \E i \in 1 .. Len(names) : names[i] = d
  BY <1>1, SetToSeqIs
<1>3. GetHeaders(r) = FlattenSeq([i \in 1 .. Len(names) |-> Append(r.headers[names[i]], "nl")])
  BY DEF GetHeaders
<1> HIDE DEF names
<1>4. ASSUME NEW i \in 1 .. Len(names)
      PROVE  /\ names[i] \in D /\ names[i] = <<t[i]>>
             /\ t[i] \in {"h1", "Server", "Content-Type"}
             /\ Append(r.headers[names[i]], "nl") = <<t[i], "nl">>
  <2>1. names[i] \in D /\ t[i] = names[i][1]
    BY <1>2
  <2>2. PICK x \in {"h1", "Server", "Content-Type"} : names[i] = <<x>>
    BY <2>1 DEF HeaderNames
  <2>3. t[i] = x
    BY <2>1, <2>2
  <2>4. r.headers[names[i]] = <<x>>
    BY <2>1, <2>2
  <2>5. Append(<<x>>, "nl") = <<x, "nl">>
    BY AppendToken
  <2> HIDE DEF t
  <2>6. QED
    BY <2>1, <2>2, <2>3, <2>4, <2>5
<1>5. Len(names) \in Nat
  BY <1>2
<1>6. t \in Seq(Words) /\ Len(t) = Len(names)
  <2>1. \A i \in 1 .. Len(names) : t[i] \in Words
    BY <1>4 DEF Words
  <2>2. t \in [1 .. Len(names) -> Words]
    BY <2>1
  <2>3. t \in Seq(Words)
    BY <1>5, <2>2, SeqDef
  <2>4. QED
    BY <1>5, <2>2, <2>3, LenProperties
<1>7. GetHeaders(r) = Lines(t)
  <2>1. [i \in 1 .. Len(names) |-> Append(r.headers[names[i]], "nl")]
          = [i \in 1 .. Len(t) |-> <<t[i], "nl">>]
    <3> HIDE DEF t
    <3>1. QED
      BY <1>4, <1>6
  <2>2. QED
    BY <1>3, <2>1 DEF Lines
<1> HIDE DEF t
<1>8. ToSet(t) \subseteq {"h1", "Server", "Content-Type"}
  <2>1. DOMAIN t = 1 .. Len(names)
    BY <1>6
  <2>2. QED
    BY <1>4, <2>1 DEF ToSet
<1>9. {<<t[i]>> : i \in 1 .. Len(t)} = D
  <2>1. \A i \in 1 .. Len(t) : <<t[i]>> \in D
    BY <1>4, <1>6
  <2>2. \A d \in D : \E i \in 1 .. Len(t) : <<t[i]>> = d
    <3> SUFFICES ASSUME NEW d \in D PROVE \E i \in 1 .. Len(t) : <<t[i]>> = d
      OBVIOUS
    <3>1. PICK i \in 1 .. Len(names) : names[i] = d
      BY <1>2
    <3>2. QED
      BY <1>4, <1>6, <3>1
  <2>3. QED
    BY <2>1, <2>2
<1>10. QED
  BY <1>6, <1>7, <1>8, <1>9

\* A client finds the headers before the empty line, the body behind it.
LEMMA SentReadsBack ==
  ASSUME NEW r, r.code \in Codes, NEW D \in SUBSET HeaderNames, r.headers = [n \in D |-> n],
         r.body \in Seq(Words)
  PROVE  LET w == ConvertByteBuf(r) IN
         /\ Headers(SubSeq(w, 1, Blank(w)), ResponseNames \cup {"Server", "Content-Type"}) = r.headers
         /\ SubSeq(w, Blank(w) + 1, Len(w)) = r.body
<1> DEFINE w == ConvertByteBuf(r)
           Names == ResponseNames \cup {"Server", "Content-Type"}
<1>1. PICK t \in Seq(Words) : /\ ToSet(t) \subseteq Names
                              /\ {<<t[i]>> : i \in 1 .. Len(t)} = D
                              /\ GetHeaders(r) = Lines(t)
  <2>1. {"h1", "Server", "Content-Type"} \subseteq Names
    BY DEF ResponseNames
  <2>2. PICK t \in Seq(Words) : /\ ToSet(t) \subseteq {"h1", "Server", "Content-Type"}
                                /\ {<<t[i]>> : i \in 1 .. Len(t)} = D
                                /\ GetHeaders(r) = Lines(t)
    BY WireIs
  <2>3. ToSet(t) \subseteq Names
    BY <2>1, <2>2
  <2>4. QED
    BY <2>2, <2>3
<1> DEFINE l == <<r.code>> \o t
<1>2. /\ l \in Seq(Words) /\ Len(l) = Len(t) + 1 /\ l[1] = r.code /\ Len(t) \in Nat
      /\ \A i \in 1 .. Len(t) : l[i + 1] = t[i]
      /\ "nl" \in Words /\ r.code \in Words
  <2>1. r.code \in Words /\ "nl" \in Words
    BY DEF Codes, Words
  <2>2. QED
    BY <2>1
<1>3. w = Message(l, r.body)
  <2>1. <<r.code, "nl">> \o Lines(t) = Lines(l)
    BY <1>2, FirstLine
  <2>2. w = ((<<r.code, "nl">> \o Lines(t)) \o <<"nl">>) \o r.body
    BY <1>1 DEF ConvertByteBuf
  <2>3. QED
    BY <2>1, <2>2 DEF Message
<1> HIDE DEF w, l
<1>4. \A i \in 1 .. Len(t) : t[i] \in Names
  <2>1. DOMAIN t = 1 .. Len(t)
    OBVIOUS
  <2>2. QED
    BY <1>1, <2>1 DEF ToSet
<1>5. ASSUME NEW j \in 1 .. Len(l) PROVE j = 1 \/ (j - 1 \in 1 .. Len(t) /\ l[j] = t[j - 1])
  <2>1. j # 1 => j - 1 \in 1 .. Len(t) /\ (j - 1) + 1 = j
    BY <1>2
  <2>2. QED
    BY <1>2, <2>1
<1>6. NoLineEnd(l)
  <2>1. r.code # "nl" /\ "nl" \notin Names
    BY DEF Codes, ResponseNames, StatusNames
  <2>2. QED
    <3> HIDE DEF Names
    <3>1. ASSUME NEW j \in 1 .. Len(l) PROVE l[j] # "nl"
      <4>1. CASE j = 1
        BY <1>2, <2>1, <4>1
      <4>2. CASE j - 1 \in 1 .. Len(t) /\ l[j] = t[j - 1]
        BY <1>4, <2>1, <4>2
      <4>3. QED
        BY <1>5, <4>1, <4>2
    <3>2. QED
      BY <3>1 DEF NoLineEnd
<1>7. /\ Blank(w) = 2 * Len(l) + 1
      /\ Headers(SubSeq(w, 1, 2 * Len(l) + 1), Names) = [n \in HeaderLines(l, Len(l), Names) |-> n]
      /\ SubSeq(w, 2 * Len(l) + 2, Len(w)) = r.body
  <2>1. /\ Blank(w) = 2 * Len(l) + 1
        /\ \A N : Headers(SubSeq(w, 1, 2 * Len(l) + 1), N) = [n \in HeaderLines(l, Len(l), N) |-> n]
        /\ SubSeq(w, 2 * Len(l) + 2, Len(w)) = r.body
    <3>1. l \in Seq(Words) /\ "nl" \in Words
      BY <1>2
    <3>2. QED
      BY <1>3, <1>6, <3>1, MessageParts
  <2>2. QED
    BY <2>1
<1>8. HeaderLines(l, Len(l), Names) = D
  <2>1. r.code \notin Names
    BY DEF Codes, ResponseNames, StatusNames
  <2>2. ASSUME NEW d \in HeaderLines(l, Len(l), Names) PROVE d \in D
    <3>1. PICK j \in 1 .. Len(l) : l[j] \in Names /\ d = <<l[j]>>
      BY DEF HeaderLines
    <3>2. j - 1 \in 1 .. Len(t) /\ d = <<t[j - 1]>>
      BY <1>2, <1>5, <2>1, <3>1
    <3>3. QED
      BY <1>1, <3>2
  <2>3. ASSUME NEW d \in D PROVE d \in HeaderLines(l, Len(l), Names)
    <3>1. PICK i \in 1 .. Len(t) : d = <<t[i]>>
      BY <1>1
    <3>2. i + 1 \in 1 .. Len(l) /\ l[i + 1] \in Names /\ d = <<l[i + 1]>>
      BY <1>2, <1>4, <3>1
    <3>3. QED
      BY <3>2 DEF HeaderLines
  <2>4. QED
    BY <2>2, <2>3
<1>9. 2 * Len(l) + 1 + 1 = 2 * Len(l) + 2
  BY <1>2
<1>10. QED
  <2>1. SubSeq(w, Blank(w) + 1, Len(w)) = r.body
    BY <1>7, <1>9
  <2>2. Headers(SubSeq(w, 1, Blank(w)), Names) = r.headers
    BY <1>7, <1>8
  <2>3. QED
    BY <2>1, <2>2 DEF w

-----------------------------------------------------------------------------
(***************************************************************************)
(* The request, as much of it as arrives.                                  *)
(***************************************************************************)
\* The header lines and the body a client sends.
IsSent(l, b) == l \in Seq({"h1", "h2"}) /\ b \in Seq(Words)

\* Behind the request line there is the beginning of a message.
LEMMA ArrivedIs ==
  ASSUME NEW m \in Seq(Words), NEW k \in 0 .. Len(m) + 3
  PROVE  LET text == SubSeq(StartLine \o m, 1, k) IN
         /\ HasStartLine(text) <=> k >= 3
         /\ k >= 3 => Rest(text) = SubSeq(m, 1, k - 3)
<1> DEFINE e == StartLine
           x == e \o m
           text == SubSeq(x, 1, k)
           f == Find(text, "line")
<1>1. /\ e \in Seq(Words) /\ Len(e) = 3 /\ e[1] = "m" /\ e[2] = "line" /\ e[3] = "nl"
      /\ Len(m) \in Nat
  BY DEF StartLine, Words
<1> HIDE DEF e
<1>2. /\ x \in Seq(Words) /\ Len(x) = Len(e) + Len(m)
      /\ \A i \in 1 .. Len(e) : x[i] = e[i]
      /\ \A i \in 1 .. Len(m) : x[Len(e) + i] = m[i]
  <2>1. e \in Seq(Words) /\ m \in Seq(Words)
    BY <1>1
  <2>2. QED
    BY <2>1, ConcatAt
<1> HIDE DEF x
<1>3. /\ Len(x) = Len(m) + 3 /\ x[1] = "m" /\ x[2] = "line" /\ x[3] = "nl"
      /\ \A i \in 1 .. Len(m) : x[3 + i] = m[i]
  <2>1. 1 \in 1 .. Len(e) /\ 2 \in 1 .. Len(e) /\ 3 \in 1 .. Len(e)
    BY <1>1
  <2>2. QED
    BY <1>1, <1>2, <2>1
<1>4. /\ text \in Seq(Words) /\ Len(text) = k
      /\ \A i \in 1 .. k : text[i] = x[i]
  <2>1. k \in 0 .. Len(x)
    BY <1>3
  <2>2. QED
    BY <1>2, <2>1, PrefixIs
<1> HIDE DEF text
<1>5. /\ f \in 0 .. k
      /\ f # 0 => text[f] = "line"
      /\ \A i \in 1 .. k : text[i] = "line" => f # 0 /\ f <= i
  <2>1. /\ f \in 0 .. Len(text)
        /\ f = 0 <=> ~ Contains(text, "line")
        /\ f # 0 => text[f] = "line"
        /\ \A i \in 1 .. Len(text) : text[i] = "line" => f <= i
    BY <1>4, FindIs
  <2> HIDE DEF f
  <2>2. QED
    BY <1>4, <2>1 DEF Contains
<1> HIDE DEF f
<1>6. HasStartLine(text) <=> /\ f > 1 /\ \A j \in 1 .. f - 1 : text[j] \in {"m", "t", "$", "nul"}
                             /\ f < Len(text) /\ text[f + 1] = "nl"
  BY DEF HasStartLine, f
<1>7. Rest(text) = SubSeq(text, f + 2, Len(text))
  BY DEF Rest, f
<1>8. ASSUME k >= 2 PROVE f = 2
  <2>1. 1 \in 1 .. k /\ 2 \in 1 .. k
    BY <1>8
  <2>2. text[1] = "m" /\ text[2] = "line"
    BY <1>3, <1>4, <2>1
  <2>3. f # 0 /\ f <= 2 /\ f # 1
    BY <1>5, <2>1, <2>2
  <2>4. QED
    BY <1>5, <2>3
<1>9. HasStartLine(text) <=> k >= 3
  <2>1. ASSUME k >= 3 PROVE HasStartLine(text)
    <3>1. f = 2 /\ 1 \in 1 .. k /\ 3 \in 1 .. k
      BY <1>8, <2>1
    <3>2. text[1] = "m" /\ text[3] = "nl"
      BY <1>3, <1>4, <3>1
    <3>3. \A j \in 1 .. f - 1 : j = 1
      BY <3>1
    <3>4. QED
      BY <1>4, <1>6, <2>1, <3>1, <3>2, <3>3
  <2>2. ASSUME HasStartLine(text) PROVE k >= 3
    <3>1. f > 1 /\ f < k
      BY <1>4, <1>6, <2>2
    <3>2. QED
      BY <1>5, <3>1
  <2>3. QED
    BY <2>1, <2>2
<1>10. ASSUME k >= 3 PROVE Rest(text) = SubSeq(m, 1, k - 3)
  <2> DEFINE r == SubSeq(text, 4, k)
             g == SubSeq(m, 1, k - 3)
  <2>1. Rest(text) = r
    <3>1. f + 2 = 4
      BY <1>8, <1>10
    <3>2. QED
      BY <1>4, <1>7, <3>1
  <2>2. \A i \in 4 .. k : text[i] \in Words
    BY <1>4
  <2>3. /\ r \in Seq(Words) /\ Len(r) = IF 4 <= k THEN k - 4 + 1 ELSE 0
        /\ \A i \in 1 .. k - 4 + 1 : r[i] = text[4 + i - 1]
    BY <2>2, SubSeqProperties
  <2>4. /\ g \in Seq(Words) /\ Len(g) = k - 3
        /\ \A i \in 1 .. k - 3 : g[i] = m[i]
    <3>1. k - 3 \in 0 .. Len(m)
      BY <1>10
    <3>2. QED
      BY <3>1, PrefixIs
  <2> HIDE DEF r, g
  <2>5. Len(r) = k - 3
    BY <1>10, <2>3
  <2>6. ASSUME NEW i \in 1 .. k - 3 PROVE r[i] = g[i]
    <3>1. i \in 1 .. k - 4 + 1 /\ 4 + i - 1 = 3 + i /\ 3 + i \in 1 .. k /\ i \in 1 .. Len(m)
      BY <1>1
    <3>2. QED
      BY <1>3, <1>4, <2>3, <2>4, <3>1
  <2>7. QED
    BY <2>1, <2>3, <2>4, <2>5, <2>6, SeqEqual DEF g
<1>11. QED
  BY <1>9, <1>10 DEF e, x, text

\* The line ends of the beginning of a message with a body of one line; up to
\* one of them all lines are headers, as they were sent.
LEMMA BeginningIs ==
  ASSUME NEW l, NEW b, IsSent(l, b), OneLine(b), NEW q \in 0 .. Len(Message(l, b)),
         NEW i \in LineEnds(SubSeq(Message(l, b), 1, q))
  PROVE  LET rest == SubSeq(Message(l, b), 1, q) IN
         \E k \in 0 .. Len(l) :
           /\ (i = 2 * k + 2 /\ k < Len(l)) \/ (i = 2 * k + 1 /\ k = Len(l))
           /\ Headers(SubSeq(rest, 1, i - 1), {"h1", "h2"}) =
                [n \in HeaderLines(l, k, {"h1", "h2"}) |-> n]
<1> DEFINE n == Len(l)
           m == Message(l, b)
           rest == SubSeq(m, 1, q)
           pre == SubSeq(rest, 1, i - 1)
<1>1. /\ l \in Seq(Words) /\ NoLineEnd(l) /\ b \in Seq(Words) /\ "nl" \in Words
  <2>1. {"h1", "h2"} \subseteq Words /\ "nl" \in Words
    BY DEF Words
  <2>2. \A j \in 1 .. Len(l) : l[j] \in {"h1", "h2"}
    BY DEF IsSent
  <2>3. QED
    BY <2>1, <2>2, SeqMonotonic DEF IsSent, NoLineEnd
<1>2. /\ m \in Seq(Words) /\ Len(m) = 2 * n + 1 + Len(b) /\ Heads(m, l, n)
      /\ \A h \in 1 .. Len(b) : m[2 * n + 1 + h] = b[h]
      /\ n \in Nat /\ Len(b) \in Nat
  <2>1. /\ m \in Seq(Words) /\ Len(m) = 2 * Len(l) + 1 + Len(b) /\ Heads(m, l, Len(l))
        /\ \A h \in 1 .. Len(b) : m[2 * Len(l) + 1 + h] = b[h]
    BY <1>1, MessageIs
  <2>2. n \in Nat /\ Len(b) \in Nat
    BY <1>1
  <2>3. QED
    BY <2>1, <2>2
<1> HIDE DEF m, n
<1>3. /\ rest \in Seq(Words) /\ Len(rest) = q
      /\ \A h \in 1 .. q : rest[h] = m[h]
  BY <1>2 DEF m
<1>4. i \in 1 .. q /\ m[i] = "nl"
  <2>1. i \in 1 .. Len(rest) /\ rest[i] = "nl"
    BY DEF LineEnds, m
  <2>2. QED
    BY <1>3, <2>1
<1> HIDE DEF rest
<1>5. /\ pre \in Seq(Words) /\ Len(pre) = i - 1
      /\ \A h \in 1 .. i - 1 : pre[h] = m[h]
  <2>1. i - 1 \in 0 .. Len(rest)
    BY <1>3, <1>4
  <2>2. /\ pre \in Seq(Words) /\ Len(pre) = i - 1
        /\ \A h \in 1 .. i - 1 : pre[h] = rest[h]
    BY <1>3, <2>1
  <2>3. \A h \in 1 .. i - 1 : h \in 1 .. q
    BY <1>4
  <2>4. QED
    BY <1>3, <2>2, <2>3
<1> HIDE DEF pre
<1>6. i <= 2 * n + 1
  <2> SUFFICES ASSUME i > 2 * n + 1 PROVE FALSE
    BY <1>2, <1>4
  <2>1. i - (2 * n + 1) \in 1 .. Len(b) /\ 2 * n + 1 + (i - (2 * n + 1)) = i
    <3>1. q <= 2 * n + 1 + Len(b) /\ q \in Nat
      BY <1>2 DEF m
    <3>2. QED
      BY <1>2, <1>4, <3>1
  <2>2. b[i - (2 * n + 1)] = m[i]
    BY <1>2, <2>1
  <2>3. QED
    BY <1>4, <2>1, <2>2 DEF OneLine, Contains
<1>7. ASSUME NEW k \in 0 .. n, 2 * k <= i - 1, i - 1 <= 2 * k + 1
      PROVE  Headers(pre, {"h1", "h2"}) = [x \in HeaderLines(l, k, {"h1", "h2"}) |-> x]
  <2>1. ASSUME NEW j \in 1 .. k PROVE pre[2 * j - 1] = m[2 * j - 1] /\ pre[2 * j] = m[2 * j] /\ j \in 1 .. n
    <3>1. 2 * j - 1 \in 1 .. i - 1 /\ 2 * j \in 1 .. i - 1 /\ j \in 1 .. n
      BY <1>2, <1>4, <1>7
    <3>2. QED
      BY <1>5, <3>1
  <2>2. Heads(pre, l, k)
    BY <1>2, <1>5, <1>7, <2>1 DEF Heads
  <2>3. \A h \in LineEnds(pre) : h <= 2 * k + 1
    BY <1>4, <1>5, <1>7 DEF LineEnds
  <2>4. k \in Nat
    BY <1>2
  <2>5. QED
    BY <1>5, <2>2, <2>3, <2>4, HeadersAre
<1>8. CASE i = 2 * n + 1
  <2>1. n \in 0 .. n /\ 2 * n <= i - 1 /\ i - 1 <= 2 * n + 1
    BY <1>2, <1>8
  <2>2. QED
    BY <1>7, <1>8, <2>1 DEF pre, rest, m, n
<1>9. CASE i # 2 * n + 1
  <2>1. i \in LineEnds(m) /\ i <= 2 * n
    <3>1. i \in 1 .. Len(m)
      BY <1>4 DEF m
    <3>2. QED
      BY <1>2, <1>4, <1>6, <1>9, <3>1 DEF LineEnds
  <2>2. PICK j \in 1 .. n : i = 2 * j
    BY <1>2, <2>1, EndsAre
  <2> DEFINE k == j - 1
  <2>3. k \in 0 .. n /\ k < n /\ i = 2 * k + 2 /\ 2 * k <= i - 1 /\ i - 1 <= 2 * k + 1
    BY <1>2, <2>2
  <2> HIDE DEF k
  <2>4. QED
    BY <1>7, <2>3 DEF pre, rest, m, n
<1>10. QED
  BY <1>8, <1>9

\* What arrives is divided in two unless there is a "$" in the body or no line
\* end has come; and if all of it has come, where the sender divided it.
LEMMA RequestSplits ==
  ASSUME NEW l, NEW b, IsSent(l, b), OneLine(b), NEW q \in 0 .. Len(Message(l, b))
  PROVE  LET rest == SubSeq(Message(l, b), 1, q) IN
         /\ q >= 2 /\ ~ Contains(b, "$") => Splits(rest) # {}
         /\ q = Len(Message(l, b)) =>
              /\ Splits(rest) # {} <=> ~ Contains(b, "$")
              /\ Splits(rest) # {} => /\ Max(Splits(rest)) = 2 * Len(l) + 1
                                      /\ SubSeq(rest, 2 * Len(l) + 2, Len(rest)) = b
<1> DEFINE n == Len(l)
           m == Message(l, b)
           rest == SubSeq(m, 1, q)
<1>1. /\ l \in Seq(Words) /\ NoLineEnd(l) /\ b \in Seq(Words) /\ "nl" \in Words
      /\ \A j \in 1 .. n : l[j] \in {"h1", "h2"}
  <2>1. {"h1", "h2"} \subseteq Words /\ "nl" \in Words
    BY DEF Words
  <2>2. \A j \in 1 .. Len(l) : l[j] \in {"h1", "h2"}
    BY DEF IsSent
  <2>3. QED
    BY <2>1, <2>2, SeqMonotonic DEF IsSent, NoLineEnd
<1>2. /\ m \in Seq(Words) /\ Len(m) = 2 * n + 1 + Len(b) /\ Heads(m, l, n)
      /\ 2 * n + 1 \in LineEnds(m)
      /\ \A h \in 1 .. Len(b) : m[2 * n + 1 + h] = b[h]
      /\ n \in Nat /\ Len(b) \in Nat
  <2>1. /\ m \in Seq(Words) /\ Len(m) = 2 * Len(l) + 1 + Len(b) /\ Heads(m, l, Len(l))
        /\ 2 * Len(l) + 1 \in LineEnds(m)
        /\ \A h \in 1 .. Len(b) : m[2 * Len(l) + 1 + h] = b[h]
    BY <1>1, MessageIs
  <2>2. Len(l) \in Nat /\ Len(b) \in Nat
    BY <1>1
  <2>3. QED
    BY <2>1, <2>2, Zenon
<1>3. SubSeq(m, 2 * n + 2, Len(m)) = b
  BY <1>1, MessageParts
<1>4. /\ rest \in Seq(Words) /\ Len(rest) = q
      /\ \A h \in 1 .. q : rest[h] = m[h]
  <2>1. m \in Seq(Words) /\ q \in 0 .. Len(m)
    BY <1>2
  <2>2. QED
    BY <2>1, PrefixIs
<1>5. ASSUME NEW i \in LineEnds(rest) PROVE i <= 2 * n + 1
  <2>1. PICK k \in 0 .. n : (i = 2 * k + 2 /\ k < n) \/ (i = 2 * k + 1 /\ k = n)
    BY BeginningIs
  <2>2. QED
    BY <1>2, <2>1
<1> HIDE DEF m, n, rest
<1>6. ASSUME NEW h \in 1 .. 2 * n + 1 PROVE m[h] \in {"h1", "h2", "nl"}
  <2>1. CASE h = 2 * n + 1
    BY <1>2, <2>1 DEF LineEnds
  <2>2. CASE h # 2 * n + 1
    <3>1. PICK j \in 1 .. n : h = 2 * j - 1 \/ h = 2 * j
      <4>1. CASE h % 2 = 1
        <5>1. (h + 1) \div 2 \in 1 .. n /\ h = 2 * ((h + 1) \div 2) - 1
          BY <1>2, <2>2, <4>1
        <5>2. QED
          BY <5>1
      <4>2. CASE h % 2 # 1
        <5>1. h \div 2 \in 1 .. n /\ h = 2 * (h \div 2)
          BY <1>2, <2>2, <4>2
        <5>2. QED
          BY <5>1
      <4>3. QED
        BY <4>1, <4>2
    <3>2. QED
      BY <1>1, <1>2, <3>1 DEF Heads
  <2>3. QED
    BY <2>1, <2>2
<1>7. ASSUME NEW i \in LineEnds(rest), NEW h \in 1 .. i - 1 PROVE rest[h] # "tab"
  <2>1. i \in 1 .. q /\ i <= 2 * n + 1
    BY <1>4, <1>5 DEF LineEnds
  <2>2. h \in 1 .. q /\ h \in 1 .. 2 * n + 1
    BY <1>2, <2>1
  <2>3. QED
    BY <1>4, <1>6, <2>2
<1>8. ASSUME NEW i \in LineEnds(rest) PROVE ~ Contains(SubSeq(rest, 1, i - 1), "tab")
  <2>1. i - 1 \in 0 .. Len(rest)
    BY <1>4 DEF LineEnds
  <2>2. /\ Len(SubSeq(rest, 1, i - 1)) = i - 1
        /\ \A h \in 1 .. i - 1 : SubSeq(rest, 1, i - 1)[h] = rest[h]
    BY <1>4, <2>1, PrefixIs
  <2>3. QED
    BY <1>7, <2>2 DEF Contains
<1>9. Splits(rest) = {i \in LineEnds(rest) : ~ Contains(SubSeq(rest, i + 1, Len(rest)), "$")}
  BY <1>8 DEF Splits
<1>10. ASSUME NEW i \in LineEnds(rest)
       PROVE  /\ Len(SubSeq(rest, i + 1, Len(rest))) = q - i
              /\ \A h \in 1 .. q - i : SubSeq(rest, i + 1, Len(rest))[h] = rest[i + h]
  <2>1. i \in 0 .. Len(rest)
    BY <1>4 DEF LineEnds
  <2>2. QED
    BY <1>4, <2>1, SuffixIs
<1>11. ASSUME q >= 2, ~ Contains(b, "$") PROVE Splits(rest) # {}
  <2>1. ASSUME NEW h \in 1 .. Len(m) PROVE m[h] # "$"
    <3>1. CASE h <= 2 * n + 1
      BY <1>2, <1>6, <3>1
    <3>2. CASE h > 2 * n + 1
      <4>1. h - (2 * n + 1) \in 1 .. Len(b) /\ 2 * n + 1 + (h - (2 * n + 1)) = h
        BY <1>2, <3>2
      <4>2. m[h] = b[h - (2 * n + 1)]
        BY <1>2, <4>1
      <4>3. QED
        BY <1>11, <4>1, <4>2 DEF Contains
    <3>3. h <= 2 * n + 1 \/ h > 2 * n + 1
      BY <1>2
    <3>4. QED
      BY <3>1, <3>2, <3>3
  <2>2. \E i \in {1, 2} : m[i] = "nl"
    <3>1. CASE n = 0
      <4>1. 2 * n + 1 = 1
        BY <3>1
      <4>2. QED
        BY <1>2, <4>1 DEF LineEnds
    <3>2. CASE n # 0
      <4>1. 1 \in 1 .. n /\ 2 * 1 = 2
        BY <1>2, <3>2
      <4>2. QED
        BY <1>2, <4>1 DEF Heads
    <3>3. QED
      BY <3>1, <3>2
  <2>3. PICK i \in {1, 2} : m[i] = "nl"
    BY <2>2
  <2>4. i \in LineEnds(rest)
    <3>1. i \in 1 .. q
      BY <1>11
    <3>2. QED
      BY <1>4, <2>3, <3>1 DEF LineEnds
  <2>5. ASSUME NEW h \in 1 .. q - i PROVE rest[i + h] # "$"
    <3>1. i + h \in 1 .. q /\ i + h \in 1 .. Len(m)
      BY <1>2, <1>11 DEF m
    <3>2. QED
      BY <1>4, <2>1, <3>1
  <2>6. ~ Contains(SubSeq(rest, i + 1, Len(rest)), "$")
    BY <1>10, <2>4, <2>5 DEF Contains
  <2>7. QED
    BY <1>9, <2>4, <2>6
<1>12. ASSUME q = Len(m)
       PROVE  /\ Splits(rest) # {} <=> ~ Contains(b, "$")
              /\ Splits(rest) # {} => /\ Max(Splits(rest)) = 2 * n + 1
                                      /\ SubSeq(rest, 2 * n + 2, Len(rest)) = b
  <2>1. rest = m
    BY <1>2, <1>12, SubSeqFull DEF rest
  <2>2. 2 * n + 1 \in LineEnds(rest) /\ 2 * n + 1 + 1 = 2 * n + 2
    BY <1>2, <2>1
  <2>3. SubSeq(rest, 2 * n + 2, Len(rest)) = b
    BY <1>3, <2>1
  <2>4. ASSUME ~ Contains(b, "$") PROVE 2 * n + 1 \in Splits(rest)
    BY <1>9, <2>2, <2>3, <2>4
  <2>5. ASSUME NEW i \in Splits(rest) PROVE ~ Contains(b, "$")
    <3>1. i \in LineEnds(rest) /\ i \in 1 .. q /\ i <= 2 * n + 1
      BY <1>4, <1>5, <1>9 DEF LineEnds
    <3>2. ASSUME NEW h \in 1 .. Len(b) PROVE b[h] # "$"
      <4> DEFINE g == 2 * n + 1 + h - i
      <4>1. g \in 1 .. q - i /\ i + g = 2 * n + 1 + h
        BY <1>2, <1>12, <3>1
      <4> HIDE DEF g
      <4>2. rest[i + g] # "$"
        BY <1>9, <1>10, <3>1, <4>1 DEF Contains
      <4>3. QED
        BY <1>2, <2>1, <4>1, <4>2
    <3>3. QED
      BY <3>2 DEF Contains
  <2>6. ASSUME Splits(rest) # {} PROVE Max(Splits(rest)) = 2 * n + 1
    <3>1. Splits(rest) \subseteq 0 .. q /\ q \in Nat
      BY <1>2, <1>4, <1>9, <1>12 DEF LineEnds
    <3>2. Max(Splits(rest)) \in Splits(rest) /\ \A i \in Splits(rest) : i <= Max(Splits(rest))
      BY <2>6, <3>1, MaxIs
    <3>3. 2 * n + 1 \in Splits(rest)
      BY <2>4, <2>5, <2>6
    <3>4. Max(Splits(rest)) <= 2 * n + 1 /\ 2 * n + 1 <= Max(Splits(rest))
      BY <1>5, <1>9, <3>2, <3>3
    <3> DEFINE x == Max(Splits(rest))
               y == 2 * n + 1
    <3>5. x \in Nat /\ y \in Nat /\ x <= y /\ y <= x
      BY <1>2, <3>1, <3>2, <3>4
    <3> HIDE DEF x, y
    <3>6. x = y
      BY <3>5
    <3>7. QED
      BY <3>6 DEF x, y
  <2>7. QED
    BY <2>3, <2>4, <2>5, <2>6
<1>13. QED
  BY <1>11, <1>12 DEF rest, m, n

\* The texts that are read, and what the buffer has of them.
ToArrive ==
  /\ stage = "fill" => program = Nothing /\ IsSent(sent.lines, sent.body)
  /\ stage = "wait" => program \in Outputs
  /\ stage \in {"fill", "wait"} =>
       /\ Incoming \in Seq(Words) /\ buf \in Seq(Words)
       /\ reads \in Nat /\ arrived \in 0 .. Len(Incoming)
       /\ reads = 0 => arrived = 0
       /\ InOnePiece => buf = SubSeq(Incoming, 1, arrived)

\* A request is its first line and a message.
LEMMA RawIs ==
  ASSUME NEW l, NEW b, IsSent(l, b)
  PROVE  /\ StartLine \o Lines(l) \o <<"nl">> \o b = StartLine \o Message(l, b)
         /\ StartLine \o Lines(l) \o <<"nl">> \o b \in Seq(Words)
<1> DEFINE x == Lines(l)
           y == <<"nl">>
           s == StartLine
<1>1. x \in Seq(Words) /\ y \in Seq(Words) /\ s \in Seq(Words) /\ b \in Seq(Words)
  <2>1. l \in Seq({"h1", "h2"}) /\ {"h1", "h2"} \cup {"nl"} \subseteq Words
    BY DEF IsSent, Words
  <2>2. x = Pairs(l, Len(l)) /\ Len(l) \in 0 .. Len(l)
    BY <2>1, LinesAre
  <2>3. Pairs(l, Len(l)) \in Seq({"h1", "h2"} \cup {"nl"})
    BY <2>1, <2>2, PairsAre
  <2>4. x \in Seq(Words)
    BY <2>1, <2>2, <2>3, SeqMonotonic
  <2>5. QED
    BY <2>4 DEF IsSent, StartLine, Words
<1> HIDE DEF x, y, s
<1>2. s \o x \o y = s \o (x \o y)
  BY <1>1, ConcatAssociative
<1>3. x \o y \in Seq(Words)
  BY <1>1, ConcatProperties
<1>4. (s \o (x \o y)) \o b = s \o ((x \o y) \o b)
  <2> DEFINE z == x \o y
  <2>1. z \in Seq(Words) /\ s \in Seq(Words) /\ b \in Seq(Words)
    BY <1>1, <1>3
  <2> HIDE DEF z
  <2>2. (s \o z) \o b = s \o (z \o b)
    BY <2>1, ConcatAssociative
  <2>3. QED
    BY <2>2 DEF z
<1>5. ((s \o x) \o y) \o b \in Seq(Words)
  <2>1. s \o x \in Seq(Words)
    BY <1>1, ConcatProperties
  <2>2. (s \o x) \o y \in Seq(Words)
    BY <1>1, <2>1, ConcatProperties
  <2>3. QED
    BY <1>1, <2>2, ConcatProperties
<1>6. QED
  BY <1>2, <1>4, <1>5 DEF Message, x, y, s

\* The request is parsed as it was sent, or there is a reason to refuse it.
LEMMA RequestParsed ==
  ASSUME ToArrive, FillData, InOnePiece
  PROVE  ParsedAsSent' /\ RefusedHasReason'
<1> DEFINE l == sent.lines
           b == sent.body
           n == Len(l)
           m == Message(l, b)
           text == SubSeq(Raw, 1, arrived)
           q == arrived - 3
           rest == SubSeq(m, 1, q)
           Names == {"h1", "h2"}
<1>1. /\ IsSent(l, b) /\ arrived \in 0 .. Len(Raw)
      /\ program' = program /\ sent' = sent /\ arrived' = arrived /\ Raw' = Raw
      /\ InOnePiece'
      /\ stage' \in {"init", "closed"}
      /\ stage' = "init" <=> IsRequest(text)
      /\ stage' = "init" => request' = GetRequestForRawBuf(text)
  <2>1. stage = "fill" /\ Incoming = Raw /\ Received = text /\ reads' = reads
    BY DEF FillData, ToArrive, Incoming, Received, reading
  <2>2. QED
    BY <2>1 DEF FillData, ToArrive, Raw, InOnePiece, reading
<1>2. SUFFICES ASSUME OneLine(b) PROVE ParsedAsSent' /\ RefusedHasReason'
  BY <1>1 DEF ParsedAsSent, RefusedHasReason
<1>3. /\ l \in Seq({"h1", "h2"}) /\ n \in Nat
      /\ m \in Seq(Words) /\ Len(m) = 2 * n + 1 + Len(b) /\ Len(m) \in Nat
  <2>1. l \in Seq({"h1", "h2"}) /\ b \in Seq(Words) /\ "nl" \in Words /\ {"h1", "h2"} \subseteq Words
    BY <1>1 DEF IsSent, Words
  <2>2. l \in Seq(Words) /\ NoLineEnd(l)
    <3>1. \A j \in 1 .. Len(l) : l[j] \in {"h1", "h2"}
      BY <2>1
    <3>2. QED
      BY <2>1, <3>1, SeqMonotonic DEF NoLineEnd
  <2>3. m \in Seq(Words) /\ Len(m) = 2 * Len(l) + 1 + Len(b)
    BY <2>1, <2>2, MessageIs
  <2>4. Len(l) \in Nat /\ Len(b) \in Nat
    BY <2>1
  <2> HIDE DEF m, l, b
  <2>5. QED
    BY <2>1, <2>3, <2>4
<1>4. Raw = StartLine \o m /\ Len(Raw) = Len(m) + 3
  <2>1. Raw = StartLine \o m
    BY <1>1, RawIs DEF Raw
  <2>2. StartLine \in Seq(Words) /\ Len(StartLine) = 3
    BY DEF StartLine, Words
  <2> HIDE DEF m
  <2>4. StartLine \in Seq(Words) /\ m \in Seq(Words)
    BY <1>3, <2>2
  <2>5. Len(StartLine \o m) = Len(StartLine) + Len(m)
    BY <2>4, ConcatProperties
  <2>6. Len(StartLine \o m) = Len(m) + 3
    <3>1. Len(m) \in Nat
      BY <1>3
    <3>2. QED
      BY <2>2, <2>5, <3>1
  <2>7. QED
    BY <2>1, <2>6, Zenon
<1>5. /\ HasStartLine(text) <=> arrived >= 3
      /\ arrived >= 3 => Rest(text) = rest
  <2>1. arrived \in 0 .. Len(m) + 3
    BY <1>1, <1>4
  <2>2. QED
    BY <1>3, <1>4, <2>1, ArrivedIs
<1>6. IsRequest(text) <=> arrived >= 3 /\ Splits(rest) # {}
  BY <1>5 DEF IsRequest
<1>7. ASSUME arrived >= 3
      PROVE  /\ q \in 0 .. Len(m)
             /\ rest \in Seq(Words) /\ Len(rest) = q
             /\ q >= 2 /\ ~ Contains(b, "$") => Splits(rest) # {}
             /\ q = Len(m) =>
                  /\ Splits(rest) # {} <=> ~ Contains(b, "$")
                  /\ Splits(rest) # {} => /\ Max(Splits(rest)) = 2 * n + 1
                                          /\ SubSeq(rest, 2 * n + 2, Len(rest)) = b
  <2>1. q \in 0 .. Len(m)
    <3>1. arrived \in 0 .. Len(m) + 3
      BY <1>1, <1>4
    <3>2. Len(m) \in Nat
      BY <1>3
    <3> HIDE DEF m
    <3>3. QED
      BY <1>7, <3>1, <3>2
  <2>2. rest \in Seq(Words) /\ Len(rest) = q
    BY <1>3, <2>1, PrefixIs
  <2> HIDE DEF q
  <2>3. QED
    BY <1>1, <1>2, <2>1, <2>2, RequestSplits
<1>8. AllArrived' <=> arrived = Len(m) + 3
  BY <1>1, <1>4 DEF AllArrived
<1>9. ParsedAsSent'
  <2> SUFFICES ASSUME stage' = "init"
               PROVE  /\ \A x \in DOMAIN request'.headers : \E i \in 1 .. n :
                           x = <<l[i]>> /\ request'.headers[x] = <<l[i]>>
                      /\ AllArrived' => /\ DOMAIN request'.headers = {<<x>> : x \in ToSet(l)}
                                        /\ request'.body = b
    BY <1>1 DEF ParsedAsSent
  <2> DEFINE e == Max(Splits(rest))
  <2>1. arrived >= 3 /\ Splits(rest) # {} /\ Rest(text) = rest
    BY <1>1, <1>5, <1>6
  <2>2. /\ request'.headers = Headers(SubSeq(rest, 1, e - 1), Names)
        /\ request'.body = SubSeq(rest, e + 1, Len(rest))
    <3>1. request' = [headers |-> Headers(SubSeq(rest, 1, e - 1), Names),
                      body    |-> SubSeq(rest, e + 1, Len(rest))]
      <4>1. request' = GetRequestForRawBuf(text)
        BY <1>1
      <4> HIDE DEF rest, text
      <4>2. QED
        BY <2>1, <4>1, Zenon DEF GetRequestForRawBuf
    <3> HIDE DEF e, rest
    <3>2. QED
      BY <3>1
  <2>3. e \in LineEnds(rest)
    <3>1. Splits(rest) \subseteq LineEnds(rest) /\ LineEnds(rest) \subseteq 1 .. Len(rest)
      BY DEF Splits, LineEnds
    <3>2. q \in Nat /\ Splits(rest) \subseteq 0 .. q
      BY <1>7, <2>1, <3>1
    <3>3. e \in Splits(rest)
      BY <2>1, <3>2, MaxIs
    <3>4. QED
      BY <3>1, <3>3
  <2>4. PICK k \in 0 .. n : /\ (e = 2 * k + 2 /\ k < n) \/ (e = 2 * k + 1 /\ k = n)
                            /\ Headers(SubSeq(rest, 1, e - 1), Names) =
                                 [x \in HeaderLines(l, k, Names) |-> x]
    <3>1. q \in 0 .. Len(m)
      BY <1>7, <2>1
    <3> HIDE DEF e, q
    <3>2. QED
      BY <1>1, <1>2, <2>3, <3>1, BeginningIs
  <2>5. request'.headers = [x \in HeaderLines(l, k, Names) |-> x]
    BY <2>2, <2>4
  <2>6. ASSUME NEW x \in DOMAIN request'.headers
        PROVE  \E i \in 1 .. n : x = <<l[i]>> /\ request'.headers[x] = <<l[i]>>
    <3>1. x \in HeaderLines(l, k, Names) /\ request'.headers[x] = x
      BY <2>5
    <3>2. PICK i \in 1 .. k : x = <<l[i]>>
      BY <3>1 DEF HeaderLines
    <3>3. i \in 1 .. n
      BY <1>3
    <3>4. QED
      BY <3>1, <3>2, <3>3
  <2>7. ASSUME AllArrived'
        PROVE  DOMAIN request'.headers = {<<x>> : x \in ToSet(l)} /\ request'.body = b
    <3>1. q = Len(m)
      BY <1>3, <1>8, <2>7
    <3>2. e = 2 * n + 1 /\ SubSeq(rest, 2 * n + 2, Len(rest)) = b
      BY <1>7, <2>1, <3>1
    <3> HIDE DEF e, rest
    <3>3. k = n
      BY <1>3, <2>4, <3>2
    <3>4. e + 1 = 2 * n + 2
      BY <1>3, <3>2
    <3>5. request'.body = b
      BY <2>2, <3>2, <3>4
    <3>6. DOMAIN request'.headers = HeaderLines(l, n, Names)
      BY <2>5, <3>3
    <3>7. HeaderLines(l, n, Names) = {<<x>> : x \in ToSet(l)}
      <4>1. DOMAIN l = 1 .. n /\ \A i \in 1 .. n : l[i] \in Names
        BY <1>3
      <4>2. ToSet(l) = {l[i] : i \in 1 .. n}
        BY <4>1 DEF ToSet
      <4>3. QED
        BY <4>1, <4>2 DEF HeaderLines
    <3>8. QED
      BY <3>5, <3>6, <3>7
  <2>8. QED
    BY <2>6, <2>7
<1>10. RefusedHasReason'
  <2>1. ASSUME AllArrived' PROVE stage' = "closed" <=> Contains(b, "$")
    <3>1. arrived >= 3 /\ q = Len(m)
      <4> HIDE DEF m
      <4>1. arrived = Len(m) + 3
        BY <1>8, <2>1
      <4>2. Len(m) \in Nat
        BY <1>3
      <4>3. QED
        BY <4>1, <4>2
    <3>2. IsRequest(text) <=> ~ Contains(b, "$")
      BY <1>6, <1>7, <3>1
    <3>3. QED
      BY <1>1, <3>2
  <2>2. ASSUME arrived > Len(StartLine) + 1, stage' = "closed" PROVE Contains(b, "$")
    <3>1. Len(StartLine) = 3
      BY DEF StartLine
    <3>2. arrived \in Nat /\ arrived > 4
      BY <1>1, <2>2, <3>1
    <3>3. arrived >= 3 /\ q >= 2
      BY <3>2
    <3>4. Splits(rest) = {}
      BY <1>1, <1>6, <2>2, <3>3
    <3>5. QED
      BY <1>7, <3>3, <3>4
  <2>3. QED
    BY <1>1, <2>1, <2>2 DEF RefusedHasReason
<1>11. QED
  BY <1>9, <1>10

\* If pieces laid over each other are taken for a request, its body ends in
\* zeros.
LEMMA PiecesParsed ==
  ASSUME ToArrive, FillData, ~ InOnePiece
  PROVE  ParsedAsSent' /\ RefusedHasReason'
<1> DEFINE r == Received
           f == Find(r, "line")
           rest == SubSeq(r, f + 2, Len(r))
           e == Max(Splits(rest))
<1>1. /\ stage' = "init" => IsRequest(r) /\ request' = GetRequestForRawBuf(r)
      /\ buf \in Seq(Words) /\ ~ InOnePiece'
  BY DEF FillData, ToArrive, InOnePiece, reading
<1>2. SUFFICES ASSUME stage' = "init"
               PROVE  request'.body # <<>> /\ Last(request'.body) = "nul"
  BY <1>1 DEF ParsedAsSent, RefusedHasReason
<1>3. r \in Seq(Words) /\ Len(r) > 0 /\ Last(r) = "nul"
  BY <1>1, ReceivedIs
<1>4. f > 1 /\ f < Len(r) /\ r[f + 1] = "nl" /\ Splits(rest) # {} /\ Rest(r) = rest
  BY <1>1, <1>2 DEF IsRequest, HasStartLine, Rest
<1> HIDE DEF r
<1>5. f \in Nat /\ Len(r) \in Nat
  BY <1>3, FindIs
<1> HIDE DEF f
<1>6. f + 1 \in LineEnds(r) /\ f + 1 + 1 = f + 2
  BY <1>4, <1>5 DEF LineEnds
<1>7. rest \in Seq(Words) /\ rest # <<>> /\ Last(rest) = "nul"
  <2> DEFINE d == f + 1
             behind == SubSeq(r, d + 1, Len(r))
  <2>1. behind = rest
    BY <1>6
  <2>2. d \in LineEnds(r)
    BY <1>6
  <2> HIDE DEF d, rest
  <2>3. behind \in Seq(Words) /\ behind # <<>> /\ Last(behind) = "nul"
    BY <1>3, <2>2, ZerosAtTheEnd
  <2>4. QED
    BY <2>1, <2>3
<1> HIDE DEF rest
<1>8. request'.body = SubSeq(rest, e + 1, Len(rest))
  <2>1. request' = GetRequestForRawBuf(r)
    BY <1>1, <1>2 DEF r
  <2>2. request' = [headers |-> Headers(SubSeq(rest, 1, e - 1), {"h1", "h2"}),
                    body    |-> SubSeq(rest, e + 1, Len(rest))]
    BY <1>4, <2>1, Zenon DEF GetRequestForRawBuf
  <2> HIDE DEF e
  <2>3. QED
    BY <2>2
<1>9. Len(rest) > 0 /\ Len(rest) \in Nat
  BY <1>7
<1>10. e \in LineEnds(rest)
  <2>1. Splits(rest) \subseteq LineEnds(rest) /\ LineEnds(rest) \subseteq 0 .. Len(rest)
    BY DEF Splits, LineEnds
  <2>2. e \in Splits(rest)
    BY <1>4, <1>9, <2>1, MaxIs
  <2>3. QED
    BY <2>1, <2>2
<1>11. QED
  BY <1>7, <1>8, <1>9, <1>10, ZerosAtTheEnd

-----------------------------------------------------------------------------
(***************************************************************************)
(* The steps.                                                              *)
(***************************************************************************)
LEMMA UrisAre == Uris \subseteq Seq(Chars)
<1> SUFFICES ASSUME NEW u \in Uris PROVE u \in Seq(Chars)
  OBVIOUS
<1>1. PICK s \in BoundedSeq({"c", "?", ".", "~", "/"}, MaxUri) : u = <<"/">> \o s
  BY DEF Uris
<1>2. s \in Seq({"c", "?", ".", "~", "/"}) /\ {"c", "?", ".", "~", "/"} \subseteq Chars
  BY MessagesAssumption, BoundedIsSeq DEF Chars
<1>3. s \in Seq(Chars)
  BY <1>2, SeqMonotonic
<1>4. QED
  BY <1>1, <1>3, DirAndName, ConcatProperties

\* Before a program is run nothing of its output is read.
Early == stage = "handle" => reads = 0 /\ arrived = 0 /\ buf = <<>>

\* Nothing of a text is its beginning.
LEMMA NothingRead ==
  ASSUME NEW s \in Seq(Words)
  PROVE  <<>> \in Seq(Words) /\ 0 \in 0 .. Len(s) /\ <<>> = SubSeq(s, 1, 0)
OBVIOUS

\* The tokens of an output.
LEMMA OutputTokens ==
  ASSUME NEW l, NEW b, IsOutput(l, b)
  PROVE  Message(l, b) \in Seq(Words)
<1>1. ResponseNames \cup {"t"} \subseteq Words /\ "nl" \in Words
  BY DEF ResponseNames, StatusNames, Words
<1>2. \A j \in 1 .. Len(l) : l[j] # "nl"
  BY DEF IsOutput, ResponseNames, StatusNames
<1>3. l \in Seq(Words) /\ b \in Seq(Words) /\ NoLineEnd(l)
  BY <1>1, <1>2, SeqMonotonic DEF IsOutput, NoLineEnd
<1>4. QED
  BY <1>1, <1>3, MessageIs

\* What is promised of the texts, with what it takes.
Texts ==
  /\ ToArrive /\ ParsedAsSent /\ RefusedHasReason
  /\ UnansweredHasReason /\ OutputOrError /\ Shaped /\ Early
  /\ InOnePiece => WireReadsBack

\* What a client sends, to begin with.
LEMMA SentAre ==
  ASSUME Init
  PROVE  ToArrive
<1>1. /\ sent.lines \in {<<>>, <<"h1">>, <<"h1", "h2">>, <<"h1", "h1">>}
      /\ sent.body \in Bodies /\ program = Nothing /\ stage = "fill"
      /\ arrived = 0 /\ reads = 0 /\ buf = <<>>
  BY DEF Init
<1>2. sent.lines \in Seq({"h1", "h2"})
  <2>1. <<>> \in Seq({"h1", "h2"})
    OBVIOUS
  <2>2. <<"h1">> \in Seq({"h1", "h2"})
    OBVIOUS
  <2>3. <<"h1", "h2">> \in Seq({"h1", "h2"})
    OBVIOUS
  <2>4. <<"h1", "h1">> \in Seq({"h1", "h2"})
    OBVIOUS
  <2>5. QED
    BY <1>1, <2>1, <2>2, <2>3, <2>4, Zenon
<1>3. sent.body \in Seq({"t", "$", "tab", "nl", "h1"})
  BY <1>1, BoundedIsSeq, MessagesAssumption DEF Bodies
<1>4. {"t", "$", "tab", "nl", "h1"} \subseteq Words
  BY DEF Words
<1>5. IsSent(sent.lines, sent.body)
  BY <1>2, <1>3, <1>4, SeqMonotonic DEF IsSent
<1>6. Incoming = Raw /\ Raw \in Seq(Words)
  BY <1>1, <1>5, RawIs DEF Incoming, Raw
<1>7. QED
  BY <1>1, <1>5, <1>6, NothingRead DEF ToArrive, InOnePiece

\* Of a request none of which is parsed nothing is promised yet.
LEMMA InitTexts == Init => Texts
<1> SUFFICES ASSUME Init PROVE Texts
  OBVIOUS
<1>1. stage = "fill"
  BY DEF Init
<1>2. QED
  BY <1>1, SentAre DEF Texts, ParsedAsSent, RefusedHasReason, UnansweredHasReason,
                       OutputOrError, Shaped, WireReadsBack, Early

\* A read leaves in the buffer what it should, unless there was another before.
LEMMA ReadKeepsArrived ==
  ASSUME ToArrive, NEW n \in 1 .. Len(Incoming), NEW covered \in 0 .. Len(buf), Read(n, covered)
  PROVE  ToArrive'
<1> DEFINE inc == Incoming
           to == arrived + n
           piece == SubSeq(inc, arrived + 1, to)
           kept == SubSeq(buf, covered + 1, Len(buf))
<1>1. /\ stage \in {"fill", "wait"} /\ stage' = stage /\ sent' = sent /\ program' = program
      /\ to <= Len(inc)
      /\ buf' = piece \o kept /\ arrived' = to /\ reads' = reads + 1
  BY DEF Read
<1>2. inc' = inc
  BY <1>1 DEF Incoming, Raw, Output
<1>3. /\ inc \in Seq(Words) /\ buf \in Seq(Words)
      /\ reads \in Nat /\ arrived \in 0 .. Len(inc)
      /\ reads = 0 => arrived = 0
      /\ InOnePiece => buf = SubSeq(inc, 1, arrived)
      /\ n \in Nat /\ n >= 1
  BY <1>1 DEF ToArrive
<1> HIDE DEF inc
<1>4. to \in 0 .. Len(inc) /\ reads' \in Nat /\ Len(inc) \in Nat
  <2>1. Len(inc) \in Nat
    BY <1>3
  <2>2. to \in 0 .. Len(inc)
    <3>1. to <= Len(inc) /\ arrived \in Nat /\ n \in Nat
      BY <1>1, <1>3
    <3>2. to \in Nat
      BY <3>1
    <3> HIDE DEF to
    <3>3. QED
      BY <2>1, <3>1, <3>2
  <2>3. reads' \in Nat
    BY <1>1, <1>3
  <2>4. QED
    BY <2>1, <2>2, <2>3
<1>5. piece \in Seq(Words)
  <2>1. \A i \in arrived + 1 .. to : inc[i] \in Words
    BY <1>3, <1>4
  <2>2. arrived + 1 \in Int /\ to \in Int
    BY <1>3, <1>4
  <2>3. QED
    BY <2>1, <2>2, SubSeqProperties
<1>6. kept \in Seq(Words)
  BY <1>3, SuffixIs
<1>7. piece \o kept \in Seq(Words)
  <2> HIDE DEF piece, kept
  <2>1. QED
    BY <1>5, <1>6, ConcatProperties
<1>8. ASSUME InOnePiece' PROVE piece \o kept = SubSeq(inc, 1, to)
  <2>1. reads = 0 /\ arrived = 0
    BY <1>1, <1>3, <1>8 DEF InOnePiece
  <2>2. buf = <<>>
    BY <1>3, <2>1 DEF InOnePiece
  <2>3. kept = <<>>
    BY <2>2
  <2>4. piece = SubSeq(inc, 1, to)
    BY <2>1
  <2> HIDE DEF piece, kept
  <2>5. piece \o kept = piece
    BY <1>5, <2>3, ConcatEmptySeq
  <2>6. QED
    BY <2>4, <2>5
<1>9. QED
  <2>1. /\ Incoming' \in Seq(Words) /\ buf' \in Seq(Words)
        /\ arrived' \in 0 .. Len(Incoming')
        /\ reads' # 0
        /\ InOnePiece' => buf' = SubSeq(Incoming', 1, arrived')
    <3> HIDE DEF piece, kept, to
    <3>1. Incoming' = inc
      BY <1>2 DEF inc
    <3>2. QED
      BY <1>1, <1>3, <1>4, <1>7, <1>8, <3>1
  <2>2. QED
    BY <1>1, <1>4, <2>1 DEF ToArrive

\* The output of a program, none of which is read yet.
LEMMA RunArrives ==
  ASSUME NEW out \in Outputs, RunProgram(out), reads = 0, arrived = 0, buf = <<>>
  PROVE  ToArrive'
<1>1. /\ stage' = "wait" /\ program' = out /\ reads' = 0 /\ arrived' = 0 /\ buf' = <<>>
      /\ Output' = Message(out.lines, out.body)
  BY DEF RunProgram, Output, Message, reading
<1>2. Incoming' = Output'
  BY <1>1 DEF Incoming
<1>3. Output' \in Seq(Words)
  BY <1>1, OutputsAre, OutputTokens
<1>4. QED
  BY <1>1, <1>2, <1>3, NothingRead DEF ToArrive, InOnePiece

\* A step keeps them: each property is about the stage one action leads to, and
\* that action's lemma gives it.
LEMMA TextsStep == TypeOK /\ Texts /\ [Next]_vars => Texts'
<1> SUFFICES ASSUME TypeOK, Texts, [Next]_vars PROVE Texts'
  OBVIOUS
<1>1. CASE FillData
  <2>1. ToArrive
    BY DEF Texts
  <2>2. stage = "fill" /\ stage' \in {"init", "closed"} /\ program' = program /\ program = Nothing
    BY <1>1, <2>1 DEF FillData, ToArrive
  <2>3. ParsedAsSent' /\ RefusedHasReason'
    BY <1>1, <2>1, RequestParsed, PiecesParsed
  <2>4. QED
    BY <2>2, <2>3 DEF Texts, ToArrive, UnansweredHasReason, OutputOrError, Shaped, WireReadsBack,
                      Early
<1>2. ASSUME stage' = "handle", Early' PROVE Texts'
  BY <1>2 DEF Texts, ToArrive, ParsedAsSent, RefusedHasReason, UnansweredHasReason,
              OutputOrError, Shaped, WireReadsBack
<1>3. ASSUME NEW m \in Methods, NEW u \in Uris, CheckAndInit(m, u) PROVE Texts'
  BY <1>2, <1>3 DEF CheckAndInit, Early
<1>4. CASE Redirect
  BY <1>2, <1>4 DEF Redirect, Texts, Early, reading
<1>5. ASSUME NEW out \in Outputs, RunProgram(out) PROVE Texts'
  <2>1. stage = "handle" /\ stage' = "wait"
    BY <1>5 DEF RunProgram
  <2>2. ToArrive'
    BY <1>5, <2>1, RunArrives DEF Texts, Early
  <2>3. QED
    BY <2>1, <2>2 DEF Texts, Early, ParsedAsSent, RefusedHasReason, UnansweredHasReason,
                      OutputOrError, Shaped, WireReadsBack
<1>6. CASE TakeOutput
  <2>1. /\ stage = "wait" /\ stage' \in {"closed", "send"} /\ arrived = Len(Output)
        /\ Incoming = Output /\ program' = program /\ InOnePiece' = InOnePiece
    BY <1>6 DEF TakeOutput, Incoming, InOnePiece, reading
  <2>2. ToArrive
    BY DEF Texts
  <2>3. /\ UnansweredHasReason' /\ OutputOrError' /\ Shaped'
        /\ RefusedHasReason'
    <3>1. CASE InOnePiece
      <4>1. Whole
        BY <2>1, <2>2, <3>1 DEF Whole, ToArrive
      <4>2. /\ UnansweredHasReason' /\ OutputOrError' /\ Shaped'
            /\ stage' = "closed" => program' # Nothing
        BY <1>6, <3>1, <4>1, OutputTaken
      <4>3. QED
        BY <2>1, <4>2 DEF RefusedHasReason
    <3>2. CASE ~ InOnePiece
      <4>1. buf \in Seq(Words)
        BY <2>1, <2>2 DEF ToArrive
      <4>2. QED
        BY <1>6, <2>1, <3>2, <4>1, PiecesTaken DEF RefusedHasReason
    <3>3. QED
      BY <3>1, <3>2
  <2>4. QED
    BY <2>1, <2>3 DEF Texts, ToArrive, Early, ParsedAsSent, WireReadsBack
<1>7. CASE SendData
  <2>1. /\ stage = "send" /\ stage' = "sent" /\ wire' = ConvertByteBuf(response)
        /\ response' = response /\ InOnePiece' = InOnePiece
    BY <1>7 DEF SendData, InOnePiece, reading
  <2>2. ASSUME InOnePiece PROVE WireReadsBack'
    <3>1. PICK D \in SUBSET HeaderNames :
            response.headers = [n \in D |-> n] /\ response.body \in Seq(Words)
      BY <2>1, <2>2 DEF Texts, Shaped, HeaderNames
    <3>2. /\ Headers(SubSeq(wire', 1, Blank(wire')), ResponseNames \cup {"Server", "Content-Type"})
               = response.headers
          /\ SubSeq(wire', Blank(wire') + 1, Len(wire')) = response.body
      <4>1. response.code \in Codes
        BY DEF TypeOK, Codes
      <4>2. LET w == ConvertByteBuf(response) IN
            /\ Headers(SubSeq(w, 1, Blank(w)), ResponseNames \cup {"Server", "Content-Type"})
                 = response.headers
            /\ SubSeq(w, Blank(w) + 1, Len(w)) = response.body
        BY <3>1, <4>1, SentReadsBack
      <4>3. QED
        BY <2>1, <4>2, Zenon
    <3>3. QED
      BY <2>1, <3>2 DEF WireReadsBack
  <2>3. QED
    BY <2>1, <2>2 DEF Texts, ToArrive, Early, ParsedAsSent, RefusedHasReason, UnansweredHasReason,
                      OutputOrError, Shaped
<1>8. ASSUME NEW n \in 1 .. Len(Incoming), NEW covered \in 0 .. Len(buf), Read(n, covered)
      PROVE  Texts'
  <2>1. stage \in {"fill", "wait"} /\ stage' = stage
    BY <1>8 DEF Read
  <2>2. ToArrive'
    BY <1>8, ReadKeepsArrived DEF Texts
  <2>3. stage' \notin {"init", "handle", "send", "sent", "closed"}
    BY <2>1
  <2> HIDE <1>8
  <2>4. QED
    BY <2>2, <2>3, Zenon DEF Texts, Early, ParsedAsSent, RefusedHasReason, UnansweredHasReason,
                             OutputOrError, Shaped, WireReadsBack
<1>9. CASE UNCHANGED vars
  <2>1. UNCHANGED vars /\ UNCHANGED <<arrived, reads, buf>>
    BY <1>9 DEF vars, reading
  <2>2. ToArrive' /\ Early'
    BY <2>1 DEF vars, Texts, ToArrive, Early, Incoming, Raw, Output, InOnePiece
  <2>3. ParsedAsSent' /\ RefusedHasReason'
    BY <2>1 DEF vars, Texts, ParsedAsSent, RefusedHasReason, InOnePiece, AllArrived, Raw
  <2>4. UnansweredHasReason' /\ OutputOrError' /\ Shaped' /\ (InOnePiece' => WireReadsBack')
    BY <2>1 DEF vars, Texts, UnansweredHasReason, OutputOrError, Shaped, WireReadsBack, InOnePiece
  <2>5. QED
    BY <2>2, <2>3, <2>4 DEF Texts
<1>10. QED
  BY <1>1, <1>3, <1>4, <1>5, <1>6, <1>7, <1>8, <1>9 DEF Next

\* The inductive invariant: the types and the URI, and the texts.
Kept == TypeOK /\ DOMAIN asked = {"method", "uri"} /\ Edited

MessagesInv == Kept /\ Texts

\* It holds to begin with.
LEMMA InitMessages == Init => MessagesInv
<1> SUFFICES ASSUME Init PROVE MessagesInv
  OBVIOUS
<1>1. TypeOK
  BY ResponsesAre DEF Init, TypeOK, Methods, IsResponse, Codes
<1>2. QED
  BY <1>1, InitTexts DEF Init, MessagesInv, Kept, Edited

\* A step keeps the types and the URI.
LEMMA KeptStep == Kept /\ [Next]_vars => Kept'
<1> SUFFICES ASSUME Kept, [Next]_vars PROVE Kept'
  OBVIOUS
<1> USE DEF Kept
<1>1. CASE FillData
  <2>1. stage = "fill" /\ stage' \in {"init", "closed"}
        /\ UNCHANGED <<asked, uri, redirected, response>>
    BY <1>1 DEF FillData
  <2>2. DOMAIN request' = {"headers", "body"}
    BY <1>1 DEF FillData, GetRequestForRawBuf, TypeOK
  <2>3. TypeOK'
    BY <2>1, <2>2 DEF TypeOK
  <2>4. QED
    BY <2>1, <2>3 DEF Edited
<1>2. ASSUME NEW m \in Methods, NEW u \in Uris, CheckAndInit(m, u) PROVE Kept'
  <2>1. /\ stage = "init" /\ stage' = "handle" /\ asked' = [method |-> m, uri |-> u]
        /\ uri' = SetPath(u, FirstPath(u)) /\ request' = [headers |-> <<>>, body |-> <<>>]
        /\ UNCHANGED <<redirected, response>>
    BY <1>2 DEF CheckAndInit, FirstPath
  <2>2. TypeOK'
    BY <2>1 DEF TypeOK
  <2>3. u \in Seq(Chars)
    BY UrisAre
  <2>4. uri' = FirstPath(u) \o Query(u)
    BY <2>1, <2>3, PathsAre, SetPathIs
  <2>5. ~ redirected' /\ asked'.uri = u
    BY <2>1 DEF Edited
  <2>6. QED
    BY <2>1, <2>2, <2>3, <2>4, <2>5 DEF Edited, ServedPath, TypeOK
<1>3. CASE Redirect
  <2> DEFINE u == asked.uri
  <2>1. /\ stage = "handle" /\ ~ redirected /\ redirected' = TRUE
        /\ uri' = SetPath(uri, GetPath(uri) \o <<"/">> \o DefaultHtmlName)
        /\ UNCHANGED <<stage, request, asked, response>>
    BY <1>3 DEF Redirect
  <2>2. TypeOK'
    BY <2>1 DEF TypeOK
  <2>3. u \in Seq(Chars) /\ uri = FirstPath(u) \o Query(u)
    BY <2>1 DEF Edited, ServedPath
  <2>4. /\ FirstPath(u) \in Seq(Chars) /\ IsPath(FirstPath(u))
        /\ Query(u) \in Seq(Chars) /\ IsQuery(Query(u))
    BY <2>3, PathsAre, UriIs
  <2>5. GetPath(uri) = FirstPath(u) /\ Query(uri) = Query(u)
    BY <2>3, <2>4, PartsOf
  <2>6. uri \in Seq(Chars)
    BY <2>3, <2>4, ConcatProperties
  <2>7. ServedPath(u, TRUE) = GetPath(uri) \o <<"/">> \o DefaultHtmlName
        /\ ServedPath(u, TRUE) \in Seq(Chars)
    BY <2>3, <2>5, PathsAre DEF ServedPath
  <2>8. uri' = ServedPath(u, TRUE) \o Query(u)
    BY <2>1, <2>5, <2>6, <2>7, SetPathIs
  <2>9. QED
    BY <2>1, <2>2, <2>3, <2>8 DEF Edited, ServedPath
<1>4. ASSUME NEW out \in Outputs, RunProgram(out) PROVE Kept'
  <2>1. /\ stage = "handle" /\ stage' = "wait" /\ asked' = [asked EXCEPT !.uri = <<>>]
        /\ redirected' = FALSE /\ UNCHANGED <<request, response>>
    BY <1>4 DEF RunProgram
  <2>2. DOMAIN asked' = {"method", "uri"} /\ asked'.method = asked.method
    BY <2>1
  <2>3. TypeOK'
    BY <2>1, <2>2 DEF TypeOK
  <2>4. QED
    BY <2>1, <2>2, <2>3 DEF Edited
<1>5. CASE TakeOutput
  <2> DEFINE resp == SetHeader(GetRespForCgiBuf(Received), "Server")
  <2>1. /\ stage = "wait" /\ stage' \in {"closed", "send"} /\ UNCHANGED <<asked, redirected, request>>
        /\ response' \in {response, resp, [resp EXCEPT !.body = <<>>]}
    BY <1>5 DEF TakeOutput
  <2>2. IsResponse(resp)
    BY ResponsesAre, SetHeaderIs
  <2> HIDE DEF resp
  <2>3. IsResponse(response')
    BY <2>1, <2>2 DEF IsResponse, TypeOK, Codes
  <2>4. TypeOK'
    BY <2>1, <2>3 DEF TypeOK, IsResponse, Codes
  <2>5. QED
    BY <2>1, <2>4 DEF Edited
<1>6. CASE SendData
  <2>1. stage = "send" /\ stage' = "sent" /\ UNCHANGED <<asked, redirected, request, response>>
    BY <1>6 DEF SendData
  <2>2. TypeOK'
    BY <2>1 DEF TypeOK
  <2>3. QED
    BY <2>1, <2>2 DEF Edited
<1>7. ASSUME NEW n, NEW covered, Read(n, covered) PROVE Kept'
  BY <1>7 DEF Read, TypeOK, Edited
<1>8. CASE UNCHANGED vars
  BY <1>8 DEF vars, reading, TypeOK, Edited
<1>9. QED
  BY <1>1, <1>2, <1>3, <1>4, <1>5, <1>6, <1>7, <1>8 DEF Next

\* The invariant holds in every state.
THEOREM MessagesInvHolds == Spec => []MessagesInv
<1>1. MessagesInv /\ [Next]_vars => MessagesInv'
  BY KeptStep, TextsStep DEF MessagesInv, Kept
<1>2. QED
  BY InitMessages, <1>1, PTL DEF Spec

\* Every request and response has its parts, and every response one of the
\* three status codes.
THEOREM TypeCorrect == Spec => []TypeOK
<1>1. MessagesInv => TypeOK
  BY DEF MessagesInv, Kept
<1>2. QED
  BY <1>1, MessagesInvHolds, PTL

\* However long the URI: while a request is handled its parameters and the
\* decision to run a program are those of the URI that was sent, unless another
\* file is served in its place; and the setters set what the getters find
\* (checkAndInit and baseHandle with HttpRequest's URI functions).
THEOREM MeaningKept == Spec => []UriKeepsMeaning
<1>1. MessagesInv => UriKeepsMeaning
  BY EditedMeans DEF MessagesInv, Kept, TypeOK
<1>2. QED
  BY <1>1, MessagesInvHolds, PTL

\* However long the body and wherever the socket's timeout cuts the text off: a
\* request that is read in one piece and handled has the headers that were sent,
\* none of them cut short, and all of them and the body when all of it has
\* arrived; one that is read in several pieces, laid over each other by readn,
\* is handled only with a body that ends in zeros (fillData with Rio::readn and
\* the expressions of getRequestForRawBuf).
THEOREM RequestParsedAsSent == Spec => []ParsedAsSent
<1>1. MessagesInv => ParsedAsSent
  BY DEF MessagesInv, Texts
<1>2. QED
  BY <1>1, MessagesInvHolds, PTL

\* The two reasons for closing a connection without an answer, for any body and
\* any number of header lines, when its message is read in one piece: the
\* expression for a body has no "$", and getRespForCgiBuf throws out_of_range.
THEOREM CloseExplained == Spec => []ClosedHasReason
<1>1. MessagesInv => ClosedHasReason
  BY DEF MessagesInv, Texts, ClosedHasReason
<1>2. QED
  BY <1>1, MessagesInvHolds, PTL

\* However much a program writes: a sane output that is read in one piece is
\* answered by its own headers, status and body, any other by a 500 with nothing
\* of it; pieces laid over each other are answered by a 500 or with a body that
\* ends in zeros (readn, getRespForCgiBuf and what baseHandle does with its
\* result).
THEOREM OutputAnswered == Spec => []OutputOrError
<1>1. MessagesInv => OutputOrError
  BY DEF MessagesInv, Texts
<1>2. QED
  BY <1>1, MessagesInvHolds, PTL

\* What convertByteBuf writes in answer to an output read in one piece is read
\* back as it was: the first empty line is the one between headers and body,
\* whatever the body is.
THEOREM WireReadable == Spec => [](InOnePiece => WireReadsBack)
<1>1. MessagesInv => (InOnePiece => WireReadsBack)
  BY DEF MessagesInv, Texts
<1>2. QED
  BY <1>1, MessagesInvHolds, PTL

=============================================================================
