-------------------------- MODULE BaseHandleProofs --------------------------
(***************************************************************************)
(* Proofs about BaseHandle, for files of any content and size and any      *)
(* number of changes of the file system.                                   *)
(***************************************************************************)
EXTENDS BaseHandle, SequenceTheorems, TLAPS

(***************************************************************************)
(* The inductive invariant.                                                *)
(***************************************************************************)

\* The statements after which name refers to the entry that is answered for.
Named == {"exists", "permitted", "open", "read", "run"} \cup Done

\* The headers of a static answer.
Headers ==
  [status |-> 200, type |-> GetFileMiMeType(ext), length |-> fileStat.size, body |-> <<>>]

\* What of the answer there is.
Answering ==
  /\ fileStat \in [isDir : BOOLEAN, size : Nat]
  /\ pc = "stat" => name = "target" /\ fileStat = [isDir |-> FALSE, size |-> 0]
  /\ pc \in {"stat", "statIndex", "exists", "permitted", "run", "exec", "execFailed"} =>
       response = Nothing
  /\ pc \in {"open", "read", "close"} => ~ head /\ response = Headers
  /\ LengthMatchesBody

\* What the calls found is still true of the file system, content apart.
Settled ==
  /\ pc = "statIndex" => fs["target"].kind = "dir" /\ name = "index" /\ ext = "html"
  /\ pc \in Named =>
       IF fs["target"].kind = "dir" THEN name = "index" /\ ext = "html" ELSE name = "target"
  /\ pc \in Named /\ fs[name].kind = "dir" => fileStat.size = DirSize
  /\ pc \in {"permitted", "open", "read", "run"} => fs[name].kind # "none"
  /\ pc \in {"open", "read"} => IsStatic /\ fs[name].r
  /\ pc = "read" => file.kind = fs[name].kind
  /\ pc = "run" => ~ IsStatic /\ fs[name].x
  /\ pc \in Done => pc = Expected(fs)[1] /\ response.status = Expected(fs)[2].status

\* It is true with the content.
Unchanged ==
  /\ pc \in Named /\ fs[name].kind # "none" => fileStat.size = Size(fs[name])
  /\ pc = "read" => file = fs[name]
  /\ pc \in Done => <<pc, response>> = Expected(fs)

HandleInv ==
  /\ TypeOK
  /\ Answering
  /\ contentOnly => Settled
  /\ changes = 0 => contentOnly /\ Unchanged

-----------------------------------------------------------------------------
(***************************************************************************)
(* Facts about entries and file systems.                                   *)
(***************************************************************************)
LEMMA ContentsAreSeqs ==
  ASSUME NEW b \in Contents
  PROVE  b \in Seq(Bytes) /\ Len(b) \in Nat /\ b \in [1 .. Len(b) -> Bytes]
<1>1. PICK n \in 0 .. MaxSize : b \in [1 .. n -> Bytes]
  BY DEF Contents
<1>2. n \in Nat
  BY BaseHandleAssumption
<1>3. b \in Seq(Bytes) /\ Len(b) = n
  BY <1>1, <1>2, SeqDef, LenProperties
<1>4. QED
  BY <1>1, <1>2, <1>3

LEMMA EntriesAre ==
  ASSUME NEW e \in Entries
  PROVE  /\ e.kind \in {"none", "dir", "file"} /\ e.r \in BOOLEAN /\ e.x \in BOOLEAN
         /\ e.kind = "none" <=> e = Absent
         /\ e.kind = "dir" <=> e = Dir
         /\ e.kind = "file" <=> e \in Files
         /\ e.kind = "none" => ~ e.r /\ ~ e.x
         /\ e.kind = "file" => e.bytes \in Contents
         /\ e.kind # "file" => e.bytes = <<>>
<1>1. CASE e = Absent
  BY <1>1 DEF Absent, Dir, Files
<1>2. CASE e = Dir
  BY <1>2 DEF Absent, Dir, Files
<1>3. CASE e \in Files
  BY <1>3 DEF Absent, Dir, Files
<1>4. QED
  BY <1>1, <1>2, <1>3 DEF Entries

LEMMA BytesAre ==
  ASSUME NEW e \in Entries
  PROVE  /\ e.bytes \in Seq(Bytes) /\ Len(e.bytes) \in Nat
         /\ \A i \in 1 .. Len(e.bytes) : e.bytes[i] \in Bytes
         /\ Size(e) \in Nat
<1>1. CASE e.kind = "file"
  BY <1>1, EntriesAre, ContentsAreSeqs DEF Size
<1>2. CASE e.kind # "file"
  <2>1. e.bytes = <<>> /\ <<>> \in Seq(Bytes) /\ Len(<<>>) = 0
    BY <1>2, EntriesAre
  <2>2. Size(e) \in Nat
    BY <2>1, BaseHandleAssumption DEF Size
  <2>3. QED
    BY <2>1, <2>2
<1>3. QED
  BY <1>1, <1>2

LEMMA FileSystemsAre ==
  ASSUME NEW f \in FileSystems
  PROVE  /\ DOMAIN f = {"target", "index"}
         /\ \A n \in {"target", "index"} : f[n] \in Entries
BY DEF FileSystems

\* Two entries that differ in their content only.
LEMMA SameKinds ==
  ASSUME NEW e \in Entries, NEW f \in Entries, SameButContent(e, f)
  PROVE  e.kind = f.kind /\ e.r = f.r /\ e.x = f.x
BY EntriesAre DEF SameButContent

\* The cases of Expected, one by one.
LEMMA ExpectedIs ==
  ASSUME NEW f \in FileSystems
  PROVE  /\ Meant(f).kind = "none" => Expected(f) = <<"send", Reply(404, "text/html", 1, <<Page>>)>>
         /\ Meant(f).kind # "none" /\ Program(f) /\ ~ Meant(f).x =>
              Expected(f) = <<"send", Reply(403, "text/html", 1, <<Page>>)>>
         /\ Meant(f).kind # "none" /\ Program(f) /\ Meant(f).x => Expected(f) = <<"exec", Nothing>>
         /\ Meant(f).kind = "dir" /\ ~ Program(f) /\ head =>
              Expected(f) = <<"send", Reply(200, Type(f), DirSize, <<>>)>>
         /\ Meant(f).kind = "dir" /\ ~ Program(f) /\ ~ head =>
              Expected(f) = <<"send", Reply(500, "text/html", 1, <<Page>>)>>
         /\ Meant(f).kind = "file" /\ ~ Program(f) /\ ~ Meant(f).r =>
              Expected(f) = <<"send", Reply(403, "text/html", 1, <<Page>>)>>
         /\ Meant(f).kind = "file" /\ ~ Program(f) /\ Meant(f).r =>
              Expected(f) = <<"send", Reply(200, Type(f), Len(Meant(f).bytes), Meant(f).bytes)>>
<1>1. Meant(f).kind \in {"none", "dir", "file"}
  BY FileSystemsAre, EntriesAre DEF Meant
<1>2. CASE Meant(f).kind = "none"
  BY <1>2 DEF Expected
<1>3. CASE Meant(f).kind = "dir"
  BY <1>3 DEF Expected
<1>4. CASE Meant(f).kind = "file"
  BY <1>4 DEF Expected
<1>5. QED
  BY <1>1, <1>2, <1>3, <1>4

-----------------------------------------------------------------------------
(***************************************************************************)
(* The answers.                                                            *)
(***************************************************************************)
Codes == {200, 403, 404, 500}
Types == {"none", "text/html", "text/plain", "application/octet-stream"}
Sent  == Bytes \cup {Junk, Page}

Answers == [status : Codes, type : Types, length : Nat, body : Seq(Sent)]

LEMMA SentAre ==
  /\ <<>> \in Seq(Sent) /\ Len(<<>>) = 0
  /\ <<Page>> \in Seq(Sent) /\ Len(<<Page>>) = 1
BY DEF Sent

LEMMA ErrorPageIs ==
  ASSUME NEW code \in Codes
  PROVE  /\ ErrorPage(code) \in Answers
         /\ ErrorPage(code) = Reply(code, "text/html", 1, <<Page>>)
         /\ IF head THEN ErrorPage(code).body = <<>>
                    ELSE ErrorPage(code).length = Len(ErrorPage(code).body)
         /\ ErrorPage(code).status = code
<1>1. (IF head THEN <<>> ELSE <<Page>>) \in Seq(Sent)
  BY SentAre
<1>2. QED
  BY <1>1, SentAre DEF ErrorPage, Reply, Answers, GetFileMiMeType, Types

LEMMA HeadersAre ==
  ASSUME fileStat.size \in Nat
  PROVE  /\ Headers \in Answers /\ Headers.status = 200 /\ Headers.body = <<>>
         /\ Headers.length = fileStat.size
BY SentAre DEF Headers, Answers, Codes, Types, GetFileMiMeType

\* The body that Read makes of what is in the file: as long as stat found.
Body(b, n) == [i \in 1 .. n |-> IF i <= Len(b) THEN b[i] ELSE Junk]

LEMMA BodyIs ==
  ASSUME NEW b \in Seq(Bytes), NEW n \in Nat, b \in [1 .. Len(b) -> Bytes]
  PROVE  Body(b, n) \in Seq(Sent) /\ Len(Body(b, n)) = n /\ (n = Len(b) => Body(b, n) = b)
<1>1. Len(b) \in Nat
  OBVIOUS
<1>2. Body(b, n) \in [1 .. n -> Sent]
  BY <1>1 DEF Body, Sent
<1>3. Body(b, n) \in Seq(Sent) /\ Len(Body(b, n)) = n
  BY <1>2, SeqDef, LenProperties DEF Body
<1>4. n = Len(b) => Body(b, n) = b
  BY <1>1 DEF Body
<1>5. QED
  BY <1>3, <1>4

\* What the answer's type amounts to.
LEMMA AnswerTypes ==
  ASSUME response' \in Answers
  PROVE  /\ response'.status \in Codes /\ response'.type \in Types
         /\ response'.length \in Nat /\ response'.body \in Seq(Bytes \cup {Junk, Page})
BY DEF Answers, Sent

LEMMA ExpectedStays ==
  ASSUME UNCHANGED <<fs, head, ext>>
  PROVE  Expected(fs)' = Expected(fs)
BY DEF Expected, Reply, Type, Program, IsStatic

-----------------------------------------------------------------------------
(***************************************************************************)
(* The initial states, and what the others do.                             *)
(***************************************************************************)
LEMMA InitHandle == Init => HandleInv
<1> SUFFICES ASSUME Init PROVE HandleInv
  OBVIOUS
<1>1. TypeOK
  <2>1. file \in Entries
    BY DEF Init, Entries
  <2>2. <<>> \in Seq(Bytes \cup {Junk, Page})
    OBVIOUS
  <2>3. QED
    BY <2>1, <2>2, BaseHandleAssumption DEF Init, TypeOK, Nothing
<1>2. Answering
  BY DEF Init, Answering, LengthMatchesBody
<1>3. Settled /\ Unchanged /\ contentOnly
  BY DEF Init, Settled, Unchanged, Named, Done
<1>4. QED
  BY <1>1, <1>2, <1>3 DEF HandleInv

\* Where only content changes, what was found of the entries stays true.
LEMMA ChangeKeeps == ASSUME HandleInv, NEW f \in FileSystems, Change(f) PROVE HandleInv'
<1> USE DEF HandleInv
<1>1. /\ pc \notin Done \cup {"read"} /\ changes < MaxChanges /\ fs' = f /\ changes' = changes + 1
      /\ contentOnly' = (contentOnly /\ \A n \in DOMAIN fs : SameButContent(fs[n], f[n]))
      /\ UNCHANGED <<pc, head, ext, name, fileStat, file, response>>
  BY DEF Change
<1>2. TypeOK'
  BY <1>1, BaseHandleAssumption DEF TypeOK
<1>3. Answering'
  BY <1>1 DEF Answering, LengthMatchesBody, Headers
<1>4. ASSUME contentOnly' PROVE Settled'
  <2>1. /\ contentOnly /\ fs \in FileSystems
        /\ \A n \in {"target", "index"} : SameButContent(fs[n], f[n])
    <3>1. fs \in FileSystems
      BY DEF TypeOK
    <3>2. DOMAIN fs = {"target", "index"}
      BY <3>1, FileSystemsAre
    <3>3. QED
      BY <1>1, <1>4, <3>1, <3>2
  <2>2. \A n \in {"target", "index"} : fs[n].kind = f[n].kind /\ fs[n].r = f[n].r /\ fs[n].x = f[n].x
    BY <2>1, FileSystemsAre, SameKinds
  <2>3. name \in {"target", "index"} /\ Settled
    BY <2>1 DEF TypeOK
  <2>4. QED
    BY <1>1, <2>2, <2>3 DEF Settled, IsStatic, Done
<1>5. changes' # 0
  BY <1>1 DEF TypeOK
<1>6. QED
  BY <1>2, <1>3, <1>4, <1>5

LEMMA RewriteKeeps == ASSUME HandleInv, NEW b \in Contents, Rewrite(b) PROVE HandleInv'
<1> USE DEF HandleInv
<1>1. /\ pc = "read" /\ file.kind = "file" /\ changes < MaxChanges
      /\ file' = [file EXCEPT !.bytes = b] /\ changes' = changes + 1
      /\ UNCHANGED <<fs, contentOnly, pc, head, ext, name, fileStat, response>>
  BY DEF Rewrite
<1>2. file' \in Files /\ file'.kind = "file"
  <2>1. file \in Files
    BY <1>1, EntriesAre DEF TypeOK
  <2>2. QED
    BY <1>1, <2>1 DEF Files
<1>3. TypeOK'
  BY <1>1, <1>2, BaseHandleAssumption DEF TypeOK, Entries
<1>4. Answering'
  BY <1>1 DEF Answering, LengthMatchesBody, Headers
<1>5. ASSUME contentOnly PROVE Settled'
  BY <1>1, <1>2, <1>5 DEF Settled, IsStatic, Done
<1>6. changes' # 0
  BY <1>1 DEF TypeOK
<1>7. QED
  BY <1>1, <1>3, <1>4, <1>5, <1>6

-----------------------------------------------------------------------------
(***************************************************************************)
(* The calls of baseHandle.                                                *)
(***************************************************************************)

\* What the entry that is answered for has to do with the file system.
LEMMA NamedIsMeant ==
  ASSUME TypeOK, Settled, pc \in Named
  PROVE  /\ fs[name] = Meant(fs) /\ fs[name] \in Entries
         /\ Program(fs) <=> ~ IsStatic
         /\ GetFileMiMeType(ext) = Type(fs)
<1>1. name \in {"target", "index"} /\ fs \in FileSystems
  BY DEF TypeOK
<1>2. fs[name] = Meant(fs) /\ fs[name] \in Entries
  BY <1>1, FileSystemsAre DEF Settled, Meant
<1>3. Program(fs) <=> ~ IsStatic
  BY DEF Settled, Program, IsStatic, DynamicExtNames
<1>4. GetFileMiMeType(ext) = Type(fs)
  BY DEF Settled, Type, GetFileMiMeType
<1>5. QED
  BY <1>2, <1>3, <1>4

LEMMA StatOfIs ==
  ASSUME NEW e \in Entries
  PROVE  /\ StatOf(e) \in [isDir : BOOLEAN, size : Nat]
         /\ StatOf(e).isDir <=> e.kind = "dir"
         /\ StatOf(e).size = Size(e) /\ (e.kind = "dir" => StatOf(e).size = DirSize)
BY BytesAre DEF StatOf, Size

LEMMA StatKeeps == ASSUME HandleInv, Stat PROVE HandleInv'
<1> USE DEF HandleInv
<1> DEFINE e == fs["target"]
<1>1. /\ pc = "stat" /\ fileStat' = IF e = Absent THEN fileStat ELSE StatOf(e)
      /\ pc' = IF fileStat'.isDir THEN "statIndex" ELSE "exists"
      /\ name' = IF fileStat'.isDir THEN "index" ELSE name
      /\ ext' = IF fileStat'.isDir THEN "html" ELSE ext
      /\ UNCHANGED <<head, fs, changes, contentOnly, file, response>>
  BY DEF Stat, request
<1>2. /\ e \in Entries /\ name = "target" /\ fileStat = [isDir |-> FALSE, size |-> 0]
      /\ response = Nothing
  BY <1>1, FileSystemsAre DEF TypeOK, Answering
<1>3. /\ fileStat' \in [isDir : BOOLEAN, size : Nat] /\ (fileStat'.isDir <=> e.kind = "dir")
      /\ e.kind # "none" => fileStat'.size = Size(e)
  BY <1>1, <1>2, EntriesAre, StatOfIs
<1> HIDE DEF e
<1>4. TypeOK'
  BY <1>1, <1>3 DEF TypeOK
<1>5. Answering'
  BY <1>1, <1>2, <1>3 DEF Answering, LengthMatchesBody
<1>6. Settled'
  BY <1>1, <1>2, <1>3 DEF Settled, Named, Done, e
<1>7. Unchanged'
  BY <1>1, <1>2, <1>3 DEF Unchanged, Named, Done, e
<1>8. QED
  BY <1>1, <1>4, <1>5, <1>6, <1>7

LEMMA StatIndexKeeps == ASSUME HandleInv, StatIndex PROVE HandleInv'
<1> USE DEF HandleInv
<1> DEFINE e == fs["index"]
<1>1. /\ pc = "statIndex" /\ pc' = "exists"
      /\ fileStat' = IF e = Absent THEN fileStat ELSE StatOf(e)
      /\ UNCHANGED <<head, fs, changes, contentOnly, ext, name, file, response>>
  BY DEF StatIndex, request
<1>2. e \in Entries /\ response = Nothing
  BY <1>1, FileSystemsAre DEF TypeOK, Answering
<1>3. /\ fileStat' \in [isDir : BOOLEAN, size : Nat]
      /\ e.kind # "none" => fileStat'.size = Size(e)
      /\ e.kind = "dir" => fileStat'.size = DirSize
  BY <1>1, <1>2, EntriesAre, StatOfIs DEF Answering
<1> HIDE DEF e
<1>4. TypeOK'
  BY <1>1, <1>3 DEF TypeOK
<1>5. Answering'
  BY <1>1, <1>2, <1>3 DEF Answering, LengthMatchesBody
<1>6. ASSUME contentOnly PROVE Settled'
  BY <1>1, <1>3, <1>6 DEF Settled, Named, Done, e
<1>7. ASSUME contentOnly, Unchanged PROVE Unchanged'
  BY <1>1, <1>3, <1>7 DEF Settled, Unchanged, Named, Done, e
<1>8. QED
  BY <1>1, <1>4, <1>5, <1>6, <1>7

\* An error page ends the handling of a request.
LEMMA ErrorPageKeeps ==
  ASSUME HandleInv, NEW code \in Codes, pc \in Named, pc' = "send", response' = ErrorPage(code),
         UNCHANGED <<head, fs, changes, contentOnly, ext, name, fileStat, file>>,
         contentOnly => Expected(fs) = <<"send", Reply(code, "text/html", 1, <<Page>>)>>
  PROVE  HandleInv'
<1> USE DEF HandleInv
<1>1. /\ response' \in Answers /\ response'.status = code
      /\ response' = Reply(code, "text/html", 1, <<Page>>)
      /\ IF head THEN response'.body = <<>> ELSE response'.length = Len(response'.body)
  BY ErrorPageIs
<1>2. TypeOK'
  BY <1>1 DEF TypeOK, Done, Answers, Codes, Types, Sent
<1>3. Answering'
  BY <1>1 DEF Answering, LengthMatchesBody
<1>4. contentOnly => Expected(fs)' = <<pc', response'>>
  BY <1>1, ExpectedStays
<1>5. ASSUME contentOnly PROVE Settled'
  BY <1>1, <1>4, <1>5 DEF Settled, Named, Done
<1>6. ASSUME contentOnly, Unchanged PROVE Unchanged'
  BY <1>1, <1>4, <1>6 DEF Unchanged, Named, Done
<1>7. QED
  BY <1>2, <1>3, <1>5, <1>6

LEMMA ExistsKeeps == ASSUME HandleInv, Exists PROVE HandleInv'
<1> USE DEF HandleInv
<1>1. /\ pc = "exists"
      /\ UNCHANGED <<head, fs, changes, contentOnly, ext, name, fileStat, file>>
  BY DEF Exists, request
<1>2. pc \in Named /\ fs[name] \in Entries /\ fs \in FileSystems
  BY <1>1, FileSystemsAre DEF Named, TypeOK
<1>3. CASE fs[name] = Absent /\ response' = ErrorPage(404) /\ pc' = "send"
  <2>1. contentOnly => Expected(fs) = <<"send", Reply(404, "text/html", 1, <<Page>>)>>
    BY <1>2, <1>3, EntriesAre, NamedIsMeant, ExpectedIs
  <2>2. QED
    BY <1>1, <1>2, <1>3, <2>1, ErrorPageKeeps DEF Codes
<1>4. CASE fs[name] # Absent /\ pc' = "permitted" /\ UNCHANGED response
  <2>1. fs[name].kind # "none"
    BY <1>2, <1>4, EntriesAre
  <2>2. TypeOK' /\ Answering'
    BY <1>1, <1>4 DEF TypeOK, Answering, LengthMatchesBody
  <2>3. ASSUME contentOnly PROVE Settled'
    BY <1>1, <1>2, <1>4, <2>1, <2>3 DEF Settled, Named, Done
  <2>4. ASSUME Unchanged PROVE Unchanged'
    BY <1>1, <1>2, <1>4, <2>4 DEF Unchanged, Named, Done
  <2>5. QED
    BY <1>1, <2>2, <2>3, <2>4
<1>5. QED
  BY <1>3, <1>4 DEF Exists

\* A static answer has its headers now, and a HEAD request is done with them.
LEMMA PermittedKeeps == ASSUME HandleInv, Permitted PROVE HandleInv'
<1> USE DEF HandleInv
<1>1. /\ pc = "permitted" /\ pc \in Named
      /\ UNCHANGED <<head, fs, changes, contentOnly, ext, name, fileStat, file>>
  BY DEF Permitted, request, Named
<1>2. /\ fs[name] \in Entries /\ fs \in FileSystems /\ response = Nothing
      /\ fileStat.size \in Nat /\ head \in BOOLEAN
  BY <1>1, FileSystemsAre DEF TypeOK, Answering
<1>3. contentOnly => fs[name].kind # "none" /\ fs[name] = Meant(fs) /\ (Program(fs) <=> ~ IsStatic)
  BY <1>1, NamedIsMeant DEF Settled
<1>4. CASE /\ ~ (IF IsStatic THEN fs[name].r ELSE fs[name].x)
           /\ response' = ErrorPage(403) /\ pc' = "send"
  <2>1. contentOnly => Expected(fs) = <<"send", Reply(403, "text/html", 1, <<Page>>)>>
    <3>1. fs[name].kind = "dir" => fs[name].r /\ fs[name].x
      BY <1>2, EntriesAre DEF Dir
    <3>2. fs[name].kind \in {"none", "dir", "file"}
      BY <1>2, EntriesAre
    <3>3. QED
      BY <1>2, <1>3, <1>4, <3>1, <3>2, ExpectedIs
  <2>2. QED
    BY <1>1, <1>4, <2>1, ErrorPageKeeps DEF Codes
<1>5. CASE /\ IsStatic /\ fs[name].r
           /\ response' = [response EXCEPT !.type = GetFileMiMeType(ext), !.length = fileStat.size]
           /\ pc' = IF head THEN "send" ELSE "open"
  <2>1. response' = Headers /\ Headers' = Headers
    BY <1>1, <1>2, <1>5 DEF Headers, Nothing
  <2>2. response' \in Answers /\ response'.status = 200 /\ response'.body = <<>>
    BY <1>2, <2>1, HeadersAre
  <2>3. TypeOK'
    <3>1. /\ response'.status \in Codes /\ response'.type \in Types
          /\ response'.length \in Nat /\ response'.body \in Seq(Bytes \cup {Junk, Page})
      BY <2>2, AnswerTypes
    <3>2. pc' \in {"send", "open"}
      BY <1>5
    <3>3. QED
      BY <1>1, <3>1, <3>2 DEF TypeOK, Done, Codes, Types
  <2>4. Answering'
    BY <1>1, <1>5, <2>1, <2>2 DEF Answering, LengthMatchesBody
  <2>5. /\ contentOnly /\ head => Expected(fs)[1] = "send" /\ Expected(fs)[2].status = 200
        /\ contentOnly /\ head /\ fileStat.size = Size(fs[name]) =>
             Expected(fs) = <<"send", Headers>>
    <3>1. SUFFICES ASSUME contentOnly, head
                   PROVE  /\ Expected(fs)[1] = "send" /\ Expected(fs)[2].status = 200
                          /\ fileStat.size = Size(fs[name]) => Expected(fs) = <<"send", Headers>>
      OBVIOUS
    <3>2. GetFileMiMeType(ext) = Type(fs) /\ fs[name] = Meant(fs) /\ ~ Program(fs)
      BY <1>1, <1>5, <3>1, NamedIsMeant
    <3>3. CASE fs[name].kind = "dir"
      <4>1. Expected(fs) = <<"send", Reply(200, Type(fs), DirSize, <<>>)>>
        BY <1>2, <3>1, <3>2, <3>3, ExpectedIs
      <4>2. QED
        BY <3>1, <3>2, <3>3, <4>1 DEF Reply, Headers, Size
    <3>4. CASE fs[name].kind = "file"
      <4>1. Expected(fs) = <<"send", Reply(200, Type(fs), Len(fs[name].bytes), fs[name].bytes)>>
        BY <1>2, <1>5, <3>1, <3>2, <3>4, ExpectedIs
      <4>2. QED
        BY <3>1, <3>2, <3>4, <4>1 DEF Reply, Headers, Size
    <3>5. QED
      BY <1>2, <1>3, <3>1, <3>3, <3>4, EntriesAre
  <2>6. Expected(fs)' = Expected(fs)
    BY <1>1, ExpectedStays
  <2>7. ASSUME contentOnly PROVE Settled'
    BY <1>1, <1>3, <1>5, <2>2, <2>5, <2>6, <2>7 DEF Settled, Named, Done, IsStatic
  <2>8. ASSUME contentOnly, Unchanged PROVE Unchanged'
    <3>1. fileStat.size = Size(fs[name])
      BY <1>1, <1>3, <2>8 DEF Unchanged
    <3>2. pc' \in Done => head
      BY <1>5 DEF Done
    <3>3. pc' \in Done => <<pc', response'>> = Expected(fs)'
      BY <1>5, <2>1, <2>5, <2>6, <2>8, <3>1, <3>2
    <3>4. pc' # "read"
      BY <1>5
    <3>5. QED
      BY <1>1, <3>1, <3>3, <3>4 DEF Unchanged
  <2>9. QED
    BY <1>1, <2>3, <2>4, <2>7, <2>8
<1>6. CASE ~ IsStatic /\ fs[name].x /\ pc' = "run" /\ UNCHANGED response
  <2>1. TypeOK' /\ Answering'
    BY <1>1, <1>6 DEF TypeOK, Answering, LengthMatchesBody
  <2>2. ASSUME contentOnly PROVE Settled'
    BY <1>1, <1>3, <1>6, <2>2 DEF Settled, Named, Done, IsStatic
  <2>3. ASSUME Unchanged PROVE Unchanged'
    BY <1>1, <1>6, <2>3 DEF Unchanged, Named, Done
  <2>4. QED
    BY <1>1, <2>1, <2>2, <2>3
<1>7. QED
  BY <1>4, <1>5, <1>6 DEF Permitted

LEMMA OpenKeeps == ASSUME HandleInv, Open PROVE HandleInv'
<1> USE DEF HandleInv
<1>1. /\ pc = "open" /\ pc \in Named
      /\ UNCHANGED <<head, fs, changes, contentOnly, ext, name, fileStat, response>>
  BY DEF Open, request, Named
<1>2. fs[name] \in Entries
  BY FileSystemsAre DEF TypeOK
<1>3. Answering /\ response = Headers /\ ~ head /\ Headers' = Headers
  BY <1>1 DEF Answering, Headers
<1>4. CASE fs[name].r /\ file' = fs[name] /\ pc' = "read"
  <2>1. TypeOK' /\ Answering'
    BY <1>1, <1>2, <1>3, <1>4 DEF TypeOK, Answering, LengthMatchesBody
  <2>2. ASSUME contentOnly PROVE Settled'
    BY <1>1, <1>4, <2>2 DEF Settled, Named, Done, IsStatic
  <2>3. ASSUME Unchanged PROVE Unchanged'
    BY <1>1, <1>4, <2>3 DEF Unchanged, Named, Done
  <2>4. QED
    BY <1>1, <2>1, <2>2, <2>3
<1>5. CASE ~ fs[name].r /\ pc' = "close" /\ UNCHANGED file
  <2>1. ~ contentOnly
    BY <1>1, <1>5 DEF Settled
  <2>2. TypeOK' /\ Answering'
    BY <1>1, <1>3, <1>5 DEF TypeOK, Done, Answering, LengthMatchesBody
  <2>3. QED
    BY <1>1, <2>1, <2>2
<1>6. QED
  BY <1>4, <1>5 DEF Open

\* What was read has the length that stat found; where nothing changed it is
\* the file.
LEMMA ReadKeeps == ASSUME HandleInv, Read PROVE HandleInv'
<1> USE DEF HandleInv
<1>1. /\ pc = "read" /\ pc \in Named /\ pc' = "send"
      /\ UNCHANGED <<head, fs, changes, contentOnly, ext, name, fileStat, file>>
  BY DEF Read, request, Named
<1>2. /\ fs[name] \in Entries /\ fs \in FileSystems /\ file \in Entries
      /\ fileStat.size \in Nat /\ response = Headers /\ ~ head
  BY <1>1, FileSystemsAre DEF TypeOK, Answering
<1>3. ASSUME contentOnly
      PROVE  /\ file.kind = fs[name].kind /\ file.kind \in {"dir", "file"}
             /\ file.kind = "dir" => fileStat.size = DirSize
             /\ fs[name] = Meant(fs) /\ fs[name].r /\ ~ Program(fs)
             /\ GetFileMiMeType(ext) = Type(fs)
  BY <1>1, <1>2, <1>3, NamedIsMeant, EntriesAre DEF Settled
<1>4. CASE file.kind = "dir" /\ fileStat.size > 0 /\ response' = ErrorPage(500)
  <2>1. contentOnly => Expected(fs) = <<"send", Reply(500, "text/html", 1, <<Page>>)>>
    BY <1>2, <1>3, <1>4, ExpectedIs
  <2>2. QED
    BY <1>1, <1>4, <2>1, ErrorPageKeeps DEF Codes
<1>5. CASE ~ (file.kind = "dir" /\ fileStat.size > 0)
           /\ response' = [response EXCEPT !.body = Body(file.bytes, fileStat.size)]
  <2> DEFINE body == Body(file.bytes, fileStat.size)
  <2>1. /\ body \in Seq(Sent) /\ Len(body) = fileStat.size
        /\ fileStat.size = Len(file.bytes) => body = file.bytes
    <3>1. file.bytes \in Seq(Bytes) /\ file.bytes \in [1 .. Len(file.bytes) -> Bytes]
      BY <1>2, BytesAre
    <3>2. QED
      BY <1>2, <3>1, BodyIs
  <2> HIDE DEF body
  <2>2. response' = [status |-> 200, type |-> GetFileMiMeType(ext), length |-> fileStat.size, body |-> body]
    BY <1>2, <1>5 DEF Headers, body
  <2>3. response' \in Answers
    BY <1>2, <2>1, <2>2 DEF Answers, Codes, Types, GetFileMiMeType
  <2>4. TypeOK'
    <3>1. /\ response'.status \in Codes /\ response'.type \in Types
          /\ response'.length \in Nat /\ response'.body \in Seq(Bytes \cup {Junk, Page})
      BY <2>3, AnswerTypes
    <3>2. QED
      BY <1>1, <3>1 DEF TypeOK, Done, Codes, Types
  <2>5. Answering'
    BY <1>1, <1>2, <2>1, <2>2 DEF Answering, LengthMatchesBody
  <2>6. Expected(fs)' = Expected(fs)
    BY <1>1, ExpectedStays
  <2>7. ASSUME contentOnly
        PROVE  /\ fs[name].kind = "file"
               /\ Expected(fs) = <<"send", Reply(200, Type(fs), Len(fs[name].bytes), fs[name].bytes)>>
    <3>1. file.kind = "file"
      BY <1>3, <1>5, <2>7, BaseHandleAssumption
    <3>2. QED
      BY <1>2, <1>3, <2>7, <3>1, ExpectedIs
  <2>8. ASSUME contentOnly PROVE Settled'
    <3>1. Expected(fs)[1] = "send" /\ Expected(fs)[2].status = 200
      BY <2>7, <2>8 DEF Reply
    <3>2. response'.status = 200
      BY <2>2
    <3>3. QED
      BY <1>1, <2>6, <2>8, <3>1, <3>2 DEF Settled, Named, Done
  <2>9. ASSUME contentOnly, Unchanged PROVE Unchanged'
    <3>1. file = fs[name] /\ fileStat.size = Len(file.bytes)
      BY <1>1, <2>7, <2>9 DEF Unchanged, Size
    <3>2. response' = Reply(200, Type(fs), Len(fs[name].bytes), fs[name].bytes)
      BY <1>2, <1>3, <2>1, <2>2, <2>9, <3>1 DEF Reply
    <3>3. <<pc', response'>> = Expected(fs)'
      BY <1>1, <2>6, <2>7, <2>9, <3>2
    <3>4. QED
      BY <1>1, <2>9, <3>3 DEF Unchanged, Named, Done
  <2>10. QED
    BY <1>1, <2>4, <2>5, <2>8, <2>9
<1>6. QED
  BY <1>4, <1>5 DEF Read, Body

\* Where only content changed, the program that access found can be run.
LEMMA RunKeeps == ASSUME HandleInv, Run PROVE HandleInv'
<1> USE DEF HandleInv
<1>1. /\ pc = "run" /\ pc \in Named
      /\ pc' = IF fs[name].kind = "file" /\ fs[name].x THEN "exec" ELSE "execFailed"
      /\ UNCHANGED <<head, fs, changes, contentOnly, ext, name, fileStat, file, response>>
  BY DEF Run, request, Named
<1>2. /\ fs[name] \in Entries /\ fs \in FileSystems /\ response = Nothing
      /\ pc' \in {"exec", "execFailed"}
  BY <1>1, FileSystemsAre DEF TypeOK, Answering
<1>3. TypeOK'
  BY <1>1, <1>2 DEF TypeOK, Done
<1>4. Answering'
  BY <1>1, <1>2 DEF Answering, LengthMatchesBody
<1>5. ASSUME contentOnly PROVE <<pc', response'>> = Expected(fs)'
  <2>1. fs[name].kind = "file" /\ fs[name].x /\ Meant(fs) = fs[name] /\ Program(fs)
    <3>1. Meant(fs) = fs[name] /\ Program(fs) /\ fs[name].x /\ fs[name].kind # "none"
      BY <1>1, <1>5, NamedIsMeant DEF Settled
    <3>2. name = "target" /\ fs["target"].kind # "dir"
      BY <1>1, <1>5, <3>1 DEF Settled, Program
    <3>3. QED
      BY <1>2, <3>1, <3>2, EntriesAre
  <2>2. Expected(fs) = <<"exec", Nothing>>
    BY <1>2, <2>1, ExpectedIs
  <2>3. QED
    BY <1>1, <1>2, <2>1, <2>2, ExpectedStays
<1>6. ASSUME contentOnly PROVE Settled'
  <2>1. pc' = Expected(fs)'[1] /\ response' = Expected(fs)'[2]
    BY <1>5, <1>6
  <2>2. QED
    BY <1>1, <1>2, <1>6, <2>1 DEF Settled, Named, Done
<1>7. ASSUME contentOnly, Unchanged PROVE Unchanged'
  BY <1>1, <1>2, <1>5, <1>7 DEF Unchanged, Named, Done
<1>8. QED
  BY <1>1, <1>3, <1>4, <1>6, <1>7

LEMMA HandleStep == HandleInv /\ [Next]_vars => HandleInv'
<1> SUFFICES ASSUME HandleInv, [Next]_vars PROVE HandleInv'
  OBVIOUS
<1>1. CASE Handle
  BY <1>1, StatKeeps, StatIndexKeeps, ExistsKeeps, PermittedKeeps, OpenKeeps, ReadKeeps, RunKeeps
     DEF Handle
<1>2. ASSUME NEW f \in FileSystems, Change(f) PROVE HandleInv'
  BY <1>2, ChangeKeeps
<1>3. ASSUME NEW b \in Contents, Rewrite(b) PROVE HandleInv'
  BY <1>3, RewriteKeeps
<1>4. CASE UNCHANGED vars
  <2>1. /\ UNCHANGED <<fs, changes, contentOnly, pc, head, ext, name, fileStat, file, response>>
        /\ Headers' = Headers /\ Expected(fs)' = Expected(fs) /\ (IsStatic <=> IsStatic')
    BY <1>4, ExpectedStays DEF vars, Headers, IsStatic
  <2>2. TypeOK'
    BY <2>1 DEF HandleInv, TypeOK
  <2>3. Answering'
    BY <2>1 DEF HandleInv, Answering, LengthMatchesBody
  <2>4. contentOnly => Settled'
    BY <2>1 DEF HandleInv, Settled
  <2>5. Unchanged => Unchanged'
    BY <2>1 DEF Unchanged
  <2>6. QED
    BY <2>1, <2>2, <2>3, <2>4, <2>5 DEF HandleInv
<1>5. QED
  BY <1>1, <1>2, <1>3, <1>4 DEF Next

-----------------------------------------------------------------------------
(***************************************************************************)
(* The theorems.                                                           *)
(***************************************************************************)

\* Between any two calls of baseHandle, what its local variables say of the
\* file system is true as far as the changes leave it true.
THEOREM HandleInvHolds == Spec => []HandleInv
BY InitHandle, HandleStep, PTL DEF Spec

\* The variables of baseHandle and the answer have their types, for files of
\* any size.
THEOREM TypeCorrect == Spec => []TypeOK
<1>1. HandleInv => TypeOK
  BY DEF HandleInv
<1>2. QED
  BY <1>1, HandleInvHolds, PTL

\* The Content-Length is the length of the body, although the file may have
\* become shorter, longer or something else between stat, access, open and
\* readn, any number of times.
THEOREM LengthAgrees == Spec => []LengthMatchesBody
<1>1. HandleInv => LengthMatchesBody
  BY DEF HandleInv, Answering
<1>2. QED
  BY <1>1, HandleInvHolds, PTL

\* While nothing changes, the calls of baseHandle together answer as one look
\* at the file system would, whatever is in it.
THEOREM QuietAnswered == Spec => []QuietAnswer
<1>1. HandleInv => QuietAnswer
  BY DEF HandleInv, Unchanged, QuietAnswer
<1>2. QED
  BY <1>1, HandleInvHolds, PTL

\* Any number of writes to files never changes the status of an answer: what
\* stat and access found stays true of everything but the size.
THEOREM StatusKept == Spec => []ContentKeepsStatus
<1>1. HandleInv => ContentKeepsStatus
  BY DEF HandleInv, Settled, ContentKeepsStatus
<1>2. QED
  BY <1>1, HandleInvHolds, PTL

=============================================================================
