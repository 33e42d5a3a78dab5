----------------------------- MODULE BaseHandle -----------------------------
(***************************************************************************)
(* HttpServer::baseHandle (src/HttpServer.cpp) for one request, against a  *)
(* file system that others change while it is being handled.  Each step is *)
(* one system call: stat, access, open and exec look the name up again,    *)
(* and what an earlier call found may be true no longer.                   *)
(*                                                                         *)
(* The request names the entry "target"; when that is a directory, the     *)
(* entry "index" is its index.html.  The error pages are all cached, and   *)
(* there are descriptors to be had; see HttpServer for the cases where     *)
(* they are not.  A file is read at one moment.                            *)
(***************************************************************************)
EXTENDS Naturals, Sequences

CONSTANTS
  Bytes,       \* what files contain
  MaxSize,     \* bound on the size of a file
  DirSize,     \* st_size of a directory
  Junk,        \* a byte of Malloc's memory that readn did not fill
  Page,        \* the content of an error page, abstracted to one byte
  MaxChanges   \* bound on the changes of the file system in one request

ASSUME BaseHandleAssumption ==
  /\ MaxSize \in Nat /\ DirSize \in Nat \ {0} /\ MaxChanges \in Nat
  /\ Junk \notin Bytes /\ Page \notin Bytes

Contents == UNION {[1 .. n -> Bytes] : n \in 0 .. MaxSize}

Absent == [kind |-> "none", bytes |-> <<>>, r |-> FALSE, x |-> FALSE]
Dir    == [kind |-> "dir",  bytes |-> <<>>, r |-> TRUE,  x |-> TRUE]
Files  == [kind : {"file"}, bytes : Contents, r : BOOLEAN, x : BOOLEAN]
Entries == {Absent, Dir} \cup Files

\* Only a directory has an index.html in it.
FileSystems ==
  {f \in [{"target", "index"} -> Entries] : f["target"].kind # "dir" => f["index"] = Absent}

VARIABLES
  fs,            \* the file system, as far as the request is concerned
  changes,       \* how often it has changed during the request
  contentOnly,   \* were these changes of the content of files only?
  pc,            \* the next system call, or how the request ended
  head,          \* is the method HEAD?
  ext,           \* the extension of the path
  name,          \* the entry fileName refers to
  fileStat,      \* local variable of baseHandle
  file,          \* the opened file
  response       \* status code, Content-Type, Content-Length and body

vars == <<fs, changes, contentOnly, pc, head, ext, name, fileStat, file, response>>

request == <<head, fs, changes, contentOnly>>

Size(e) == IF e.kind = "dir" THEN DirSize ELSE Len(e.bytes)

Nothing == [status |-> 200, type |-> "none", length |-> 0, body |-> <<>>]

Init ==
  /\ fs \in FileSystems
  /\ changes = 0
  /\ contentOnly = TRUE
  /\ pc = "stat"
  /\ head \in BOOLEAN
  /\ ext \in {"html", "bin", "odd", "out"}
  /\ name = "target"
  /\ fileStat = [isDir |-> FALSE, size |-> 0]
  /\ file = Absent
  /\ response = Nothing

Done == {"send", "close", "exec", "execFailed"}

\* Abstraction of dynamicExtNameArr and of getFileMiMeType: a program's
\* extension, two that the table has, and one that it does not have.
DynamicExtNames == {"out"}
GetFileMiMeType(key) ==
  IF key = "html" THEN "text/html"
  ELSE IF key = "bin" THEN "application/octet-stream" ELSE "text/plain"

IsStatic == ext \notin DynamicExtNames

-----------------------------------------------------------------------------
(***************************************************************************)
(* The others.                                                             *)
(***************************************************************************)
SameButContent(e, f) == e = f \/ (e \in Files /\ f \in Files /\ e.r = f.r /\ e.x = f.x)

Change(f) ==
  /\ pc \notin Done \cup {"read"}
  /\ changes < MaxChanges
  /\ f # fs
  /\ fs' = f
  /\ changes' = changes + 1
  /\ contentOnly' = (contentOnly /\ \A n \in DOMAIN fs : SameButContent(fs[n], f[n]))
  /\ UNCHANGED <<pc, head, ext, name, fileStat, file, response>>

\* The opened file is written to; names do not matter any more.
Rewrite(bytes) ==
  /\ pc = "read"
  /\ file.kind = "file"
  /\ changes < MaxChanges
  /\ file' = [file EXCEPT !.bytes = bytes]
  /\ changes' = changes + 1
  /\ UNCHANGED <<fs, contentOnly, pc, head, ext, name, fileStat, response>>

-----------------------------------------------------------------------------
(***************************************************************************)
(* baseHandle.                                                             *)
(***************************************************************************)
StatOf(e) == [isDir |-> e.kind = "dir", size |-> Size(e)]

\* Mutation: fileStat is not initialised.
StatUninitialised ==
  /\ pc = "stat"
  /\ fileStat' = IF fs["target"] = Absent THEN [isDir |-> FALSE, size |-> Junk] ELSE StatOf(fs["target"])
  /\ pc' = IF fileStat'.isDir THEN "statIndex" ELSE "exists"
  /\ name' = IF fileStat'.isDir THEN "index" ELSE name
  /\ ext' = IF fileStat'.isDir THEN "html" ELSE ext
  /\ UNCHANGED <<request, file, response>>

\* stat: fileStat stays as it is when it fails.  For a directory the request
\* goes on with its index.html, whose extension is not a program's.
Stat ==
  /\ pc = "stat"
  /\ fileStat' = IF fs["target"] = Absent THEN fileStat ELSE StatOf(fs["target"])
  /\ pc' = IF fileStat'.isDir THEN "statIndex" ELSE "exists"
  /\ name' = IF fileStat'.isDir THEN "index" ELSE name
  /\ ext' = IF fileStat'.isDir THEN "html" ELSE ext
  /\ UNCHANGED <<request, file, response>>

\* Mutation: the index.html gets the size of its directory.
StatIndexForgotten ==
  /\ pc = "statIndex"
  /\ pc' = "exists"
  /\ UNCHANGED <<request, ext, name, fileStat, file, response>>

StatIndex ==
  /\ pc = "statIndex"
  /\ pc' = "exists"
  /\ fileStat' = IF fs["index"] = Absent THEN fileStat ELSE StatOf(fs["index"])
  /\ UNCHANGED <<request, ext, name, file, response>>

ErrorPage(code) ==
  [status |-> code, type |-> GetFileMiMeType("html"), length |-> 1,
   body |-> IF head THEN <<>> ELSE <<Page>>]

\* access(fileName, F_OK)
Exists ==
  /\ pc = "exists"
  /\ \/ /\ fs[name] = Absent
        /\ response' = ErrorPage(404)
        /\ pc' = "send"
     \/ /\ fs[name] # Absent
        /\ pc' = "permitted"
        /\ UNCHANGED response
  /\ UNCHANGED <<request, ext, name, fileStat, file>>

\* access(fileName, R_OK or X_OK), and the headers of a static answer: the
\* Content-Length is what stat found.
Permitted ==
  /\ pc = "permitted"
  /\ LET ok == IF IsStatic THEN fs[name].r ELSE fs[name].x IN
       \/ /\ ~ ok
          /\ response' = ErrorPage(403)
          /\ pc' = "send"
       \/ /\ ok /\ IsStatic
          /\ response' = [response EXCEPT !.type = GetFileMiMeType(ext), !.length = fileStat.size]
          /\ pc' = IF head THEN "send" ELSE "open"
       \/ /\ ok /\ ~ IsStatic
          /\ pc' = "run"
          /\ UNCHANGED response
  /\ UNCHANGED <<request, ext, name, fileStat, file>>

\* Open throws cFunctionError when the file has gone or become unreadable;
\* httpThread closes the connection.
Open ==
  /\ pc = "open"
  /\ \/ fs[name].r /\ file' = fs[name] /\ pc' = "read"
     \/ ~ fs[name].r /\ pc' = "close" /\ UNCHANGED file
  /\ UNCHANGED <<request, ext, name, fileStat, response>>

\* Mutation: the body is as long as what was read.
ReadCounts ==
  /\ pc = "read"
  /\ file.kind = "file"
  /\ pc' = "send"
  /\ response' = [response EXCEPT !.body =
       SubSeq(file.bytes, 1, IF Len(file.bytes) < fileStat.size THEN Len(file.bytes) ELSE fileStat.size)]
  /\ UNCHANGED <<request, ext, name, fileStat, file>>

\* Mutation: a file shorter than stat found it is an error.
ReadStrict ==
  /\ pc = "read"
  /\ \/ /\ file.kind = "dir" \/ Len(file.bytes) < fileStat.size
        /\ response' = ErrorPage(500)
     \/ /\ file.kind = "file" /\ Len(file.bytes) >= fileStat.size
        /\ response' = [response EXCEPT !.body = SubSeq(file.bytes, 1, fileStat.size)]
  /\ pc' = "send"
  /\ UNCHANGED <<request, ext, name, fileStat, file>>

\* readn and setBody: as many bytes as stat found, whatever readn returned.
\* Reading a directory throws runtime_error, which httpThread answers with
\* 500; reading no bytes of it does not.
Read ==
  /\ pc = "read"
  /\ pc' = "send"
  /\ response' =
       IF file.kind = "dir" /\ fileStat.size > 0
       THEN ErrorPage(500)
       ELSE [response EXCEPT !.body =
               [i \in 1 .. fileStat.size |-> IF i <= Len(file.bytes) THEN file.bytes[i] ELSE Junk]]
  /\ UNCHANGED <<request, ext, name, fileStat, file>>

\* Fork and execle; what follows is module Cgi.
Run ==
  /\ pc = "run"
  /\ pc' = IF fs[name].kind = "file" /\ fs[name].x THEN "exec" ELSE "execFailed"
  /\ UNCHANGED <<request, ext, name, fileStat, file, response>>

Handle == Stat \/ StatIndex \/ Exists \/ Permitted \/ Open \/ Read \/ Run

Next ==
  \/ Handle
  \/ \E f \in FileSystems : Change(f)
  \/ \E bytes \in Contents : Rewrite(bytes)

Spec == Init /\ [][Next]_vars

-----------------------------------------------------------------------------
(***************************************************************************)
(* The answer to a request when nothing changes: which entry is meant, and *)
(* what the method and the permissions allow.                              *)
(***************************************************************************)
Meant(f)  == IF f["target"].kind = "dir" THEN f["index"] ELSE f["target"]
Program(f) == ~ IsStatic /\ f["target"].kind # "dir"
Type(f)   == IF f["target"].kind = "dir" THEN "text/html" ELSE GetFileMiMeType(ext)
Reply(code, type, length, body) ==
  [status |-> code, type |-> type, length |-> length, body |-> IF head THEN <<>> ELSE body]

Expected(f) ==
  LET e == Meant(f) IN
    CASE e.kind = "none"                              -> <<"send", Reply(404, "text/html", 1, <<Page>>)>>
      [] e.kind # "none" /\ Program(f) /\ ~ e.x       -> <<"send", Reply(403, "text/html", 1, <<Page>>)>>
      [] e.kind # "none" /\ Program(f) /\ e.x         -> <<"exec", Nothing>>
      [] e.kind = "dir"  /\ ~ Program(f) /\ head      -> <<"send", Reply(200, Type(f), DirSize, <<>>)>>
      [] e.kind = "dir"  /\ ~ Program(f) /\ ~ head    -> <<"send", Reply(500, "text/html", 1, <<Page>>)>>
      [] e.kind = "file" /\ ~ Program(f) /\ ~ e.r     -> <<"send", Reply(403, "text/html", 1, <<Page>>)>>
      [] e.kind = "file" /\ ~ Program(f) /\ e.r       -> <<"send", Reply(200, Type(f), Len(e.bytes), e.bytes)>>

-----------------------------------------------------------------------------
(***************************************************************************)
(* Properties                                                              *)
(***************************************************************************)

\* The type invariant.
TypeOK ==
  /\ fs \in FileSystems
  /\ changes \in 0 .. MaxChanges
  /\ contentOnly \in BOOLEAN
  /\ pc \in {"stat", "statIndex", "exists", "permitted", "open", "read", "run"} \cup Done
  /\ head \in BOOLEAN
  /\ ext \in {"html", "bin", "odd", "out"}
  /\ name \in {"target", "index"}
  /\ fileStat.isDir \in BOOLEAN /\ fileStat.size \in Nat
  /\ file \in Entries
  /\ response.status \in {200, 403, 404, 500}
  /\ response.type \in {"none", "text/html", "text/plain", "application/octet-stream"}
  /\ response.length \in Nat
  /\ response.body \in Seq(Bytes \cup {Junk, Page})

\* The Content-Length is the length of the body that follows, and a HEAD has
\* none, whatever happens to the file between stat and read: the client's next
\* read never runs past the message or waits for more.
LengthMatchesBody ==
  pc = "send" =>
    IF head THEN response.body = <<>> ELSE response.length = Len(response.body)

\* While nothing changes, the handler's calls together give the answer that
\* one look at the file system would give.
QuietAnswer == pc \in Done /\ changes = 0 => <<pc, response>> = Expected(fs)

\* Writing to files, in place or by replacing them with others that have the
\* same permissions, never changes the status of an answer, nor makes the
\* server close the connection or fail to execute a program.
ContentKeepsStatus ==
  pc \in Done /\ contentOnly =>
    pc = Expected(fs)[1] /\ response.status = Expected(fs)[2].status

=============================================================================
