------------------------------ MODULE Messages ------------------------------
(***************************************************************************)
(* What becomes of the messages of one connection: the request's text,     *)
(* read until the socket's receive timeout cuts it off and parsed          *)
(* (fillData); its URI, edited by checkAndInit and baseHandle; the output  *)
(* of a CGI program, read, parsed and sent as a response                   *)
(* (src/HttpServer.cpp).                                                   *)
(*                                                                         *)
(* readn (src/Rio.cpp) lays every piece it reads over the one before, at   *)
(* the beginning of the caller's buffer, and returns how much it has read  *)
(* in all; so behind the longest piece the text it hands over ends in      *)
(* zeros.  Messages here are shorter than that buffer, which one call of   *)
(* readn fills then (module RioReadn has the longer ones), and a piece     *)
(* begins and ends between two tokens of the message and covers whole ones.*)
(*                                                                         *)
(* The parser's result does not depend on which request line it is, so     *)
(* that is chosen when it is first looked at; and what is not looked at    *)
(* any more is forgotten.                                                  *)
(***************************************************************************)
EXTENDS HttpResponse

CONSTANTS
  MaxUri,      \* bound on the characters of a URI after the first "/"
  MaxBody,     \* bound on the words of a body
  MaxLines,    \* bound on the header lines a program writes
  MaxReads     \* bound on the pieces a message is read in

ASSUME MessagesAssumption ==
  MaxUri \in Nat /\ MaxBody \in Nat /\ MaxLines \in Nat /\ MaxReads \in Nat

Methods == {"GET", "HEAD"}
Uris    == {<<"/">> \o s : s \in BoundedSeq({"c", "?", ".", "~", "/"}, MaxUri)}
Bodies  == BoundedSeq({"t", "$", "tab", "nl", "h1"}, MaxBody)

\* Abstraction of dynamicExtNameArr, webFileDirPath and defaultHtmlName: the
\* first has a dot in it, the second an extension that is not a program's.
DynamicExtNames == {<<"c">>}
WebFileDirPath  == <<".", "/", "d", "/">>
DefaultHtmlName == <<"i", ".", "h">>

Lines(s) == FlattenSeq([i \in 1 .. Len(s) |-> <<s[i], "nl">>])

VARIABLES
  stage,       \* how far the connection's worker is
  sent,        \* the header lines and the body of the request sent
  arrived,     \* how much of its text, or of the program's output, is read
  reads,       \* in how many pieces
  buf,         \* the caller's buffer, up to the zeros it begins with
  request,     \* headers and body as parsed
  asked,       \* the method and URI sent
  uri,         \* the URI in the worker's request
  redirected,  \* has baseHandle found a directory?
  program,     \* the header lines and the body a CGI program writes
  response,
  wire         \* what the client gets

reading == <<arrived, reads, buf>>

vars == <<stage, sent, reading, request, asked, uri, redirected, program, response, wire>>

Nothing  == [lines |-> <<>>, body |-> <<>>]
Raw      == StartLine \o Lines(sent.lines) \o <<"nl">> \o sent.body
Output   == Lines(program.lines) \o <<"nl">> \o program.body
Incoming == IF stage = "fill" THEN Raw ELSE Output

InOnePiece == reads <= 1

Init ==
  /\ stage = "fill"
  /\ sent \in [lines : {<<>>, <<"h1">>, <<"h1", "h2">>, <<"h1", "h1">>}, body : Bodies]
  /\ arrived = 0
  /\ reads = 0
  /\ buf = <<>>
  /\ request = [headers |-> <<>>, body |-> <<>>]
  /\ asked = [method |-> "GET", uri |-> <<>>]
  /\ uri = <<>>
  /\ redirected = FALSE
  /\ program = Nothing
  /\ response = Ok200
  /\ wire = <<>>

-----------------------------------------------------------------------------
(***************************************************************************)
(* readn, called by fillData and by baseHandle.                            *)
(***************************************************************************)

\* A read returns the next n tokens.  How many of those in the buffer they
\* cover depends on how long each is.
Read(n, covered) ==
  /\ stage \in {"fill", "wait"}
  /\ reads < MaxReads
  /\ arrived + n <= Len(Incoming)
  /\ covered = 0 <=> buf = <<>>
  /\ buf' = SubSeq(Incoming, arrived + 1, arrived + n) \o SubSeq(buf, covered + 1, Len(buf))
  /\ arrived' = arrived + n
  /\ reads' = reads + 1
  /\ UNCHANGED <<stage, sent, request, asked, uri, redirected, program, response, wire>>

\* What readn hands over: as many bytes as it has read, from the beginning of
\* the buffer.
Received == IF InOnePiece THEN buf ELSE Append(buf, "nul")

-----------------------------------------------------------------------------
(***************************************************************************)
(* The request.                                                            *)
(***************************************************************************)

\* fillData, after the timeout or the end of the stream.  For what does not
\* parse invalid_argument is thrown, and httpThread closes the connection.
FillData ==
  /\ stage = "fill"
  /\ \/ /\ IsRequest(Received)
        /\ request' = GetRequestForRawBuf(Received)
        /\ stage' = "init"
     \/ /\ ~ IsRequest(Received)
        /\ stage' = "closed"
        /\ UNCHANGED request
  /\ UNCHANGED <<sent, reading, asked, uri, redirected, program, response, wire>>

\* Does the path name the default page?
IsDefault(path) ==
  path = <<"/">> \/ \E i \in 1 .. Len(path) - 1 : path[i] = "~" /\ path[i + 1] = "/"

CheckAndInit(method, u) ==
  /\ stage = "init"
  /\ stage' = "handle"
  /\ asked' = [method |-> method, uri |-> u]
  /\ uri' = SetPath(u, WebFileDirPath \o
              IF IsDefault(GetPath(u)) THEN DefaultHtmlName ELSE GetPath(u))
  /\ sent' = Nothing
  /\ arrived' = 0 /\ reads' = 0 /\ buf' = <<>>
  /\ request' = [headers |-> <<>>, body |-> <<>>]
  /\ UNCHANGED <<redirected, program, response, wire>>

\* baseHandle: the path is a directory's.
Redirect ==
  /\ stage = "handle"
  /\ ~ redirected
  /\ redirected' = TRUE
  /\ uri' = SetPath(uri, GetPath(uri) \o <<"/">> \o DefaultHtmlName)
  /\ UNCHANGED <<stage, sent, reading, request, asked, program, response, wire>>

IsDynamic(u) == GetExt(u) \in DynamicExtNames

-----------------------------------------------------------------------------
(***************************************************************************)
(* The response of a CGI program; of the request only the method is left.  *)
(***************************************************************************)

\* baseHandle, for the path of a program, which writes out.
RunProgram(out) ==
  /\ stage = "handle"
  /\ IsDynamic(uri)
  /\ stage' = "wait"
  /\ program' = out
  /\ asked' = [asked EXCEPT !.uri = <<>>]
  /\ uri' = <<>>
  /\ redirected' = FALSE
  /\ UNCHANGED <<sent, reading, request, response, wire>>

\* baseHandle, at the end of the output.  out_of_range is caught by httpThread,
\* which closes the connection.
TakeOutput ==
  /\ stage = "wait"
  /\ arrived = Len(Output)
  /\ LET resp == SetHeader(GetRespForCgiBuf(Received), "Server") IN
       \/ /\ ThrowsOutOfRange(Received)
          /\ stage' = "closed"
          /\ UNCHANGED response
       \/ /\ ~ ThrowsOutOfRange(Received)
          /\ stage' = "send"
          /\ response' = IF asked.method = "HEAD" THEN [resp EXCEPT !.body = <<>>] ELSE resp
  /\ UNCHANGED <<sent, reading, request, asked, uri, redirected, program, wire>>

SendData ==
  /\ stage = "send"
  /\ stage' = "sent"
  /\ wire' = ConvertByteBuf(response)
  /\ UNCHANGED <<sent, reading, request, asked, uri, redirected, program, response>>

Outputs == [lines : BoundedSeq(ResponseNames \cup {"t"}, MaxLines), body : Bodies]

Next ==
  \/ \E n \in 1 .. Len(Incoming), covered \in 0 .. Len(buf) : Read(n, covered)
  \/ FillData
  \/ \E method \in Methods, u \in Uris : CheckAndInit(method, u)
  \/ Redirect
  \/ \E out \in Outputs : RunProgram(out)
  \/ TakeOutput
  \/ SendData

Spec == Init /\ [][Next]_vars

-----------------------------------------------------------------------------
(***************************************************************************)
(* Properties.                                                             *)
(***************************************************************************)
TypeOK ==
  /\ stage \in {"fill", "init", "handle", "wait", "send", "sent", "closed"}
  /\ asked.method \in Methods
  /\ DOMAIN request = {"headers", "body"}
  /\ DOMAIN response = {"code", "headers", "body"}
  /\ response.code \in {"200", "302", "500"}
  /\ redirected \in BOOLEAN

AllArrived == arrived = Len(Raw)
OneLine(body) == ~ Contains(body, "nl")

\* A request with a body of a single line that is read in one piece is parsed
\* as it was sent, every header and the body.  Of one cut off by the timeout
\* the parse has no header that was not sent, and no value cut short.  One that
\* is read in several pieces is never parsed as it was sent: if it is taken for
\* a request at all, it is for one whose body ends in zeros.
ParsedAsSent ==
  stage = "init" =>
    /\ InOnePiece /\ OneLine(sent.body) =>
         /\ \A n \in DOMAIN request.headers : \E i \in 1 .. Len(sent.lines) :
              n = <<sent.lines[i]>> /\ request.headers[n] = <<sent.lines[i]>>
         /\ AllArrived => /\ DOMAIN request.headers = {<<n>> : n \in ToSet(sent.lines)}
                          /\ request.body = sent.body
    /\ ~ InOnePiece => request.body # <<>> /\ Last(request.body) = "nul"

\* A request with a body of a single line that is read whole in one piece is
\* refused for a "$" in the body, always, and for nothing else.  A timeout does
\* not refuse one of which more than the request line and one line end has
\* been read: it is handled as if that were all of it.  One that is read in
\* several pieces may be refused whatever it is.
RefusedHasReason ==
  program = Nothing /\ InOnePiece /\ OneLine(sent.body) /\ stage \in {"init", "closed"} =>
    /\ AllArrived => (stage = "closed" <=> Contains(sent.body, "$"))
    /\ arrived > Len(StartLine) + 1 /\ stage = "closed" => Contains(sent.body, "$")

\* A program's output that is read in one piece gets no answer only if it has,
\* in well-formed headers, a status code without a name before any malformed
\* status.
UnansweredHasReason ==
  program # Nothing /\ InOnePiece /\ stage = "closed" =>
    /\ ~ Contains(program.lines, "t")
    /\ \E i \in 1 .. Len(program.lines) :
         program.lines[i] = "s299" /\ ~ Contains(SubSeq(program.lines, 1, i), "sBad")

\* A connection is closed without an answer for these reasons only, or because
\* its message was read in several pieces.
ClosedHasReason == RefusedHasReason /\ UnansweredHasReason

Directory(path) == SubSeq(path, 1, RFind(path, "/"))

\* setExt and setParam change what they name and nothing else; but setExt
\* keeps the directory only of a file that has an extension, or when no
\* directory has a dot in its name, as the server's own has.
SettersReadBack(method, u) ==
  LET ext   == <<"h">>
      param == <<"h", "c">>
      path  == GetPath(u)
  IN  /\ GetExt(SetExt(u, ext)) = ext
      /\ GetParam(method, SetExt(u, ext)) = GetParam(method, u)
      /\ ~ Contains(path, ".") \/ RFind(path, ".") > RFind(path, "/") =>
           Directory(GetPath(SetExt(u, ext))) = Directory(path)
      /\ GetParam("GET", SetParam("GET", u, param)) = param
      /\ GetPath(SetParam(method, u, param)) = path

\* Through the changes of the path the parameters stay those of the URI that
\* was sent.  Whether a program is run is decided by the extension of the path
\* sent, not by dots in the parameters or in the server's directory, unless
\* another file is served in its place.  What the setters of URI parts set is
\* what the getters find.
UriKeepsMeaning ==
  stage = "handle" =>
    /\ GetParam(asked.method, uri) = GetParam(asked.method, asked.uri)
    /\ IsDynamic(uri) <=> /\ IsDynamic(asked.uri)
                          /\ ~ IsDefault(GetPath(asked.uri))
                          /\ ~ redirected
    /\ SettersReadBack(asked.method, uri)

Sane(out) ==
  /\ out.lines # <<>>
  /\ ToSet(out.lines) \subseteq {"h1", "s302"}
  /\ ~ Contains(out.body, "$")

\* What a program writes is what is answered, if it is read in one piece: its
\* headers, its status and its body to the byte, whatever line ends and
\* header-like lines are in it.  The answer to a malformed output is 500 and
\* has nothing of it.  To an output that is read in several pieces the answer
\* is 500, or its body ends in zeros.
OutputOrError ==
  stage = "send" =>
    /\ InOnePiece /\ Sane(program) =>
         /\ response.code = IF Contains(program.lines, "s302") THEN "302" ELSE "200"
         /\ DOMAIN response.headers =
              {<<n>> : n \in {"Server"} \cup (ToSet(program.lines) \cap {"h1"})}
         /\ response.body = IF asked.method = "HEAD" THEN <<>> ELSE program.body
    /\ InOnePiece /\ ~ Sane(program) =>
         /\ response.code = "500"
         /\ DOMAIN response.headers = {<<"Server">>, <<"Content-Type">>}
         /\ response.body = <<>> <=> asked.method = "HEAD"
    /\ ~ InOnePiece /\ response.code # "500" =>
         IF asked.method = "HEAD" THEN response.body = <<>>
         ELSE response.body # <<>> /\ Last(response.body) = "nul"

\* A client that reads up to the first empty line finds the response's
\* headers before it and its body behind it.
WireReadsBack ==
  stage = "sent" =>
    /\ Headers(SubSeq(wire, 1, Blank(wire)), ResponseNames \cup {"Server", "Content-Type"})
         = response.headers
    /\ SubSeq(wire, Blank(wire) + 1, Len(wire)) = response.body

=============================================================================
