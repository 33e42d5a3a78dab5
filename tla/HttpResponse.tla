---------------------------- MODULE HttpResponse ----------------------------
(***************************************************************************)
(* HttpResponse (src/HttpResponse.cpp): the parser of a CGI program's      *)
(* output, and the bytes of a response.                                    *)
(*                                                                         *)
(* The output is a sequence of the tokens of HttpRequest and of            *)
(*   "s302"   "Status: 302 Found"                                          *)
(*   "s299"   "Status: 299 What", a code that codeNameMap does not have    *)
(*   "sBad"   "Status: soon"                                               *)
(***************************************************************************)
EXTENDS HttpRequest

StatusNames   == {"s302", "s299", "sBad"}
ResponseNames == {"h1"} \cup StatusNames

\* setHeader replaces a header of the same name.
SetHeader(response, name) ==
  [response EXCEPT !.headers =
     [n \in {<<name>>} \cup DOMAIN @ |-> IF n = <<name>> THEN n ELSE @[n]]]

-----------------------------------------------------------------------------
(***************************************************************************)
(* getRespForCgiBuf: header lines, at least one; an empty line; any text   *)
(* without "$".                                                            *)
(***************************************************************************)

\* The end of the first empty line, or 0.
Blank(buf) == Min({i \in LineEnds(buf) : LineAt(buf, i) = <<>>} \cup {Len(buf) + 1}) % (Len(buf) + 1)

HeaderEnds(buf) == {i \in LineEnds(buf) : i < Blank(buf)}

\* A name has no tab in it.
IsCgiOutput(buf) ==
  /\ HeaderEnds(buf) # {}
  /\ \A i \in HeaderEnds(buf) :
       /\ IsHeader(LineAt(buf, i), ResponseNames)
       /\ ~ Contains(Name(LineAt(buf, i), ResponseNames), "tab")
  /\ ~ Contains(SubSeq(buf, Blank(buf) + 1, Len(buf)), "$")

StatusAt(buf, code) == {i \in HeaderEnds(buf) : LineAt(buf, i)[1] = code}

\* setStatusCode throws out_of_range from codeNameMap.at.  The loop does not
\* come past a malformed Status.
ThrowsOutOfRange(buf) ==
  /\ IsCgiOutput(buf)
  /\ \E i \in StatusAt(buf, "s299") : \A j \in StatusAt(buf, "sBad") : i < j

Ok200 == [code |-> "200", headers |-> <<>>, body |-> <<>>]

\* Mutation: another status.
Malformed502 == SetHeader([Ok200 EXCEPT !.code = "502", !.body = <<"t">>], "Content-Type")

Malformed500 == SetHeader([Ok200 EXCEPT !.code = "500", !.body = <<"t">>], "Content-Type")

\* What the loop makes of the lines of a well-formed output.
FromHeaders(buf) ==
  LET head == SubSeq(buf, 1, Blank(buf))
      all  == Headers(head, ResponseNames)
  IN  [code    |-> IF StatusAt(buf, "s302") = {} THEN "200" ELSE "302",
       headers |-> [n \in {m \in DOMAIN all : m[1] \notin StatusNames} |-> all[n]],
       body    |-> SubSeq(buf, Blank(buf) + 1, Len(buf))]

\* Mutation: a malformed Status leaves the headers that came before it.
GetRespKeepingHeaders(buf) ==
  IF ~ IsCgiOutput(buf) THEN Malformed500
  ELSE IF StatusAt(buf, "sBad") # {}
  THEN [FromHeaders(buf) EXCEPT !.code = "500", !.body = <<"t">>]
  ELSE FromHeaders(buf)

GetRespForCgiBuf(buf) ==
  IF IsCgiOutput(buf) /\ StatusAt(buf, "sBad") = {} THEN FromHeaders(buf) ELSE Malformed500

-----------------------------------------------------------------------------
(***************************************************************************)
(* convertByteBuf, in some order of the headers.  (getHeaders, and with it *)
(* the line end before the body, needs at least one; there always is one.) *)
(***************************************************************************)
GetHeaders(response) ==
  LET names == SetToSeq(DOMAIN response.headers)
  IN  FlattenSeq([i \in 1 .. Len(names) |-> Append(response.headers[names[i]], "nl")])

\* Mutation: no empty line.
ConvertWithoutBlank(response) ==
  <<response.code, "nl">> \o GetHeaders(response) \o response.body

ConvertByteBuf(response) ==
  <<response.code, "nl">> \o GetHeaders(response) \o <<"nl">> \o response.body

=============================================================================
