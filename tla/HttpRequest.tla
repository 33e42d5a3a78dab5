---------------------------- MODULE HttpRequest ----------------------------
(***************************************************************************)
(* HttpRequest (src/HttpRequest.cpp): the parser of a raw request, and the *)
(* accessors of the parts of its URI, with those that nothing calls.       *)
(*                                                                         *)
(* A URI is a sequence of characters.  Of a raw message only what the      *)
(* regular expressions tell apart is kept; it is a sequence of             *)
(*   "m"           the method's word at the beginning of the request line  *)
(*   "line"        the rest of that line: its URI and version              *)
(*   "h1", "h2"    "Name: value", for two names                            *)
(*   "t"           a word                                                  *)
(*   "$", "tab"    a word with a dollar sign; a tab                        *)
(*   "nul"         zeros of a buffer that nothing was read to              *)
(*   "nl"          CR LF                                                   *)
(* Words with nothing between them are one word.                           *)
(***************************************************************************)
EXTENDS Naturals, Sequences, SequencesExt

-----------------------------------------------------------------------------
(***************************************************************************)
(* Lines, for both kinds of messages.                                      *)
(***************************************************************************)

\* The places of the line ends, and (LineAt) the line that ends at one of them.
LineEnds(s) == {i \in 1 .. Len(s) : s[i] = "nl"}

LineAt(s, end) == SubSeq(s, Max({0} \cup {i \in LineEnds(s) : i < end}) + 1, end - 1)

\* The expressions for a header find its name up to the first colon.
FirstHeader(line, Names) == SelectInSeq(line, LAMBDA token : token \in Names)
IsHeader(line, Names)    == FirstHeader(line, Names) > 0
Name(line, Names)        == SubSeq(line, 1, FirstHeader(line, Names))

\* The header lines that end in s; of several with one name the last.
Headers(s, Names) ==
  LET ends == {i \in LineEnds(s) : IsHeader(LineAt(s, i), Names)}
      with(n) == {i \in ends : Name(LineAt(s, i), Names) = n}
  IN  [n \in {Name(LineAt(s, i), Names) : i \in ends} |-> LineAt(s, Max(with(n)))]

-----------------------------------------------------------------------------
(***************************************************************************)
(* getRequestForRawBuf.  The method may be any word.  After the request    *)
(* line its expression has three parts: any text without tabs, line ends   *)
(* included and as long as it can be; a line end; any text without "$".    *)
(***************************************************************************)
StartLine == <<"m", "line", "nl">>

\* The place of a character or a token; 0 is npos.
Find(s, c) == SelectInSeq(s, LAMBDA x : x = c)

HasStartLine(buf) ==
  LET i == Find(buf, "line") IN
    /\ i > 1
    /\ \A j \in 1 .. i - 1 : buf[j] \in {"m", "t", "$", "nul"}
    /\ i < Len(buf)
    /\ buf[i + 1] = "nl"

Rest(buf) == SubSeq(buf, Find(buf, "line") + 2, Len(buf))

\* Mutation: the body may be any text.
SplitsAnyBody(rest) == {i \in LineEnds(rest) : ~ Contains(SubSeq(rest, 1, i - 1), "tab")}

Splits(rest) ==
  {i \in LineEnds(rest) : /\ ~ Contains(SubSeq(rest, 1, i - 1), "tab")
                          /\ ~ Contains(SubSeq(rest, i + 1, Len(rest)), "$")}

\* Otherwise invalid_argument is thrown.
IsRequest(buf) == HasStartLine(buf) /\ Splits(Rest(buf)) # {}

\* Mutation: the line end before the body counts as the last header's.
GetRequestForRawBufLine(buf) ==
  LET rest == Rest(buf)
      i == Max(Splits(rest))
  IN  [headers |-> Headers(SubSeq(rest, 1, i - 2), {"h1", "h2"}),
       body    |-> SubSeq(rest, i + 1, Len(rest))]

GetRequestForRawBuf(buf) ==
  LET rest == Rest(buf)
      i == Max(Splits(rest))
  IN  [headers |-> Headers(SubSeq(rest, 1, i - 1), {"h1", "h2"}),
       body    |-> SubSeq(rest, i + 1, Len(rest))]

-----------------------------------------------------------------------------
(***************************************************************************)
(* The parts of the URI.                                                   *)
(***************************************************************************)
RFind(s, c) == SelectLastInSeq(s, LAMBDA x : x = c)

\* substr(0, pos), the whole string for npos, and substr(pos + 1), "" for it.
Before(s, pos) == IF pos = 0 THEN s ELSE SubSeq(s, 1, pos - 1)
After(s, pos)  == IF pos = 0 THEN <<>> ELSE SubSeq(s, pos + 1, Len(s))

GetPath(uri) == Before(uri, Find(uri, "?"))

\* Only GET has parameters.
GetParam(method, uri) == IF method = "GET" THEN After(uri, RFind(uri, "?")) ELSE <<>>

\* Mutation: the extension is looked for in the whole URI.
GetExtOfUri(uri) == After(uri, RFind(uri, "."))

GetExt(uri) == LET path == GetPath(uri) IN After(path, RFind(path, "."))

SetPath(uri, path) ==
  LET pos == Find(uri, "?") IN IF pos = 0 THEN path ELSE path \o SubSeq(uri, pos, Len(uri))

\* The last dot of the path may be one of a directory's name.
SetExt(uri, ext) ==
  LET path == GetPath(uri) IN SetPath(uri, Before(path, RFind(path, ".")) \o <<".">> \o ext)

SetParam(method, uri, param) ==
  IF method = "GET" THEN Before(uri, RFind(uri, "?")) \o <<"?">> \o param ELSE uri

=============================================================================
