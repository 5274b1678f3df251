----------------------------- MODULE HttpRequest -----------------------------
(***************************************************************************)
(* What HttpRequest (http/HttpRequest.cc, HttpRequest.h) makes of the text *)
(* it is given: the request line, the path of the file asked for and the   *)
(* body of a form.  The state machine that calls these, parseRequest, is   *)
(* in HttpServer.tla.                                                      *)
(*                                                                         *)
(* A request line is the sequence of the words between its spaces; the     *)
(* second is the target.  A path is split at its last dot.  The body of a  *)
(* form is a sequence of bytes.                                            *)
(***************************************************************************)
EXTENDS Integers, Sequences

\* The paths that stand for a page of that name.
DEFAULT_HTML ==
  {"/index", "/register", "/login", "/welcome/chat", "/video", "/picture",
   "/websocket"}

\* The types of files, by suffix.
SuffixTypes ==
  {<<".html", "text/html">>, <<".xml", "text/xml">>,
   <<".xhtml", "application/xhtml+xml">>, <<".txt", "text/plain">>,
   <<".rtf", "application/rtf">>, <<".pdf", "application/pdf">>,
   <<".word", "application/nsword">>, <<".png", "image/png">>,
   <<".gif", "image/gif">>, <<".jpg", "image/jpeg">>, <<".jpeg", "image/jpeg">>,
   <<".au", "audio/basic">>, <<".mpeg", "video/mpeg">>, <<".mpg", "video/mpeg">>,
   <<".avi", "video/x-msvideo">>, <<".gz", "application/x-gzip">>,
   <<".tar", "application/x-tar">>, <<".css", "text/css ">>,
   <<".js", "text/javascript ">>}

SUFFIX_TYPE ==
  [suffix \in {t[1] : t \in SuffixTypes} |->
     (CHOOSE t \in SuffixTypes : t[1] = suffix)[2]]

Path(stem, suffix) == [stem |-> stem, suffix |-> suffix]
Target(path, query) == [path |-> path, query |-> query]

setMethod(word) ==
  CASE word = "GET" -> "kGet"
    [] word = "POST" -> "kPost"
    [] word = "HEAD" -> "kHead"
    [] word = "PUT" -> "kPut"
    [] word = "DELETE" -> "kDelete"
    [] OTHER -> "kInvalid"

setVersion(word) ==
  CASE word = "HTTP/1.1" -> "kHttp11"
    [] word = "HTTP/1.0" -> "kHttp10"
    [] OTHER -> "kUnknown"

\* Two spaces, a method that is known before the first, and behind the second
\* eight bytes that are a version.
processRequestLine(words) ==
  [ok |-> /\ Len(words) = 3
          /\ setMethod(words[1]) # "kInvalid"
          /\ setVersion(words[3]) # "kUnknown",
   method |-> setMethod(words[1])]

\* path(): a path that DEFAULT_HTML lists gets ".html" behind it.
path(p) ==
  IF p.suffix = "" /\ p.stem \in DEFAULT_HTML THEN Path(p.stem, ".html") ELSE p

\* Mutant: looks at the path as the client wrote it.
getFileType_OfThePath(p) ==
  IF p.suffix \in DOMAIN SUFFIX_TYPE THEN SUFFIX_TYPE[p.suffix] ELSE "text/plain"

\* getFileType(): by the suffix of path().
getFileType(p) ==
  LET suffix == path(p).suffix IN
  IF suffix \in DOMAIN SUFFIX_TYPE THEN SUFFIX_TYPE[suffix] ELSE "text/plain"

------------------------------------------------------------------------------
(* The body of a form, in parseRequest *)

Amp == 38       \* '&'
Equals == 61    \* '='
Plus == 43      \* '+'
Percent == 37   \* '%'
Space == 32

Byte == 0..255
Form == Seq(Seq(Byte) \X Seq(Byte))

\* ConverHex
ConverHex(ch) ==
  IF ch \in 65..70 THEN ch - 65 + 10
  ELSE IF ch \in 97..102 THEN ch - 97 + 10
  ELSE ch - 48

\* static_cast<char>
Char(n) == n % 256

\* postData_[key] = value
Put(data, key, value) ==
  {entry \in data : entry[1] # key} \cup {<<key, value>>}

\* The character that stands at index i, counted from 0, and how many bytes it
\* takes.
CharAt(s, i) ==
  CASE s[i + 1] = Plus -> Space
    [] s[i + 1] = Percent -> Char(ConverHex(s[i + 2]) * 16 + ConverHex(s[i + 3]))
    [] OTHER -> s[i + 1]
BytesAt(s, i) == IF s[i + 1] = Percent THEN 3 ELSE 1

\* Where the loop over the Content-Length bytes begins.  flag says whether a
\* key (1) or a value (-1) is being read.
FormStart == [i |-> 0, flag |-> 1, key |-> <<>>, value |-> <<>>, data |-> {}]

\* One turn of the loop over the bytes of s, which stays where it ends; both
\* separators turn the flag, and the end of the bytes stores what was read.
FormTurn(s, p) ==
  CASE p.i > Len(s) -> p
    [] p.i = Len(s) -> [p EXCEPT !.i = @ + 1, !.data = Put(@, p.key, p.value)]
    [] p.i < Len(s) /\ s[p.i + 1] = Amp ->
         [i |-> p.i + 1, flag |-> -p.flag, key |-> <<>>, value |-> <<>>,
          data |-> Put(p.data, p.key, p.value)]
    [] p.i < Len(s) /\ s[p.i + 1] = Equals ->
         [p EXCEPT !.i = @ + 1, !.flag = -@]
    [] OTHER ->
         [p EXCEPT !.i = @ + BytesAt(s, p.i),
                   !.key = IF p.flag = 1 THEN Append(@, CharAt(s, p.i)) ELSE @,
                   !.value = IF p.flag = -1 THEN Append(@, CharAt(s, p.i)) ELSE @]

\* Every turn takes a byte at least, so Len(s) + 1 of them are enough.
postDataOf(s) ==
  LET after[n \in Nat] == IF n = 0 THEN FormStart ELSE FormTurn(s, after[n - 1])
  IN  after[Len(s) + 1].data
==============================================================================
