------------------------------ MODULE HttpServer ------------------------------
(***************************************************************************)
(* HttpServer::onMessage (http/HttpServer.cc) and the parser it runs       *)
(* (http/HttpRequest.cc) on one connection.  A client sends a few requests *)
(* one after the other, answers or not; TCP hands them to onMessage in     *)
(* pieces cut anywhere.  Each onMessage parses with a fresh HttpRequest    *)
(* what the connection's Buffer holds.                                     *)
(*                                                                         *)
(* The text of a request is a sequence of tokens: its request line, each   *)
(* header, its body, and the CRLFs.  "Content-Type" stands for the two     *)
(* headers of a form, its Content-Length included.  A cut never falls      *)
(* inside a token.  A body may hold CRLFs, text without a colon, lines     *)
(* that look like headers and, as texts of their own, lines that look like *)
(* request lines.                                                          *)
(***************************************************************************)
EXTENDS HttpResponse, FiniteSets, SequencesExt

CONSTANTS
  Kinds,        \* the texts a client may send
  MaxRequests   \* bound on how many it sends

\* A kind names the words of the request line, the value of the Connection
\* header ("" for no such header), the form in the body, <<>> if the body is
\* none, and the tokens of the body.  A kind with inBody is no request: it is
\* a line in the body of one that reads like a request line, and what follows
\* it there.
ASSUME KindsAssumption ==
  /\ MaxRequests \in Nat
  /\ \A k \in Kinds :
       /\ DOMAIN k = {"line", "connection", "form", "body", "inBody"}
       /\ k.connection \in {"", "close", "Keep-Alive"}
       /\ k.form \in Form
       /\ k.body \in Seq({"body", "crlf", "Connection", "Content-Type"})
       /\ k.form # <<>> => k.body = <<"body">>
       /\ k.inBody \in BOOLEAN
       /\ k.inBody => k.form = <<>>

VARIABLES
  stream,   \* history: the texts the client has sent
  wire,     \* the tokens that have not arrived yet
  buf,      \* the input Buffer of the connection
  req,      \* the HttpRequest of this onMessage
  ok,       \* what parseRequest returns
  pc,       \* where onMessage is
  conn,     \* state_ of the TcpConnection
  sent,     \* history: the answers sent, [to, close, bytes], to = 0 for a 400
  dealt,    \* history: the requests given to the user's callback
  whole     \* history: the requests that came in one piece to an empty Buffer

vars == <<stream, wire, buf, req, ok, pc, conn, sent, dealt, whole>>

Fields == {"Connection", "Content-Type"}
Ids == 1..MaxRequests

Token == [what : {"line", "crlf", "body"} \cup Fields, of : Ids]
T(what, i) == [what |-> what, of |-> i]

\* What parseRequest reads as a form from bytes that are none.
Garbage == {<<<<256>>, <<256>>>>}

\* The fields of an HttpRequest the handler looks at.  "of" says whose request
\* line was parsed, 0 before that; a header is known by the request it came
\* with, 0 if headers_ has none.
Request ==
  [state : {"kExpectRequestLine", "kExpectHeaders", "kExpectBody", "kGotAll"},
   of : Ids \cup {0},
   headers : [Fields -> Ids \cup {0}],
   postData : SUBSET (Seq(Nat) \X Seq(Nat))]

\* What can stand in an answer.
Types == {"text/html", "text/plain"} \cup {t[2] : t \in SuffixTypes}
Bodies == {"page", "404"} \cup {Files[f] : f \in DOMAIN Files}
Pieces ==
  [what : {"status", "Connection", "Content-Type", "Content-Length", "", "body"},
   value : {"", "200", "400", "404", "close", "Keep-Alive"} \cup Types \cup Bodies]

TypeOK ==
  /\ stream \in Seq(Kinds)
  /\ wire \in Seq(Token)
  /\ buf \in Seq(Token)
  /\ req \in Request
  /\ ok \in BOOLEAN
  /\ pc \in {"idle", "parse", "finish"}
  /\ conn \in {"kConnected", "kDisconnecting"}
  /\ sent \in Seq([to : Ids \cup {0}, close : BOOLEAN, bytes : Seq(Pieces)])
  /\ dealt \in Seq(Request)
  /\ whole \subseteq Ids

BodyText(k, i) == [j \in 1..Len(k.body) |-> T(k.body[j], i)]

\* What text i looks like on the wire, when it is of kind k.
Text(k, i) ==
  IF k.inBody THEN <<T("line", i)>> \o BodyText(k, i)
  ELSE <<T("line", i), T("crlf", i)>>
       \o (IF k.connection # "" THEN <<T("Connection", i), T("crlf", i)>> ELSE <<>>)
       \o (IF k.form # <<>> THEN <<T("Content-Type", i), T("crlf", i)>> ELSE <<>>)
       \o <<T("crlf", i)>>
       \o BodyText(k, i)

\* HttpRequest::HttpRequest
NewRequest ==
  [state |-> "kExpectRequestLine", of |-> 0,
   headers |-> [f \in Fields |-> 0], postData |-> {}]

Init ==
  /\ stream = <<>>
  /\ wire = <<>>
  /\ buf = <<>>
  /\ req = NewRequest
  /\ ok = TRUE
  /\ pc = "idle"
  /\ conn = "kConnected"
  /\ sent = <<>>
  /\ dealt = <<>>
  /\ whole = {}

------------------------------------------------------------------------------
(* A message is sent and arrives *)

\* The client sends its next request, or goes on with the body of the last one,
\* which is no form: in those no character of a line stands for itself.
ClientSends(k) ==
  /\ Len(stream) < MaxRequests
  /\ k.inBody => stream # <<>> /\ Last(stream).form = <<>>
  /\ stream' = Append(stream, k)
  /\ wire' = wire \o Text(k, Len(stream) + 1)
  /\ UNCHANGED <<buf, req, ok, pc, conn, sent, dealt, whole>>

\* Mutant: one HttpRequest serves the whole connection, headers_ included.
FreshRequest_KeepsHeaders(r) == [NewRequest EXCEPT !.headers = r.headers]

\* new HttpRequest, whatever the previous onMessage left unfinished.
FreshRequest(r) == NewRequest

\* The requests that lie in piece from its first token on, the first one only:
\* onMessage parses one request.
WholeAtHead(piece) ==
  {i \in 1..Len(stream) : ~stream[i].inBody /\ IsPrefix(Text(stream[i], i), piece)}

\* onMessage: the connection has read another piece into the Buffer.
OnMessage ==
  /\ pc = "idle"
  /\ \E n \in 1..Len(wire) :
       LET piece == SubSeq(wire, 1, n) IN
       /\ buf' = buf \o piece
       /\ wire' = SubSeq(wire, n + 1, Len(wire))
       /\ whole' = IF buf = <<>> /\ conn = "kConnected"
                   THEN whole \cup WholeAtHead(piece) ELSE whole
  /\ req' = FreshRequest(req)
  /\ ok' = TRUE
  /\ pc' = "parse"
  /\ UNCHANGED <<stream, conn, sent, dealt>>

------------------------------------------------------------------------------
(* parseRequest: one step for each turn of its loop *)

\* findCRLF, 0 when there is none.
findCRLF == SelectInSeq(buf, LAMBDA t : t.what = "crlf")
HasLine == findCRLF # 0
Line == SubSeq(buf, 1, findCRLF - 1)

\* retrieveUntil(crlf + 2).  With no CRLF the pointer is null, the length
\* wraps and retrieve() empties the Buffer.
AfterCRLF == IF HasLine THEN SubSeq(buf, findCRLF + 1, Len(buf)) ELSE <<>>

Parsing(state) == pc = "parse" /\ req.state = state

\* Every state but kExpectBody stops when no whole line has arrived.
NoLineYet ==
  /\ pc = "parse"
  /\ req.state # "kExpectBody"
  /\ ~HasLine
  /\ pc' = "finish"
  /\ UNCHANGED <<stream, wire, buf, req, ok, conn, sent, dealt, whole>>

\* Nothing else that may stand there begins with a method: what a body has of
\* the kind is a request line to the parser.
IsRequestLine(line) ==
  /\ Len(line) = 1
  /\ line[1].what = "line"
  /\ processRequestLine(stream[line[1].of].line).ok

GoodRequestLine ==
  /\ Parsing("kExpectRequestLine")
  /\ HasLine
  /\ IsRequestLine(Line)
  /\ req' = [req EXCEPT !.state = "kExpectHeaders", !.of = Line[1].of]
  /\ buf' = AfterCRLF
  /\ UNCHANGED <<stream, wire, ok, pc, conn, sent, dealt, whole>>

\* The line stays in the Buffer.
BadRequestLine ==
  /\ Parsing("kExpectRequestLine")
  /\ HasLine
  /\ ~IsRequestLine(Line)
  /\ ok' = FALSE
  /\ pc' = "finish"
  /\ UNCHANGED <<stream, wire, buf, req, conn, sent, dealt, whole>>

\* A line with a colon.
IsHeader(line) == \E j \in 1..Len(line) : line[j].what \in Fields

\* addHeader, in place of an older header of the name.  What stands before a
\* header on its line makes its name another one, what stands behind it its
\* value one that nobody looks for.
addHeader(headers, line) ==
  IF Head(line).what \in Fields
  THEN [headers EXCEPT ![Head(line).what] = IF Len(line) = 1 THEN Head(line).of ELSE 0]
  ELSE headers

\* Mutant: the header just parsed is not retrieved.
AfterHeader_Kept == buf

\* buf->retrieveUntil(crlf + 2) after addHeader.
AfterHeader == AfterCRLF

Header ==
  /\ Parsing("kExpectHeaders")
  /\ HasLine
  /\ IsHeader(Line)
  /\ req' = [req EXCEPT !.headers = addHeader(@, Line)]
  /\ buf' = AfterHeader
  /\ UNCHANGED <<stream, wire, ok, pc, conn, sent, dealt, whole>>

Method == processRequestLine(stream[req.of].line).method

\* Mutant: a POST is taken for complete at the end of its headers.
StateAfterHeaders_NoBody(m) ==
  IF m \in {"kGet", "kPost"} THEN "kGotAll" ELSE "kExpectHeaders"

\* The state the empty line leads to: only GET and POST are supported.
StateAfterHeaders(m) ==
  CASE m = "kGet" -> "kGotAll"
    [] m = "kPost" -> "kExpectBody"
    [] OTHER -> "kExpectHeaders"

\* A line without a colon ends the headers.
EndOfHeaders ==
  /\ Parsing("kExpectHeaders")
  /\ HasLine
  /\ ~IsHeader(Line)
  /\ req' = [req EXCEPT !.state = StateAfterHeaders(Method)]
  /\ buf' = AfterCRLF
  /\ pc' = IF req'.state = "kGotAll" THEN "finish" ELSE "parse"
  /\ UNCHANGED <<stream, wire, ok, conn, sent, dealt, whole>>

\* The client's side of a form: letters and digits as they are, a blank as
\* '+', everything else as '%' and two digits.
HexDigit(n) == IF n < 10 THEN 48 + n ELSE 55 + n
Encoded(b) ==
  IF b \in (48..57) \cup (65..90) \cup (97..122) THEN <<b>>
  ELSE IF b = Space THEN <<Plus>>
  ELSE <<Percent, HexDigit(b \div 16), HexDigit(b % 16)>>
EncodedText(s) == FlattenSeq([i \in 1..Len(s) |-> Encoded(s[i])])
EncodedForm(form) ==
  FlattenSeq([i \in 1..Len(form) |->
    (IF i = 1 THEN <<>> ELSE <<Amp>>)
    \o EncodedText(form[i][1]) \o <<Equals>> \o EncodedText(form[i][2])])

\* What parseRequest reads from the body of a request of each kind.
PostData == [k \in Kinds |-> postDataOf(EncodedForm(k.form))]

\* Content-Length bytes are read from peek() on, arrived or not.
FormAtPeek ==
  IF buf # <<>> /\ Head(buf) = T("body", req.of) /\ stream[req.of].form # <<>>
  THEN PostData[stream[req.of]] ELSE Garbage

IsForm == req.headers["Content-Type"] # 0

\* The body of a form is copied to postData_; any body is dropped with the
\* line it is on.
Body ==
  /\ Parsing("kExpectBody")
  /\ req' = [req EXCEPT !.state = "kGotAll",
                        !.postData = IF IsForm THEN FormAtPeek ELSE @]
  /\ buf' = AfterCRLF
  /\ pc' = "finish"
  /\ UNCHANGED <<stream, wire, ok, conn, sent, dealt, whole>>

------------------------------------------------------------------------------
(* The rest of onMessage, and onDealRequest *)

\* Mutant: TcpConnection::send does not look at state_.
SendIsOpen_Always == TRUE

\* TcpConnection::send drops what is sent once shutdown() has been called.
SendIsOpen == conn = "kConnected"

SentAfter(answer) == IF SendIsOpen THEN Append(sent, answer) ELSE sent

\* send("HTTP/1.1 400 Bad Request"), shutdown().
FinishBad ==
  /\ pc = "finish"
  /\ ~ok
  /\ sent' = SentAfter([to |-> 0, close |-> TRUE,
                        bytes |-> <<Piece("status", "400"), Piece("", "")>>])
  /\ conn' = "kDisconnecting"
  /\ pc' = "idle"
  /\ UNCHANGED <<stream, wire, buf, req, ok, dealt, whole>>

FinishPartial ==
  /\ pc = "finish"
  /\ ok
  /\ req.state # "kGotAll"
  /\ pc' = "idle"
  /\ UNCHANGED <<stream, wire, buf, req, ok, conn, sent, dealt, whole>>

\* close in onDealRequest: what the Connection header asks for, else what the
\* version implies.
WantsClose(r) ==
  LET asked == IF r.headers["Connection"] = 0 THEN ""
               ELSE stream[r.headers["Connection"]].connection
  IN \/ asked = "close"
     \/ setVersion(stream[r.of].line[3]) = "kHttp10" /\ asked # "Keep-Alive"

\* httpCallback_: the default one or that of the example.
Responses(r) ==
  LET resp == NewResponse(WantsClose(r)) IN
  {defaultHttpCallback(resp)} \cup dealHttpRequest(stream[r.of].line[2].path, resp)

\* onDealRequest: the answer is sent, and the connection shut down if it says
\* so.
FinishDealt ==
  /\ pc = "finish"
  /\ ok
  /\ req.state = "kGotAll"
  /\ dealt' = Append(dealt, req)
  /\ \E resp \in Responses(req) :
       /\ sent' = SentAfter([to |-> req.of, close |-> resp.close, bytes |-> Bytes(resp)])
       /\ conn' = IF resp.close THEN "kDisconnecting" ELSE conn
  /\ pc' = "idle"
  /\ UNCHANGED <<stream, wire, buf, req, ok, whole>>

------------------------------------------------------------------------------
Parse ==
  NoLineYet \/ GoodRequestLine \/ BadRequestLine \/ Header \/ EndOfHeaders \/ Body

Finish == FinishBad \/ FinishPartial \/ FinishDealt

Next == (\E k \in Kinds : ClientSends(k)) \/ OnMessage \/ Parse \/ Finish

Spec == Init /\ [][Next]_vars

\* The loop thread runs a handler to its end.  The client may stop sending.
FairSpec == Spec /\ WF_vars(Parse \/ Finish)

------------------------------------------------------------------------------
(* Properties *)

\* The user's callback sees requests in the order of their lines, each once,
\* and one the client sent with its own headers and no others, although a
\* Buffer may hold parts of several (parseRequest, reset).  What it sees may
\* also be none the client sent: parseRequest drops a body only to its first
\* CRLF, or what of it has arrived, and reads the rest as requests.  Of those
\* only the order is claimed.
DealtAreRequests ==
  /\ \A i, j \in 1..Len(dealt) : i < j => dealt[i].of < dealt[j].of
  /\ \A i \in 1..Len(dealt) :
       LET k == stream[dealt[i].of] IN
       ~k.inBody => dealt[i].headers =
         [f \in Fields |->
            IF \/ f = "Connection" /\ k.connection # ""
               \/ f = "Content-Type" /\ k.form # <<>>
            THEN dealt[i].of ELSE 0]

\* What an answer says in its lines before the first empty one.
Said(bytes, what) ==
  {bytes[i].value :
     i \in {j \in 1..Len(bytes) :
             bytes[j].what = what /\ \A k \in 1..j : bytes[k].what # ""}}

\* A client can tell where each answer ends, although only a body has a
\* length: it begins with a status line, and unless the connection is closed
\* behind it, its length is said.  The type said is that of the file sent, not of the path
\* asked for (appendHeaderToBuffer, appendBodyToBuffer, getFileType).
AnswersAreFramed ==
  \A i \in 1..Len(sent) :
    LET bytes == sent[i].bytes
        body == {bytes[j].value : j \in {k \in 1..Len(bytes) : bytes[k].what = "body"}}
    IN /\ bytes[1].what = "status"
       /\ \E j \in 1..Len(bytes) : bytes[j].what = ""
       /\ sent[i].close \/ (body # {} /\ Said(bytes, "Content-Length") = body)
       /\ \A f \in DOMAIN Files :
            Files[f] \in body /\ f.suffix \in DOMAIN SUFFIX_TYPE =>
              Said(bytes, "Content-Type") = {SUFFIX_TYPE[f.suffix]}

Inv == TypeOK /\ DealtAreRequests /\ AnswersAreFramed

\* Nothing follows a 400 or an answer that closes the connection, however much
\* more the client sends (send after shutdown).
AnswersStopAtClose ==
  \A i \in 1..Len(sent) : sent[i].close => i = Len(sent)

\* What the client means by a form: of the values for one key, the last.
Meaning(form) ==
  {<<form[i][1], form[i][2]>> :
     i \in {j \in 1..Len(form) : \A k \in (j + 1)..Len(form) : form[k][1] # form[j][1]}}

\* A GET or POST that arrives in one piece on an open connection with nothing
\* left over before it is answered by that onMessage, and a form is given to
\* the callback with the keys and values the client meant, whatever characters
\* they contain.
WholeIsAnswered ==
  pc = "idle" =>
    \A i \in whole :
      /\ processRequestLine(stream[i].line).ok
      /\ stream[i].line[1] \in {"GET", "POST"}
      =>
        /\ \E a \in 1..Len(sent) : sent[a].to = i
        /\ \E d \in 1..Len(dealt) :
             /\ dealt[d].of = i
             /\ stream[i].line[1] = "POST" => dealt[d].postData = Meaning(stream[i].form)

\* The loop of parseRequest ends, whatever the Buffer holds: no message can
\* keep the loop thread.
HandlerReturns == (pc # "idle") ~> (pc = "idle")

\* HttpServer.cc answers 400 on an error: a client whose request lines are all
\* good never gets one.
BadRequestIsBad ==
  (\A i \in 1..Len(stream) : processRequestLine(stream[i].line).ok) =>
    \A i \in 1..Len(sent) : sent[i].to # 0
==============================================================================
