----------------------------- MODULE HttpResponse -----------------------------
(***************************************************************************)
(* HttpResponse (http/HttpResponse.cc) and the callbacks that fill one in: *)
(* the default one of HttpServer.cc and dealHttpRequest of the example.    *)
(*                                                                         *)
(* What goes to the client is a sequence of lines and a body: the status   *)
(* line, each header, the empty line.  How long the body is does not       *)
(* matter, only that the length said is that of the body sent.  A status   *)
(* message is left out: those of this repository fit into the line.        *)
(***************************************************************************)
EXTENDS HttpRequest

CONSTANT Files   \* what is in the files below srcDir, by path

\* The contents stand for the file.  An empty file cannot be mapped.
ASSUME FilesAssumption ==
  /\ \A f \in DOMAIN Files : Files[f] \in STRING \ {"", "404", "page"}
  /\ \A f, g \in DOMAIN Files : Files[f] = Files[g] => f = g

Index == Path("/", "")

\* HttpResponse::HttpResponse
NewResponse(close) ==
  [code |-> "0", close |-> close, type |-> "", body |-> ""]

\* defaultHttpCallback
defaultHttpCallback(resp) ==
  [resp EXCEPT !.code = "404", !.close = TRUE]

Ok(resp, type, body) ==
  [resp EXCEPT !.code = "200", !.type = type, !.body = body]

\* addResponseBody: the contents of the file, or "404" if it is not there or
\* cannot be opened or mapped.
addResponseBody(p) == {"404"} \cup {Files[f] : f \in DOMAIN Files \cap {p}}

\* What dealHttpRequest may make of a request for p.
dealHttpRequest(p, resp) ==
  IF path(p) = Index
  THEN {Ok(resp, "text/html", "page")}
  ELSE {IF body = "404"
        THEN [resp EXCEPT !.code = "404", !.close = TRUE, !.body = body]
        ELSE Ok(resp, getFileType(p), body)
        : body \in addResponseBody(path(p))}

------------------------------------------------------------------------------
(* appendHeaderToBuffer and appendBodyToBuffer *)

Piece(what, value) == [what |-> what, value |-> value]

appendHeaderToBuffer(resp) ==
  <<Piece("status", resp.code),
    Piece("Connection", IF resp.close THEN "close" ELSE "Keep-Alive")>>
  \o (IF resp.type = "" THEN <<>> ELSE <<Piece("Content-Type", resp.type)>>)

\* Mutant: the length of the body is not sent.
LengthOf_NotSaid(body) == <<>>

\* "Content-Length: " + std::to_string(bodyLen_)
LengthOf(body) == <<Piece("Content-Length", body)>>

appendBodyToBuffer(resp) ==
  IF resp.body # ""
  THEN LengthOf(resp.body) \o <<Piece("", ""), Piece("body", resp.body)>>
  ELSE <<Piece("", "")>>

Bytes(resp) == appendHeaderToBuffer(resp) \o appendBodyToBuffer(resp)
==============================================================================
