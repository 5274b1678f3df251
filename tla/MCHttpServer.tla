---------------------------- MODULE MCHttpServer ----------------------------
(***************************************************************************)
(* HttpServer for TLC: streams of up to three texts, of the kinds the      *)
(* parser and onDealRequest tell apart, and two files to ask for.  One     *)
(* request has a body of two lines, and two kinds of text may go on in it: *)
(* a whole request, and one that leaves off in its headers.                *)
(***************************************************************************)
EXTENDS HttpServer

MCFiles ==
  Path("/index", ".html") :> "welcome" @@ Path("/style", ".css") :> "colours"

Line3(method, p, query, version) == <<method, Target(p, query), version>>
Kind(line, connection, form, body) ==
  [line |-> line, connection |-> connection, form |-> form, body |-> body,
   inBody |-> FALSE]
InBody(line, body) ==
  [line |-> line, connection |-> "close", form |-> <<>>, body |-> body,
   inBody |-> TRUE]

\* "a b" with the value "1&=", and an empty value for "+".
MCForm == <<<<<<97, 32, 98>>, <<49, 38, 61>>>>, <<<<43>>, <<>>>>>>

MCKinds ==
  {Kind(Line3("GET", Path("/index", ""), "", "HTTP/1.1"), "", <<>>, <<>>),
   Kind(Line3("GET", Path("/style", ".css"), "?v=1", "HTTP/1.0"), "Keep-Alive",
        <<>>, <<>>),
   Kind(Line3("POST", Path("/", ""), "", "HTTP/1.1"), "", MCForm, <<"body">>),
   Kind(Line3("POST", Path("/none", ""), "", "HTTP/1.0"), "", <<>>,
        <<"body", "crlf", "body">>),
   Kind(Line3("POST", Path("/", ""), "", "HTTP/1.1"), "", <<>>, <<"body", "crlf">>),
   Kind(Line3("HEAD", Path("/", ""), "", "HTTP/1.1"), "close", <<>>, <<>>),
   Kind(<<"GET", Target(Path("/", ""), "")>>, "", <<>>, <<>>),
   InBody(Line3("GET", Path("/index", ""), "", "HTTP/1.1"), <<"crlf", "crlf">>),
   InBody(Line3("POST", Path("/", ""), "", "HTTP/1.1"),
          <<"crlf", "Content-Type", "crlf", "Connection">>)}

\* parseRequest understands every form of up to two short pairs: postDataOf
\* undoes the encoding.
Chars == {65, Space, Amp, Equals, Plus, Percent, 200}
Texts == {<<>>} \cup {<<c>> : c \in Chars} \cup {<<Percent, c>> : c \in {50, Amp}}
ASSUME FormsAreUnderstood ==
  \A k1, k2, v1, v2 \in Texts :
    \A form \in {<<<<k1, v1>>>>, <<<<k1, v1>>, <<k2, v2>>>>} :
      postDataOf(EncodedForm(form)) = Meaning(form)
=============================================================================
