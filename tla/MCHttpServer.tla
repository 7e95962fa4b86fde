---------------------------- MODULE MCHttpServer -----------------------------
(* HttpServer on small scripts.  The kinds of request cover both sorts of  *)
(* connection, a repeated header, a body with a line end in it, and each   *)
(* way to be refused.                                                      *)
EXTENDS HttpServer

CONSTANTS
  Kinds,      \* the kinds of request in scripts of one or two
  Pipelined   \* those in scripts of three

MCFiles == {"file"}
(* Handlers that leave the Connection header to WriteReponse, a later one  *)
(* that never gets the requests for "page", and two that set it.           *)
Page == [HttpResponse(200) EXCEPT !.body = "page"]

MCHandlers ==
  [GET    |-> <<>>,
   POST   |-> <<[paths |-> {"page"}, makes |-> Page],
                [paths |-> {"page", "old"},
                 makes |-> [HttpResponse(302) EXCEPT !.redirect = TRUE,
                                                     !.connection = "close"]]>>,
   PUT    |-> <<[paths |-> {"page"},
                 makes |-> [Page EXCEPT !.connection = "keep-alive"]]>>,
   DELETE |-> <<>>]

KeepAlive == <<[sym |-> "connection", value |-> "keep-alive"]>>
CloseIt == <<[sym |-> "connection", value |-> "close"]>>
BodyOf(n) == <<[sym |-> "length", n |-> n]>>
Junk(n) == [i \in 1 .. n |-> Data]

(* The i-th request of a script, if it is of kind k. *)
Request(k, i) ==
  LET text(method, path) ==
        <<[sym |-> "line", method |-> method, path |-> path, id |-> i]>>
  IN  CASE k = "keep" ->
             [lines |-> <<text("GET", "file"), KeepAlive, CloseIt>>,
              body |-> <<>>]
        [] k = "short" ->
             [lines |-> <<text("HEAD", "nowhere")>>, body |-> <<>>]
        [] k = "post" ->
             [lines |-> <<text("POST", "page"), KeepAlive, BodyOf(2), BodyOf(1)>>,
              body |-> <<NewLine, Data>>]
        [] k = "put" ->
             [lines |-> <<text("PUT", "page"), BodyOf(1), CloseIt>>,
              body |-> <<Data>>]
        [] k = "moved" ->
             [lines |-> <<text("POST", "old"), KeepAlive>>, body |-> <<>>]
        [] k = "badline" ->
             [lines |-> <<Junk(1), KeepAlive>>, body |-> <<>>]
        [] k = "badhead" ->
             [lines |-> <<text("GET", "file"), KeepAlive, Junk(1)>>,
              body |-> <<>>]
        [] k = "longline" ->
             [lines |-> <<Junk(MaxLine), KeepAlive>>, body |-> <<>>]
        [] k = "longhead" ->
             [lines |-> <<text("GET", "file"), Junk(MaxLine + 1)>>,
              body |-> <<>>]

ScriptsOf(kinds, n) ==
  {[i \in 1 .. n |-> Request(k[i], i)] : k \in [1 .. n -> kinds]}

MCScripts == ScriptsOf(Kinds, 1) \cup ScriptsOf(Kinds, 2)
               \cup ScriptsOf(Pipelined, 3)
=============================================================================
