----------------------------- MODULE HttpContext -----------------------------
(***************************************************************************)
(* The parser of HTTP requests (source/http/http.hpp): a context that is   *)
(* fed from the connection's input buffer and remembers how far the        *)
(* request under way has been received.                                    *)
(*                                                                         *)
(* Input is a sequence of symbols, records told apart by their field sym:  *)
(*   line        the text of a request line the regex accepts,             *)
(*   connection  the text of a Connection header,                          *)
(*   length      the text of a Content-Length header with a number n,      *)
(*   data        anything else: a piece of a body, or of a line that       *)
(*               neither the regex nor the search for ": " accepts,        *)
(*   nl          the end of a line.                                        *)
(* A read may end between any two symbols, so a line can arrive in parts.  *)
(***************************************************************************)
EXTENDS Integers, Sequences

CONSTANT MaxLine  \* MAX_LINE, in symbols; a good line has two

ASSUME LineAssumption == MaxLine \in Nat /\ MaxLine >= 2

NewLine == [sym |-> "nl"]
Data == [sym |-> "data"]
-----------------------------------------------------------------------------
(* Buffer::GetLineAndPop: the first line with its end, empty when there is *)
(* none, and what is left behind it.                                       *)
LineEnds(buf) == {i \in DOMAIN buf : buf[i].sym = "nl"}

LineLength(buf) ==
  IF LineEnds(buf) = {} THEN 0
  ELSE CHOOSE i \in LineEnds(buf) : \A j \in LineEnds(buf) : i <= j

Line(buf) == SubSeq(buf, 1, LineLength(buf))
Behind(buf) == SubSeq(buf, LineLength(buf) + 1, Len(buf))
-----------------------------------------------------------------------------
NoLength == -1  \* there is no Content-Length header

(* HttpRequest and its ReSet.  The id stands for the query parameters and  *)
(* all else that a handler may read; a body is the number of its symbols.  *)
NoRequest == [method |-> "", path |-> "", id |-> 0,
              connection |-> "", length |-> NoLength, body |-> 0]

(* HttpContext's constructor and ReSet. *)
Fresh == [resp |-> 200, recv |-> "line", request |-> NoRequest]

Failed(context, statu) == [context EXCEPT !.recv = "error", !.resp = statu]

ContentLength(request) ==
  IF request.length = NoLength THEN 0 ELSE request.length

Close(request) == request.connection # "keep-alive"

(* The regex of ParseHttpLine, and what it extracts. *)
ParseHttpLine(context, line) ==
  IF Len(line) = 2 /\ line[1].sym = "line"
  THEN [context EXCEPT !.recv = "head", !.request.method = line[1].method,
                       !.request.path = line[1].path,
                       !.request.id = line[1].id]
  ELSE Failed(context, 400)

(* SetHeader inserts: a header keeps the first value it is given. *)
SetHeader(request, head) ==
  CASE head.sym = "connection" /\ request.connection = "" ->
         [request EXCEPT !.connection = head.value]
    [] head.sym = "length" /\ request.length = NoLength ->
         [request EXCEPT !.length = head.n]
    [] OTHER -> request

ParseHttpHead(context, line) ==
  IF Len(line) = 2 /\ line[1].sym \in {"connection", "length"}
  THEN [context EXCEPT !.request = SetHeader(@, line[1])]
  ELSE Failed(context, 400)
-----------------------------------------------------------------------------
(* The limit is put on the line, or on what there is of one. *)
TooLong(buf) ==
  IF Line(buf) = <<>> THEN Len(buf) > MaxLine ELSE LineLength(buf) > MaxLine

(* The context after one call of RecvHttpLine in state "line".  The caller *)
(* replaces the buffer by Behind(buf).                                     *)
RecvHttpLine(context, buf) ==
  CASE TooLong(buf) -> Failed(context, 414)
    [] ~TooLong(buf) /\ Line(buf) = <<>> -> context
    [] OTHER -> ParseHttpLine(context, Line(buf))

(* One turn of the loop in RecvHttpHead; an empty line ends the head. *)
RecvHttpHead(context, buf) ==
  CASE TooLong(buf) -> Failed(context, 414)
    [] ~TooLong(buf) /\ Line(buf) = <<>> -> context
    [] Line(buf) = <<NewLine>> -> [context EXCEPT !.recv = "body"]
    [] OTHER -> ParseHttpHead(context, Line(buf))

(* Bug: all that is in the buffer is taken for the body. *)
BodyTakenAll(context, buf) == Len(buf)

(* How much of the body RecvHttpBody takes from the buffer, and the        *)
(* context then.                                                           *)
BodyTaken(context, buf) ==
  LET missing == ContentLength(context.request) - context.request.body
  IN  IF Len(buf) >= missing THEN missing ELSE Len(buf)

RecvHttpBody(context, buf) ==
  LET body == context.request.body + BodyTaken(context, buf)
  IN  [context EXCEPT
         !.request.body = body,
         !.recv = IF body = ContentLength(context.request)
                  THEN "over" ELSE "body"]
=============================================================================
