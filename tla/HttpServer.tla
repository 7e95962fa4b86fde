----------------------------- MODULE HttpServer ------------------------------
(***************************************************************************)
(* An HttpServer's side of one connection (source/http/http.hpp on top of  *)
(* source/server.hpp).  The peer sends a script of requests, possibly all  *)
(* at once; the loop thread reads what has arrived in pieces of any size   *)
(* and calls OnMessage, which parses and answers until the buffer holds no *)
(* complete request.                                                       *)
(*                                                                         *)
(* To close, OnMessage calls Shutdown, which runs ShutdownInLoop in place, *)
(* which calls OnMessage again if there is input left: frames is the stack *)
(* of these calls.  Nothing else of the connection runs before it is       *)
(* empty.                                                                  *)
(*                                                                         *)
(* The server's constructor enables inactivity release.  Of the wheel only *)
(* the connection's own countdown is kept, as TimerService has it.         *)
(***************************************************************************)
EXTENDS HttpContext, SequencesExt

CONSTANTS
  Scripts,   \* the sequences of requests a peer may send
  Files,     \* the paths with a file under _basedir
  Handlers,  \* the four route tables: sequences of handlers, each with the
             \* paths its regex matches and what it makes of a new response
  Timeout    \* the seconds without an event until a connection is inactive

ASSUME TimeoutAssumption == Timeout \in Nat \ {0}

VARIABLES
  script,     \* the peer's requests
  delivered,  \* how many symbols of them the server has read
  eof,        \* the peer has closed its side, and the server has read that
  buffer,     \* _in_buffer
  context,    \* the connection's HttpContext
  frames,     \* the calls under way on the loop thread
  statu,      \* _statu; "DISCONNECTED" also stands for a Release queued
  unsent,     \* how many replies are, in whole or in part, in _out_buffer
  writing,    \* the channel monitors write events
  left,       \* ticks to go on its timer; 0: it has queued its Release
  replies     \* history: the replies written

vars == <<script, delivered, eof, buffer, context, frames, statu, unsent,
          writing, left, replies>>

(* What a line of a request is made of, and a request.  The parser's model *)
(* tells a Connection header from none by its value, which is not empty.   *)
Text ==
  [sym : {"line"}, method : {"GET", "HEAD", "POST", "PUT", "DELETE"},
   path : STRING, id : Nat]
    \cup [sym : {"connection"}, value : STRING \ {""}]
    \cup [sym : {"length"}, n : Nat] \cup {Data}

Symbol == Text \cup {NewLine}
Message == [lines : Seq(Seq(Text)), body : Seq(Symbol)]

(* A request on the wire: its lines, an empty line, its body. *)
Wire(request) ==
  FlattenSeq([i \in DOMAIN request.lines |-> Append(request.lines[i], NewLine)])
    \o <<NewLine>> \o request.body

Input == FlattenSeq([i \in DOMAIN script |-> Wire(script[i])])

TypeOK ==
  /\ delivered \in 0 .. Len(Input)
  /\ eof \in BOOLEAN /\ writing \in BOOLEAN
  /\ Len(buffer) <= delivered
  /\ context.recv \in {"error", "line", "head", "body", "over"}
  /\ context.resp \in {200, 400, 414}
  /\ context.request.body \in 0 .. ContentLength(context.request)
  /\ \A i \in DOMAIN frames :
       frames[i] \in {"while", "parse", "respond", "finish"}
  /\ statu \in {"CONNECTED", "DISCONNECTING", "DISCONNECTED"}
  /\ unsent \in 0 .. Len(replies)
  /\ left \in 0 .. Timeout

(* NewConnection enables the release before OnConnected is called: there   *)
(* may have been ticks in between.                                         *)
EnableInactiveRelease == left \in 1 .. Timeout

Init ==
  /\ script \in Scripts
  /\ delivered = 0 /\ eof = FALSE
  /\ buffer = <<>> /\ context = Fresh /\ frames = <<>>
  /\ statu = "CONNECTED" /\ unsent = 0 /\ writing = FALSE
  /\ EnableInactiveRelease
  /\ replies = <<>>
-----------------------------------------------------------------------------
Idle == frames = <<>>
At(place) == ~Idle /\ Last(frames) = place
Goto(place) == Append(Front(frames), place)
Return == Front(frames)

(* After each event's handlers HandleEvent refreshes the timer, if there   *)
(* still is one: no tick comes between them.                               *)
HandleEvent == left' = IF left = 0 THEN 0 ELSE Timeout

(* HandleRead appends what it has read and calls OnMessage. *)
HandleRead ==
  /\ Idle /\ statu # "DISCONNECTED" /\ ~eof
  /\ \E n \in 1 .. Len(Input) - delivered :
       /\ buffer' = buffer \o SubSeq(Input, delivered + 1, delivered + n)
       /\ delivered' = delivered + n
  /\ frames' = <<"while">>
  /\ HandleEvent
  /\ UNCHANGED <<script, eof, context, statu, unsent, writing, replies>>

(* What ShutdownInLoop puts on the stack: the rest of it, and OnMessage.   *)
Shutdown(buf) == IF buf = <<>> THEN <<"finish">> ELSE <<"finish", "while">>

(* The peer has closed its side, perhaps within a request. *)
PeerCloses ==
  /\ Idle /\ statu # "DISCONNECTED" /\ ~eof
  /\ eof' = TRUE
  /\ statu' = "DISCONNECTING"
  /\ frames' = Shutdown(buffer)
  /\ HandleEvent
  /\ UNCHANGED <<script, delivered, buffer, context, unsent, writing, replies>>
-----------------------------------------------------------------------------
(* The condition of OnMessage's loop. *)
While ==
  /\ At("while")
  /\ frames' = IF buffer = <<>> THEN Return ELSE Goto("parse")
  /\ UNCHANGED <<script, delivered, eof, buffer, context, statu, unsent,
                 writing, left, replies>>

(* RecvHttpRequest goes from the line to the head and to the body as long  *)
(* as each is complete.                                                    *)
ReadLine ==
  /\ At("parse") /\ context.recv = "line"
  /\ context' = RecvHttpLine(context, buffer)
  /\ buffer' = Behind(buffer)
  /\ frames' = IF context'.recv = "head" THEN frames ELSE Goto("respond")
  /\ UNCHANGED <<script, delivered, eof, statu, unsent, writing, left, replies>>

ReadHead ==
  /\ At("parse") /\ context.recv = "head"
  /\ context' = RecvHttpHead(context, buffer)
  /\ buffer' = Behind(buffer)
  /\ frames' = IF Line(buffer) = <<>> \/ context'.recv = "error"
               THEN Goto("respond") ELSE frames
  /\ UNCHANGED <<script, delivered, eof, statu, unsent, writing, left, replies>>

ReadBody ==
  /\ At("parse") /\ context.recv = "body"
  /\ context' = RecvHttpBody(context, buffer)
  /\ buffer' = SubSeq(buffer, BodyTaken(context, buffer) + 1, Len(buffer))
  /\ frames' = Goto("respond")
  /\ UNCHANGED <<script, delivered, eof, statu, unsent, writing, left, replies>>
-----------------------------------------------------------------------------
(* A response, as a handler may make it. *)
Response ==
  [statu : Nat, body : STRING, connection : STRING, redirect : BOOLEAN]

(* HttpResponse.  Of the headers only Connection is looked at again; an    *)
(* empty body is "".                                                       *)
HttpResponse(status) ==
  [statu |-> status, body |-> "", connection |-> "", redirect |-> FALSE]

IsFileHandler(request) ==
  request.method \in {"GET", "HEAD"} /\ request.path \in Files

(* ReadFile may fail although IsRegular has just found the file: when it   *)
(* opens it, or when it reads it, the body by then having the file's size. *)
FileHandler(rsp) ==
  {rsp, [rsp EXCEPT !.body = "file"], [rsp EXCEPT !.body = "unread"]}

(* The first handler whose regex matches is the one that is called. *)
Dispatcher(request, handlers, rsp) ==
  LET first == SelectInSeq(handlers, LAMBDA h : request.path \in h.paths)
  IN  IF first = 0 THEN [rsp EXCEPT !.statu = 404] ELSE handlers[first].makes

(* What the response to a request may be. *)
Route(request, rsp) ==
  CASE IsFileHandler(request) -> FileHandler(rsp)
    [] ~IsFileHandler(request) /\ request.method \in {"GET", "HEAD"} ->
         {Dispatcher(request, Handlers["GET"], rsp)}
    [] request.method \in {"POST", "PUT", "DELETE"} ->
         {Dispatcher(request, Handlers[request.method], rsp)}
    [] OTHER -> {[rsp EXCEPT !.statu = 405]}

ErrorHandler(rsp) == [rsp EXCEPT !.body = "error"]

(* The header fields are completed: SetHeader inserts, so that a handler's *)
(* own Connection header stays.  Only what has a body gets a length.       *)
Complete(request, rsp) ==
  [statu |-> rsp.statu, id |-> request.id, body |-> rsp.body,
   connection |-> IF rsp.connection # "" THEN rsp.connection
                  ELSE IF Close(request) THEN "close" ELSE "keep-alive",
   length |-> rsp.body # "", location |-> rsp.redirect]

(* WriteReponse: SendInLoop buffers the reply and monitors write events. *)
WriteReponse(reply) ==
  /\ replies' = Append(replies, reply)
  /\ unsent' = unsent + 1
  /\ writing' = TRUE

(* A request that could not be parsed: what is left in the buffer is       *)
(* dropped and the connection shut down.                                   *)
RespondError ==
  /\ At("respond") /\ context.resp >= 400
  /\ WriteReponse(Complete(context.request,
                           ErrorHandler(HttpResponse(context.resp))))
  /\ context' = Fresh
  /\ buffer' = <<>>
  /\ statu' = "DISCONNECTING"
  /\ frames' = Return \o Shutdown(<<>>)
  /\ UNCHANGED <<script, delivered, eof, left>>

(* A request not yet complete: OnMessage returns. *)
RespondLater ==
  /\ At("respond") /\ context.resp < 400 /\ context.recv # "over"
  /\ frames' = Return
  /\ UNCHANGED <<script, delivered, eof, buffer, context, statu, unsent,
                 writing, left, replies>>

(* What the reply to a complete request may be. *)
Replies(request) ==
  {Complete(request, rsp) : rsp \in Route(request, HttpResponse(context.resp))}

(* Bug: the loop is left after one request. *)
RespondOnce ==
  /\ At("respond") /\ context.resp < 400 /\ context.recv = "over"
  /\ \E reply \in Replies(context.request) :
       /\ WriteReponse(reply)
       /\ IF Close(reply)
          THEN statu' = "DISCONNECTING" /\ frames' = Return \o Shutdown(buffer)
          ELSE frames' = Return /\ UNCHANGED statu
  /\ context' = Fresh
  /\ UNCHANGED <<script, delivered, eof, buffer, left>>

(* Bug: the context is not reset. *)
RespondStale ==
  /\ At("respond") /\ context.resp < 400 /\ context.recv = "over"
  /\ \E reply \in Replies(context.request) :
       /\ WriteReponse(reply)
       /\ IF Close(reply)
          THEN /\ statu' = "DISCONNECTING"
               /\ frames' = Goto("while") \o Shutdown(buffer)
          ELSE frames' = Goto("while") /\ UNCHANGED statu
  /\ context' = [context EXCEPT !.recv = "line"]
  /\ UNCHANGED <<script, delivered, eof, buffer, left>>

(* Bug: the request decides, whatever the reply has announced. *)
RespondByRequest ==
  /\ At("respond") /\ context.resp < 400 /\ context.recv = "over"
  /\ \E reply \in Replies(context.request) : WriteReponse(reply)
  /\ context' = Fresh
  /\ IF Close(context.request)
     THEN /\ statu' = "DISCONNECTING"
          /\ frames' = Goto("while") \o Shutdown(buffer)
     ELSE frames' = Goto("while") /\ UNCHANGED statu
  /\ UNCHANGED <<script, delivered, eof, buffer, left>>

(* A complete request: it is answered and the context is reset; if the     *)
(* response says so the connection is shut down, and the loop goes on.     *)
Respond ==
  /\ At("respond") /\ context.resp < 400 /\ context.recv = "over"
  /\ \E reply \in Replies(context.request) :
       /\ WriteReponse(reply)
       /\ IF Close(reply)
          THEN /\ statu' = "DISCONNECTING"
               /\ frames' = Goto("while") \o Shutdown(buffer)
          ELSE frames' = Goto("while") /\ UNCHANGED statu
  /\ context' = Fresh
  /\ UNCHANGED <<script, delivered, eof, buffer, left>>
-----------------------------------------------------------------------------
(* The end of ShutdownInLoop: what is buffered is sent first. *)
FinishShutdown ==
  /\ At("finish")
  /\ frames' = Return
  /\ IF unsent > 0 THEN writing' = TRUE /\ UNCHANGED statu
     ELSE statu' = "DISCONNECTED" /\ UNCHANGED writing
  /\ UNCHANGED <<script, delivered, eof, buffer, context, unsent, left, replies>>

(* Bug: a connection being closed is not released when all is sent. *)
HandleWriteKeep ==
  /\ Idle /\ writing /\ statu # "DISCONNECTED"
  /\ \E rest \in 0 .. unsent - 1 :
       /\ unsent' = rest
       /\ writing' = (rest > 0)
  /\ HandleEvent
  /\ UNCHANGED <<script, delivered, eof, buffer, context, frames, statu,
                 replies>>

(* HandleWrite, when the kernel accepts at least one reply; after the last *)
(* one a connection being closed is released.                              *)
HandleWrite ==
  /\ Idle /\ writing /\ statu # "DISCONNECTED"
  /\ \E rest \in 0 .. unsent - 1 :
       /\ unsent' = rest
       /\ writing' = (rest > 0)
       /\ statu' = IF rest = 0 /\ statu = "DISCONNECTING"
                   THEN "DISCONNECTED" ELSE statu
  /\ HandleEvent
  /\ UNCHANGED <<script, delivered, eof, buffer, context, frames, replies>>

(* A tick of the connection's timer.  The last one queues Release. *)
OnTime ==
  /\ Idle /\ statu # "DISCONNECTED" /\ left > 0
  /\ left' = left - 1
  /\ UNCHANGED <<script, delivered, eof, buffer, context, frames, statu,
                 unsent, writing, replies>>

(* The Release that the timer has queued: replies sent or not.  Handlers   *)
(* of events that the same poll returned may run before it.                *)
ReleaseInLoop ==
  /\ Idle /\ statu # "DISCONNECTED" /\ left = 0
  /\ statu' = "DISCONNECTED"
  /\ UNCHANGED <<script, delivered, eof, buffer, context, frames, unsent,
                 writing, left, replies>>

OnMessage ==
  \/ While \/ ReadLine \/ ReadHead \/ ReadBody
  \/ RespondError \/ RespondLater \/ Respond

Next ==
  \/ HandleRead \/ PeerCloses \/ OnMessage \/ FinishShutdown \/ HandleWrite
  \/ OnTime \/ ReleaseInLoop

Spec == Init /\ [][Next]_vars

(* The loop thread runs, and the kernel goes on taking what is sent.       *)
(* Nothing is assumed of what the peer sends, nor that time passes.        *)
FairSpec ==
  /\ Spec /\ WF_vars(OnMessage) /\ WF_vars(FinishShutdown)
  /\ WF_vars(HandleWrite) /\ WF_vars(ReleaseInLoop)
-----------------------------------------------------------------------------
(* What a request is, read off the request as a whole.  Lines from the     *)
(* first faulty one on are not looked at.                                  *)
Faulty(request) ==
  {i \in DOMAIN request.lines :
     \/ Len(request.lines[i]) # 1
     \/ request.lines[i][1].sym \notin
          IF i = 1 THEN {"line"} ELSE {"connection", "length"}}

Good(request) ==
  {i \in DOMAIN request.lines : \A j \in Faulty(request) : i < j}

(* Where a header gives the length of the body. *)
Lengths(request) ==
  {i \in 2 .. Len(request.lines) : request.lines[i][1].sym = "length"}

(* Where a request ends: an empty line ends the headers, and a request     *)
(* without fault is as long as its first length header says, whatever the  *)
(* others say.  A request with a fault may go on as it likes.              *)
ASSUME ScriptsAssumption ==
  /\ Scripts \subseteq Seq(Message)
  /\ \A s \in Scripts : \A i \in DOMAIN s :
       /\ s[i].lines # <<>>
       /\ \A j \in 2 .. Len(s[i].lines) : s[i].lines[j] # <<>>
       /\ Faulty(s[i]) = {} =>
            /\ Lengths(s[i]) = {} => s[i].body = <<>>
            /\ \A j \in Lengths(s[i]) :
                 \/ s[i].lines[j][1].n = Len(s[i].body)
                 \/ \E k \in Lengths(s[i]) : k < j

(* There is a route table for each method but HEAD, which shares GET's. *)
ASSUME HandlersAssumption ==
  /\ DOMAIN Handlers = {"GET", "POST", "PUT", "DELETE"}
  /\ \A method \in DOMAIN Handlers :
       Handlers[method] \in Seq([paths : SUBSET STRING, makes : Response])

(* The handler of a request: the first of its table to match, if any. *)
Handler(text) ==
  LET table == Handlers[IF text.method = "HEAD" THEN "GET" ELSE text.method]
  IN  {table[i] : i \in {i \in DOMAIN table :
         /\ text.path \in table[i].paths
         /\ \A j \in 1 .. i - 1 : text.path \notin table[j].paths}}

(* What may be made of a request: an error page, a file or what a failed   *)
(* reading leaves of it, what the handler makes, or 404 without a body.    *)
Made(request) ==
  LET lines == request.lines
      first(i) == \A j \in Faulty(request) : i <= j
      oversize == \E i \in Faulty(request) : first(i) /\ Len(lines[i]) >= MaxLine
      text == lines[1][1]
  IN  IF Faulty(request) # {}
      THEN {[HttpResponse(IF oversize THEN 414 ELSE 400) EXCEPT !.body = "error"]}
      ELSE IF text.method \in {"GET", "HEAD"} /\ text.path \in Files
      THEN {HttpResponse(200), [HttpResponse(200) EXCEPT !.body = "file"],
            [HttpResponse(200) EXCEPT !.body = "unread"]}
      ELSE IF Handler(text) = {} THEN {HttpResponse(404)}
      ELSE {h.makes : h \in Handler(text)}

(* The replies that are right for a request.  It is the handler that says  *)
(* whether the connection is kept, if it says anything.                    *)
Answers(request) ==
  LET lines == request.lines
      headers == {i \in Good(request) : lines[i][1].sym = "connection"}
      kept == \E i \in headers : /\ \A j \in headers : i <= j
                                /\ lines[i][1].value = "keep-alive"
      asked == IF kept THEN "keep-alive" ELSE "close"
  IN  {[statu |-> m.statu, body |-> m.body, location |-> m.redirect,
        length |-> m.body # "",
        id |-> IF 1 \in Good(request) THEN lines[1][1].id ELSE 0,
        connection |-> IF m.connection = "" THEN asked ELSE m.connection] :
          m \in Made(request)}

(* The requests up to the first one that is refused; after that one the    *)
(* server may take any piece of the peer's input for a request.            *)
Understood ==
  {i \in DOMAIN script : \A j \in 1 .. i - 1 : Faulty(script[j]) = {}}

(* Each request gets its own reply, in the order of the requests, whatever *)
(* the pieces in which they arrive and however many are read at once: the  *)
(* parser's position, the context's reset and the nested OnMessage of a    *)
(* shut-down connection never mix two requests up, nor answer one twice.   *)
RepliesInOrder ==
  /\ \A i \in DOMAIN replies \cap Understood : replies[i] \in Answers(script[i])
  /\ (\A i \in DOMAIN script : Faulty(script[i]) = {})
       => Len(replies) <= Len(script)

(* When OnMessage has returned, every request that had arrived completely  *)
(* has been answered: none is left in the buffer until more input comes.   *)
NothingLeftUnanswered ==
  Idle => \A i \in Understood :
            Len(FlattenSeq([j \in 1 .. i |-> Wire(script[j])])) <= delivered
              => i \in DOMAIN replies

Final(reply) == Close(reply) \/ reply.statu \in {400, 414}

(* A connection is closed by the server only after the peer has closed it, *)
(* or in answer to a request that is refused, or that asks for the close   *)
(* and whose handler does not decide otherwise, or whose handler decides   *)
(* for the close, or when it has been inactive for the timeout.            *)
KeepAliveStaysOpen ==
  statu # "CONNECTED" =>
    \/ eof \/ left = 0
    \/ \E i \in DOMAIN replies \cap Understood :
         \E answer \in Answers(script[i]) : Final(answer)

(* Once a reply has announced the close, the connection is released, after *)
(* the replies have been sent, unless it becomes inactive over that.       *)
FinalReplyCloses ==
  (\E i \in DOMAIN replies : Final(replies[i]))
    ~> (statu = "DISCONNECTED" /\ (unsent = 0 \/ left = 0))

(* The comment at the end of OnMessage: a short connection is closed       *)
(* directly.  No request is answered after a reply that says close.        *)
NothingAfterClose ==
  \A i \in 1 .. Len(replies) - 1 : ~Close(replies[i])

(* On a connection that is kept the client can tell where a reply ends: it *)
(* has a length.                                                           *)
KeptRepliesHaveLength ==
  \A i \in DOMAIN replies : Final(replies[i]) \/ replies[i].length
=============================================================================
