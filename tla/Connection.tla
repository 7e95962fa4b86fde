----------------------------- MODULE Connection -----------------------------
(***************************************************************************)
(* The handlers of one Connection and its Channel (source/server.hpp), as  *)
(* operators.  They run on the loop's thread from beginning to end, so     *)
(* each maps what a handler finds to what it may leave behind; where the   *)
(* application's message callback is called the result is a set, with one  *)
(* element for each thing the applications of the repository do there.     *)
(*                                                                         *)
(* A handler reaches outside its connection in two ways only: it queues    *)
(* Release on its loop, and it updates its channel in the poller.  It is   *)
(* given a work record                                                     *)
(*     [conn |-> the connection, releases |-> 0, updated |-> FALSE]        *)
(* and counts the first and notes the second there.  TcpServer applies     *)
(* them.  Buffers are abstracted to the number of messages in them.        *)
(***************************************************************************)
EXTENDS Integers

CONSTANT
  App  \* what a message callback may do: a subset of {"wait", "keep", "close"}

ASSUME AppAssumption == App # {} /\ App \subseteq {"wait", "keep", "close"}

NewConn(fd, loop) ==
  [state |-> "CONNECTING", fd |-> fd, loop |-> loop, open |-> TRUE,
   events |-> {}, in |-> 0, out |-> 0, enabled |-> FALSE]

Work(conn) == [conn |-> conn, releases |-> 0, updated |-> FALSE]
-----------------------------------------------------------------------------
(* Channel: the interest in reading and writing. *)
EnableRead(w) ==
  [w EXCEPT !.conn.events = @ \cup {"IN"}, !.updated = TRUE]

EnableWrite(w) ==
  IF "OUT" \in w.conn.events
  THEN w
  ELSE [w EXCEPT !.conn.events = @ \cup {"OUT"}, !.updated = TRUE]

DisableWrite(w) ==
  [w EXCEPT !.conn.events = @ \ {"OUT"}, !.updated = TRUE]

(* Release: always queued, never run inside the handler that asks for it. *)
Release(w) == [w EXCEPT !.releases = @ + 1]

(* Bug: the write event is not enabled when data is queued. *)
SendInLoopSilent(w) ==
  IF w.conn.state = "DISCONNECTED"
  THEN w
  ELSE [w EXCEPT !.conn.out = @ + 1]

SendInLoop(w) ==
  IF w.conn.state = "DISCONNECTED"
  THEN w
  ELSE EnableWrite([w EXCEPT !.conn.out = @ + 1])

(* Bug: a connection is released with replies still in its output buffer. *)
FinishShutdownNow(w) == Release(w)

(* The second half of ShutdownInLoop: flush first, release when empty. *)
FinishShutdown(w) ==
  IF w.conn.out > 0 THEN EnableWrite(w) ELSE Release(w)

HalfClose(w) == [w EXCEPT !.conn.state = "DISCONNECTING"]

(* What OnMessage does.  "wait": the request is incomplete; its parts are  *)
(* in the buffer or already in OnMessage's own context (HttpServer).       *)
(* "keep": at least one message is consumed, and answered; the connection  *)
(* is kept (HttpServer).  "close": answered, and the connection shut down  *)
(* (EchoServer; HttpServer on errors and short connections): Shutdown runs *)
(* in place, and if it calls OnMessage again for what is left, that does   *)
(* no more than OnMessage itself would on returning from it.               *)
Leaving(w, counts) == {[w EXCEPT !.conn.in = left] : left \in counts}

MessageCallback(w) ==
  LET all      == Leaving(w, 0 .. w.conn.in)
      answered == {SendInLoop(v) : v \in Leaving(w, 0 .. w.conn.in - 1)}
  IN   (IF "wait"  \in App THEN all ELSE {})
  \cup (IF "keep"  \in App THEN answered ELSE {})
  \cup (IF "close" \in App
        THEN {FinishShutdown(HalfClose(v)) : v \in answered}
        ELSE {})

(* The message callback is called only when there is something to read. *)
OnInput(w) == IF w.conn.in > 0 THEN MessageCallback(w) ELSE {w}

ShutdownInLoop(w) == {FinishShutdown(v) : v \in OnInput(HalfClose(w))}
-----------------------------------------------------------------------------
(* The channel's callbacks.  received and sent are the results of the      *)
(* socket's calls, -1 on failure.                                      *)
HandleRead(w, received) ==
  IF received = -1
  THEN ShutdownInLoop(w)
  ELSE OnInput([w EXCEPT !.conn.in = @ + received])

HandleClose(w) == {Release(v) : v \in OnInput(w)}

(* Bug: what was sent is consumed twice. *)
HandleWriteTwice(w, sent) ==
  IF sent = -1
  THEN HandleClose(w)
  ELSE LET v == [w EXCEPT !.conn.out = @ - 2 * sent]
       IN  {IF v.conn.out = 0 THEN DisableWrite(v) ELSE v}

(* Bug: a half-closed connection is not released when it is flushed. *)
HandleWriteKeep(w, sent) ==
  IF sent = -1
  THEN HandleClose(w)
  ELSE LET v == [w EXCEPT !.conn.out = @ - sent]
       IN  {IF v.conn.out = 0 THEN DisableWrite(v) ELSE v}

(* A failed write answers what is in the input buffer, then releases: the  *)
(* same two steps as HandleClose.                                          *)
HandleWrite(w, sent) ==
  IF sent = -1
  THEN HandleClose(w)
  ELSE LET v == [w EXCEPT !.conn.out = @ - sent]
       IN  {IF v.conn.out > 0 THEN v
            ELSE IF v.conn.state = "DISCONNECTING"
            THEN Release(DisableWrite(v))
            ELSE DisableWrite(v)}

(* How many messages a write may send: with room in the socket, some of    *)
(* them; on a broken or closed socket none, which only a non-empty write   *)
(* notices.                                                                *)
SendResults(w, broken) ==
  IF w.conn.out = 0 THEN {0}
  ELSE IF broken THEN {-1} ELSE 1 .. w.conn.out

(* Channel::HandleEvent, but for its last callback (the refresh of the     *)
(* inactivity timer): the read part, then one of the three others.         *)
HandleEvent(w, revents, received, broken) ==
  LET afterRead == IF "IN" \in revents THEN HandleRead(w, received) ELSE {w}
      second(v) ==
        IF "OUT" \in revents
        THEN UNION {HandleWrite(v, sent) : sent \in SendResults(v, broken)}
        ELSE IF revents \cap {"ERR", "HUP"} # {}
        THEN HandleClose(v)
        ELSE {v}
  IN  UNION {second(v) : v \in afterRead}
=============================================================================
