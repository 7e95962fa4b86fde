-------------------------- MODULE TcpServerProofs --------------------------
(***************************************************************************)
(* Proofs about TcpServer, for any connections, loops and descriptors:     *)
(* what the handlers of a Connection do to it, and the types; the stages   *)
(* of a connection and its output, whatever the threads of the user call;  *)
(* last the timers and the pollers' tables, as long as they leave some of  *)
(* the calls alone.                                                        *)
(***************************************************************************)
EXTENDS TcpServer, SequenceTheorems, FiniteSetTheorems, TLAPS

WorkType == [conn : Connection, releases : Nat, updated : BOOLEAN]

(* Write interest and output agree. *)
Consistent(w) == w.conn.out > 0 <=> "OUT" \in w.conn.events

(* What every handler, and every part of one, leaves of the work w that it *)
(* is given.                                                               *)
Continues(w, v) ==
  /\ v \in WorkType
  /\ v.conn.fd = w.conn.fd /\ v.conn.loop = w.conn.loop
  /\ v.conn.open = w.conn.open /\ v.conn.enabled = w.conn.enabled
  /\ v.conn.state \in {w.conn.state, "DISCONNECTING"}
  /\ "IN" \in w.conn.events => "IN" \in v.conn.events
  /\ w.updated \/ v.conn.events # w.conn.events => v.updated
  /\ Consistent(w) => Consistent(v)
  /\ w.releases <= v.releases

(* A half-closed connection has something to send, or a release of it has  *)
(* been queued.                                                            *)
Ends(w) == w.conn.state = "DISCONNECTING" => w.conn.out > 0 \/ w.releases > 0

-----------------------------------------------------------------------------
(* What one part leaves and the next one continues is what both do. *)
LEMMA ContinuesTrans ==
  ASSUME NEW w \in WorkType, NEW v, NEW u, Continues(w, v), Continues(v, u)
  PROVE  Continues(w, u)
  BY DEF Continues, Consistent, WorkType, Connection

(* Doing nothing continues the work. *)
LEMMA ContinuesRefl == ASSUME NEW w \in WorkType PROVE Continues(w, w)
  BY DEF Continues, Consistent, WorkType, Connection

(* EnableWrite keeps the output. *)
LEMMA EnableWriteWorks ==
  ASSUME NEW w \in WorkType, w.conn.out > 0
  PROVE  Continues(w, EnableWrite(w)) /\ EnableWrite(w).conn.out = w.conn.out
<1>1. CASE "OUT" \in w.conn.events
  BY <1>1 DEF Continues, Consistent, WorkType, Connection, EnableWrite
<1>2. CASE "OUT" \notin w.conn.events
  <2> DEFINE v == [w EXCEPT !.conn.events = @ \cup {"OUT"}, !.updated = TRUE]
  <2>1. v = EnableWrite(w)
    BY <1>2 DEF EnableWrite
  <2>2. v \in WorkType
    BY DEF WorkType, Connection
  <2>3. /\ v.conn.events = w.conn.events \cup {"OUT"} /\ v.updated
        /\ v.conn.fd = w.conn.fd /\ v.conn.loop = w.conn.loop
        /\ v.conn.open = w.conn.open /\ v.conn.enabled = w.conn.enabled
        /\ v.conn.state = w.conn.state /\ v.conn.out = w.conn.out
        /\ v.releases = w.releases
    BY DEF WorkType, Connection
  <2>4. w.releases <= w.releases
    BY DEF WorkType
  <2> QED
    BY <2>1, <2>2, <2>3, <2>4 DEF Continues, Consistent
<1> QED
  BY <1>1, <1>2

(* Release leaves at least one release. *)
LEMMA ReleaseWorks ==
  ASSUME NEW w \in WorkType
  PROVE  Continues(w, Release(w)) /\ Release(w).releases > 0
  BY DEF Continues, Consistent, WorkType, Connection, Release

(* SendInLoop enables the write event with the first message buffered. *)
LEMMA SendInLoopWorks ==
  ASSUME NEW w \in WorkType
  PROVE  /\ Continues(w, SendInLoop(w))
         /\ Ends(w) => Ends(SendInLoop(w))
         /\ SendInLoop(w).releases = w.releases
<1>1. CASE w.conn.state = "DISCONNECTED"
  BY <1>1, ContinuesRefl DEF SendInLoop
<1>2. CASE w.conn.state # "DISCONNECTED"
  <2> DEFINE x == [w EXCEPT !.conn.out = @ + 1]
  <2>1. x \in WorkType /\ x.conn.out = w.conn.out + 1 /\ x.conn.out > 0
    BY DEF WorkType, Connection
  <2>2. /\ x.conn.events = w.conn.events /\ x.updated = w.updated
        /\ x.conn.fd = w.conn.fd /\ x.conn.loop = w.conn.loop
        /\ x.conn.open = w.conn.open /\ x.conn.enabled = w.conn.enabled
        /\ x.conn.state = w.conn.state /\ x.releases = w.releases
    BY DEF WorkType, Connection
  <2>3. /\ Continues(x, EnableWrite(x)) /\ SendInLoop(w) = EnableWrite(x)
        /\ EnableWrite(x).conn.out > 0
    BY <1>2, <2>1, EnableWriteWorks DEF SendInLoop
  <2>4. /\ Consistent(EnableWrite(x))
        /\ EnableWrite(x).releases = x.releases
    <3>1. CASE "OUT" \in x.conn.events
      BY <2>1, <2>3, <3>1 DEF EnableWrite, Consistent
    <3>2. CASE "OUT" \notin x.conn.events
      BY <2>1, <2>3, <3>2 DEF EnableWrite, Consistent, WorkType, Connection
    <3> QED
      BY <3>1, <3>2
  <2> QED
    BY <2>2, <2>3, <2>4 DEF Continues, Ends
<1> QED
  BY <1>1, <1>2

(* After FinishShutdown the connection will end. *)
LEMMA FinishShutdownWorks ==
  ASSUME NEW w \in WorkType
  PROVE  Continues(w, FinishShutdown(w)) /\ Ends(FinishShutdown(w))
<1>1. CASE w.conn.out > 0
  BY <1>1, EnableWriteWorks DEF FinishShutdown, Ends
<1>2. CASE ~(w.conn.out > 0)
  BY <1>2, ReleaseWorks DEF FinishShutdown, Ends
<1>3. QED
  BY <1>1, <1>2

(* HalfClose changes the state only. *)
LEMMA HalfCloseWorks ==
  ASSUME NEW w \in WorkType
  PROVE  Continues(w, HalfClose(w))
  BY DEF Continues, Consistent, WorkType, Connection, HalfClose

(* OnMessage, whatever the application does there. *)
LEMMA MessageCallbackWorks ==
  ASSUME NEW w \in WorkType, NEW v \in MessageCallback(w)
  PROVE  Continues(w, v) /\ (Ends(w) => Ends(v))
<1> DEFINE all == Leaving(w, 0 .. w.conn.in)
           answered == {SendInLoop(x) : x \in Leaving(w, 0 .. w.conn.in - 1)}
<1>1. ASSUME NEW x \in all \cup Leaving(w, 0 .. w.conn.in - 1)
      PROVE  Continues(w, x) /\ x \in WorkType /\ (Ends(w) => Ends(x))
  BY DEF Continues, Consistent, WorkType, Connection, Leaving, Ends
<1>2. ASSUME NEW x \in answered
      PROVE  Continues(w, x) /\ x \in WorkType /\ (Ends(w) => Ends(x))
  BY <1>1, SendInLoopWorks, ContinuesTrans DEF Continues
<1>3. ASSUME NEW x \in answered
      PROVE  /\ Continues(w, FinishShutdown(HalfClose(x)))
             /\ Ends(FinishShutdown(HalfClose(x)))
  BY <1>2, HalfCloseWorks, FinishShutdownWorks, ContinuesTrans DEF Continues
<1>4. v \in all \cup answered \cup {FinishShutdown(HalfClose(x)) : x \in answered}
  BY DEF MessageCallback
<1> QED
  BY <1>1, <1>2, <1>3, <1>4

(* The message callback gives up no end that was in sight. *)
LEMMA OnInputWorks ==
  ASSUME NEW w \in WorkType, NEW v \in OnInput(w)
  PROVE  Continues(w, v) /\ (Ends(w) => Ends(v))
  BY MessageCallbackWorks, ContinuesRefl DEF OnInput

(* ShutdownInLoop flushes or releases, in whatever state it finds things. *)
LEMMA ShutdownInLoopWorks ==
  ASSUME NEW w \in WorkType, NEW v \in ShutdownInLoop(w)
  PROVE  Continues(w, v) /\ Ends(v)
<1>1. PICK x \in OnInput(HalfClose(w)) : v = FinishShutdown(x)
  BY DEF ShutdownInLoop
<1>2. Continues(w, HalfClose(w)) /\ HalfClose(w) \in WorkType
  BY HalfCloseWorks DEF Continues
<1>3. Continues(w, x) /\ x \in WorkType
  BY <1>2, OnInputWorks, ContinuesTrans DEF Continues
<1> QED
  BY <1>1, <1>3, FinishShutdownWorks, ContinuesTrans

(* Nor does HandleRead, whatever it receives. *)
LEMMA HandleReadWorks ==
  ASSUME NEW w \in WorkType, NEW received \in Nat \cup {-1},
         NEW v \in HandleRead(w, received)
  PROVE  Continues(w, v) /\ (Ends(w) => Ends(v))
<1>1. CASE received = -1
  BY <1>1, ShutdownInLoopWorks DEF HandleRead
<1>2. CASE received \in Nat
  <2> DEFINE x == [w EXCEPT !.conn.in = @ + received]
  <2>1. Continues(w, x) /\ x \in WorkType /\ (Ends(w) => Ends(x))
    BY <1>2 DEF Continues, Consistent, WorkType, Connection, Ends
  <2>2. v \in OnInput(x)
    BY <1>2 DEF HandleRead
  <2> QED
    BY <2>1, <2>2, OnInputWorks, ContinuesTrans
<1> QED
  BY <1>1, <1>2

(* After HandleClose the connection will end. *)
LEMMA HandleCloseWorks ==
  ASSUME NEW w \in WorkType, NEW v \in HandleClose(w)
  PROVE  Continues(w, v) /\ Ends(v)
<1>1. PICK x \in OnInput(w) : v = Release(x)
  BY DEF HandleClose
<1>2. Continues(w, x) /\ x \in WorkType
  BY OnInputWorks DEF Continues
<1> QED
  BY <1>1, <1>2, ReleaseWorks, ContinuesTrans DEF Ends

(* HandleWrite disables the write event with the last message sent, and    *)
(* releases a half-closed connection then.                                 *)
LEMMA HandleWriteWorks ==
  ASSUME NEW w \in WorkType, NEW broken,
         NEW n \in SendResults(w, broken), NEW v \in HandleWrite(w, n)
  PROVE  Continues(w, v) /\ (Ends(w) => Ends(v))
<1>1. CASE n = -1
  BY <1>1, HandleCloseWorks DEF HandleWrite
<1>2. CASE n # -1
  <2> DEFINE x == [w EXCEPT !.conn.out = @ - n]
  <2>1. n \in 0 .. w.conn.out /\ (w.conn.out > 0 => n > 0)
    BY <1>2 DEF SendResults, WorkType, Connection
  <2>2. v = IF x.conn.out > 0 THEN x
            ELSE IF x.conn.state = "DISCONNECTING"
            THEN Release(DisableWrite(x)) ELSE DisableWrite(x)
    BY <1>2 DEF HandleWrite
  <2>3. x \in WorkType /\ x.conn.out = w.conn.out - n
    BY <2>1 DEF WorkType, Connection
  <2>4. CASE x.conn.out > 0
    BY <2>1, <2>2, <2>3, <2>4 DEF Continues, Consistent, WorkType, Connection, Ends
  <2>5. CASE ~(x.conn.out > 0)
    <3>1. x.conn.out = 0
      BY <2>3, <2>5 DEF WorkType, Connection
    <3> DEFINE y == DisableWrite(x)
    <3>2. y \in WorkType
      BY <2>3 DEF WorkType, Connection, DisableWrite
    <3>3. /\ y.conn.events = w.conn.events \ {"OUT"} /\ y.updated
          /\ y.conn.fd = w.conn.fd /\ y.conn.loop = w.conn.loop
          /\ y.conn.open = w.conn.open /\ y.conn.enabled = w.conn.enabled
          /\ y.conn.state = w.conn.state /\ y.conn.state = x.conn.state
          /\ y.conn.out = 0 /\ y.releases = w.releases
      BY <2>3, <3>1 DEF WorkType, Connection, DisableWrite
    <3>4. w.releases <= w.releases
      BY DEF WorkType
    <3>5. Continues(w, y)
      BY <3>2, <3>3, <3>4 DEF Continues, Consistent
    <3> QED
      BY <2>2, <2>3, <2>5, <3>2, <3>3, <3>5, ReleaseWorks, ContinuesTrans DEF Ends
  <2> QED
    BY <2>4, <2>5
<1> QED
  BY <1>1, <1>2

(* One HandleEvent: its read part and the one that follows. *)
LEMMA HandleEventWorks ==
  ASSUME NEW w \in WorkType, NEW revents, NEW received \in Nat \cup {-1},
         NEW broken, NEW v \in HandleEvent(w, revents, received, broken)
  PROVE  Continues(w, v) /\ (Ends(w) => Ends(v))
<1> DEFINE afterRead == IF "IN" \in revents THEN HandleRead(w, received) ELSE {w}
<1>1. PICK x \in afterRead :
        \/ \E n \in SendResults(x, broken) : v \in HandleWrite(x, n)
        \/ v \in HandleClose(x)
        \/ v = x
  BY DEF HandleEvent
<1>2. Continues(w, x) /\ x \in WorkType /\ (Ends(w) => Ends(x))
  BY HandleReadWorks, ContinuesRefl DEF Continues
<1> QED
  BY <1>1, <1>2, HandleWriteWorks, HandleCloseWorks, ContinuesTrans
-----------------------------------------------------------------------------
(* A task waits in its connection's loop, a removal in the base loop. *)
Placed(l, t) ==
  Born(t.conn) /\ IF t.op = "remove" THEN l = Base ELSE conn[t.conn].loop = l

(* Whatever refers to a connection refers to one that was constructed, and *)
(* does so on the connection's own loop and under its own descriptor.      *)
ServerRefs ==
  /\ IsFiniteSet({c \in Conn : Born(c)})
  /\ \A c \in conns \cup shared : Born(c)
  /\ \A c \in Conn : HasTimer(c) => Born(c)
  /\ \A l \in Loop : \A t \in Range(tasks[l]) : Placed(l, t)
  /\ \A l \in Loop, f \in Fd : chan[l][f] # None =>
       /\ Born(chan[l][f])
       /\ conn[chan[l][f]].loop = l /\ conn[chan[l][f]].fd = f

LoopRefs ==
  /\ accepting.conn # None => Born(accepting.conn)
  /\ \A l \in Loop : \A t \in Range(batch[l]) : Placed(l, t)
  /\ \A l \in Loop : \A a \in actives[l] \ {Listen, OnTimer} :
       Born(a.chan) /\ conn[a.chan].loop = l

(* A batch is run to its end before the loop polls again, the events of a  *)
(* poll before the tasks; NewConnection is called by an event.             *)
Phases ==
  /\ \A l \in Loop : pc[l] # "tasks" => batch[l] = <<>>
  /\ \A l \in Loop : pc[l] # "events" => actives[l] = {}
  /\ accepting.conn # None => pc[Base] = "events"

TypeInv == TypeOK /\ ServerRefs /\ LoopRefs /\ Phases

(* What a task or a handler of the connection c may change. *)
WorksOn(c) ==
  /\ \E k \in Connection : /\ k.fd = conn[c].fd /\ k.loop = conn[c].loop
                           /\ conn' = [conn EXCEPT ![c] = k]
  /\ conns' \subseteq conns /\ misfiled \subseteq conns'
  /\ shared' \subseteq shared \cup {c}
  /\ timer' \in [Conn -> 0 .. timeout] /\ \A d \in Conn \ {c} : timer'[d] = timer[d]
  /\ cancelled' \subseteq Conn
  /\ \E l \in Loop, s \in Seq(Task) : Push(l, s) /\ \A t \in Range(s) : Placed(l, t)
  /\ chan' \in [Loop -> [Fd -> Conn \cup {None}]]
  /\ \A l \in Loop, f \in Fd :
       \/ chan'[l][f] \in {chan[l][f], None}
       \/ l = conn[c].loop /\ f = conn[c].fd /\ chan'[l][f] = c
  /\ interest' \in [Loop -> [Fd -> (SUBSET {"IN", "OUT"}) \cup {None}]]
  /\ crashed' \in BOOLEAN
-----------------------------------------------------------------------------
(* The elements of a sequence that is appended to, and of its tail. *)
LEMMA RangeConcat ==
  ASSUME NEW S, NEW s \in Seq(S), NEW u \in Seq(S)
  PROVE  s \o u \in Seq(S) /\ Range(s \o u) = Range(s) \cup Range(u)
<1>1. s \o u \in Seq(S)
  OBVIOUS
<1>2. ASSUME NEW i \in DOMAIN (s \o u)
      PROVE  (s \o u)[i] \in Range(s) \cup Range(u)
  <2>1. i \in 1 .. Len(s) + Len(u)
    OBVIOUS
  <2>2. CASE i <= Len(s)
    BY <2>1, <2>2 DEF Range
  <2>3. CASE i > Len(s)
    <3>1. i - Len(s) \in DOMAIN u /\ (s \o u)[i] = u[i - Len(s)]
      BY <2>1, <2>3
    <3> QED
      BY <3>1 DEF Range
  <2> QED
    BY <2>1, <2>2, <2>3
<1>3. ASSUME NEW i \in DOMAIN s
      PROVE  s[i] \in Range(s \o u)
  <2>1. i \in DOMAIN (s \o u) /\ (s \o u)[i] = s[i]
    OBVIOUS
  <2> QED
    BY <2>1 DEF Range
<1>4. ASSUME NEW i \in DOMAIN u
      PROVE  u[i] \in Range(s \o u)
  <2>1. i + Len(s) \in DOMAIN (s \o u) /\ (s \o u)[i + Len(s)] = u[i]
    OBVIOUS
  <2> QED
    BY <2>1 DEF Range
<1> QED
  BY <1>1, <1>2, <1>3, <1>4 DEF Range

(* What is in a sequence is its head or in its tail. *)
LEMMA RangeHeadTail ==
  ASSUME NEW S, NEW s \in Seq(S), s # <<>>
  PROVE  /\ Head(s) \in S /\ Tail(s) \in Seq(S)
         /\ Range(s) = {Head(s)} \cup Range(Tail(s))
<1>1. Head(s) \in S /\ Tail(s) \in Seq(S) /\ Head(s) = s[1] /\ 1 \in DOMAIN s
  OBVIOUS
<1>2. ASSUME NEW i \in DOMAIN s
      PROVE  s[i] = Head(s) \/ s[i] \in Range(Tail(s))
  <2>1. CASE i = 1
    BY <1>1, <2>1
  <2>2. CASE i # 1
    <3>1. i - 1 \in DOMAIN Tail(s) /\ Tail(s)[i - 1] = s[i]
      BY <2>2
    <3> QED
      BY <3>1 DEF Range
  <2> QED
    BY <2>1, <2>2
<1>3. ASSUME NEW i \in DOMAIN Tail(s)
      PROVE  Tail(s)[i] \in Range(s)
  <2>1. i + 1 \in DOMAIN s /\ Tail(s)[i] = s[i + 1]
    OBVIOUS
  <2> QED
    BY <2>1 DEF Range
<1> QED
  BY <1>1, <1>2, <1>3 DEF Range

(* A task repeated is a sequence of this task only. *)
LEMMA TimesSeq ==
  ASSUME NEW S, NEW t \in S, NEW n \in Nat
  PROVE  /\ Times(t, n) \in Seq(S) /\ Range(Times(t, n)) \subseteq {t}
         /\ n > 0 => t \in Range(Times(t, n))
<1>1. Times(t, n) \in Seq(S) /\ \A i \in DOMAIN Times(t, n) : Times(t, n)[i] = t
  BY DEF Times
<1>2. ASSUME n > 0 PROVE 1 \in DOMAIN Times(t, n)
  BY <1>2 DEF Times
<1> QED
  BY <1>1, <1>2 DEF Range

(* Nothing is added by the empty sequence. *)
LEMMA EmptyConcat ==
  ASSUME NEW S, NEW s \in Seq(S)
  PROVE  s \o <<>> = s
  OBVIOUS

(* Nothing is queued. *)
LEMMA PushNothing ==
  ASSUME tasks \in [Loop -> Seq(Task)], UNCHANGED tasks, NEW l \in Loop
  PROVE  Push(l, <<>>) /\ <<>> \in Seq(Task) /\ Range(<<>>) = {}
<1>1. tasks[l] \o <<>> = tasks[l]
  BY EmptyConcat
<1>2. [tasks EXCEPT ![l] = @ \o <<>>] = tasks
  BY <1>1
<1> QED
  BY <1>2 DEF Push, Range
-----------------------------------------------------------------------------
(* Crash is one of the things a task or handler may come to. *)
LEMMA CrashWorks ==
  ASSUME TypeInv, NEW c \in Conn, Born(c), Crash, UNCHANGED misfiled
  PROVE  WorksOn(c)
<1> USE DEF TypeInv, TypeOK, ServerTypes, Crash, connVars, pollVars, timerVars
<1>1. conn[c] \in Connection /\ conn' = [conn EXCEPT ![c] = conn[c]]
  BY DEF Born
<1>2. Base \in Loop
  BY ServerAssumption
<1>3. \E l \in Loop, s \in Seq(Task) : Push(l, s) /\ \A t \in Range(s) : Placed(l, t)
  BY <1>2, PushNothing
<1> QED
  BY <1>1, <1>3 DEF WorksOn

(* The work a handler is given. *)
LEMMA WorkOfBorn ==
  ASSUME TypeInv, NEW c \in Conn, Born(c)
  PROVE  /\ conn[c] \in Connection /\ conn[c].loop \in Loop /\ conn[c].fd \in Fd
         /\ Work(conn[c]) \in WorkType
         /\ Work(conn[c]).conn = conn[c] /\ Work(conn[c]).releases = 0
<1>1. conn[c] \in Connection
  BY DEF TypeInv, TypeOK, ServerTypes, Born
<1> QED
  BY <1>1 DEF Work, WorkType, Connection

(* The channel that a handler updates is put under its own descriptor. *)
LEMMA UpdateEventWorks ==
  ASSUME chan \in [Loop -> [Fd -> Conn \cup {None}]],
         interest \in [Loop -> [Fd -> (SUBSET {"IN", "OUT"}) \cup {None}]],
         NEW c \in Conn, NEW l \in Loop, conn[c].fd \in Fd,
         NEW events \in SUBSET {"IN", "OUT"},
         UpdateEvent(l, c, events) \/ UNCHANGED pollVars
  PROVE  /\ chan' \in [Loop -> [Fd -> Conn \cup {None}]]
         /\ \A k \in Loop, g \in Fd :
              chan'[k][g] = chan[k][g] \/ (k = l /\ g = conn[c].fd /\ chan'[k][g] = c)
         /\ interest' \in [Loop -> [Fd -> (SUBSET {"IN", "OUT"}) \cup {None}]]
<1> DEFINE f == conn[c].fd
<1>1. chan' = chan \/ chan' = [chan EXCEPT ![l] = [chan[l] EXCEPT ![f] = c]]
  BY DEF UpdateEvent, pollVars
<1>2. \/ interest' = interest
      \/ interest' = [interest EXCEPT ![l] = [interest[l] EXCEPT ![f] = events]]
  BY DEF UpdateEvent, pollVars
<1>3. f \in Fd
  OBVIOUS
<1> HIDE DEF f
<1>4. [chan[l] EXCEPT ![f] = c] \in [Fd -> Conn \cup {None}]
  BY <1>3
<1>5. [interest[l] EXCEPT ![f] = events] \in [Fd -> (SUBSET {"IN", "OUT"}) \cup {None}]
  BY <1>3
<1>6. \A g \in Fd : [chan[l] EXCEPT ![f] = c][g] = IF g = f THEN c ELSE chan[l][g]
  BY <1>3
<1>7. chan' \in [Loop -> [Fd -> Conn \cup {None}]]
  BY <1>1, <1>4
<1>8. interest' \in [Loop -> [Fd -> (SUBSET {"IN", "OUT"}) \cup {None}]]
  BY <1>2, <1>5
<1>9. \A k \in Loop, g \in Fd :
        chan'[k][g] = chan[k][g] \/ (k = l /\ g = f /\ chan'[k][g] = c)
  BY <1>1, <1>6
<1> QED
  BY <1>7, <1>8, <1>9 DEF f

(* The effects of a handler on its loop and its poller. *)
LEMMA ApplyWorks ==
  ASSUME TypeInv, NEW c \in Conn, Born(c),
         NEW w \in WorkType,
         w.conn.fd = conn[c].fd, w.conn.loop = conn[c].loop, Apply(c, w),
         UNCHANGED <<conns, misfiled, cancelled, crashed>>,
         shared' \subseteq shared \cup {c},
         TimerRefresh(c) \/ UNCHANGED timer
  PROVE  WorksOn(c)
<1> DEFINE l == conn[c].loop
           f == conn[c].fd
           s == Times(Do("release", c), w.releases)
<1>1. conn[c] \in Connection /\ l \in Loop /\ f \in Fd
  BY WorkOfBorn
<1>2. /\ w.conn \in Connection /\ w.releases \in Nat
      /\ w.conn.events \in SUBSET {"IN", "OUT"}
  BY DEF WorkType, Connection
<1>3. /\ conn' = [conn EXCEPT ![c] = w.conn]
      /\ Push(l, s)
      /\ UpdateEvent(l, c, w.conn.events) \/ UNCHANGED pollVars
  BY DEF Apply
<1>4. timer' \in [Conn -> 0 .. timeout] /\ \A d \in Conn \ {c} : timer'[d] = timer[d]
  <2>1. timer \in [Conn -> 0 .. timeout] /\ timeout \in 0 .. timeout
    BY ServerAssumption DEF TypeInv, TypeOK, ServerTypes
  <2>2. timer' = [timer EXCEPT ![c] = timeout] \/ timer' = timer
    BY DEF TimerRefresh
  <2> QED
    BY <2>1, <2>2
<1>5. s \in Seq(Task) /\ \A t \in Range(s) : Placed(l, t)
  <2>1. Do("release", c) \in Task
    BY DEF Do, Task
  <2>2. s \in Seq(Task) /\ Range(s) \subseteq {Do("release", c)}
    BY <1>2, <2>1, TimesSeq
  <2>3. Placed(l, Do("release", c))
    BY DEF Placed, Do
  <2> QED
    BY <2>2, <2>3
<1>6. /\ chan' \in [Loop -> [Fd -> Conn \cup {None}]]
      /\ \A k \in Loop, g \in Fd :
           chan'[k][g] = chan[k][g] \/ (k = l /\ g = f /\ chan'[k][g] = c)
      /\ interest' \in [Loop -> [Fd -> (SUBSET {"IN", "OUT"}) \cup {None}]]
  <2>1. /\ chan \in [Loop -> [Fd -> Conn \cup {None}]]
        /\ interest \in [Loop -> [Fd -> (SUBSET {"IN", "OUT"}) \cup {None}]]
    BY DEF TypeInv, TypeOK, ServerTypes
  <2> QED
    BY <1>1, <1>2, <1>3, <2>1, UpdateEventWorks
<1>7. /\ misfiled \subseteq conns /\ cancelled \subseteq Conn /\ crashed \in BOOLEAN
  BY DEF TypeInv, TypeOK, ServerTypes
<1> HIDE DEF l, f, s
<1>8. \E k \in Loop, q \in Seq(Task) : Push(k, q) /\ \A t \in Range(q) : Placed(k, t)
  BY <1>1, <1>3, <1>5
<1> QED
  BY <1>1, <1>2, <1>3, <1>4, <1>6, <1>7, <1>8 DEF WorksOn, l, f

(* The connection as EstablishedInLoop leaves it. *)
Opened(c) == EnableRead(Work([conn[c] EXCEPT !.state = "CONNECTED"]))

(* Established sets the state, and has reading monitored. *)
LEMMA OpenedWork ==
  ASSUME TypeInv, NEW c \in Conn, Born(c)
  PROVE  /\ Opened(c) \in WorkType
         /\ Opened(c).conn = [conn[c] EXCEPT !.state = "CONNECTED",
                                             !.events = @ \cup {"IN"}]
         /\ Opened(c).releases = 0 /\ Opened(c).updated
<1>1. conn[c] \in Connection
  BY WorkOfBorn
<1> QED
  BY <1>1 DEF Opened, EnableRead, Work, WorkType, Connection

(* A handler's work, from what is left of it. *)
LEMMA EffectWorks ==
  ASSUME TypeInv, NEW c \in Conn, Born(c), NEW works, Effect(c, works),
         \A w \in works : Continues(Work(conn[c]), w), UNCHANGED misfiled
  PROVE  WorksOn(c)
<1>1. PICK w \in works : Apply(c, w)
  BY DEF Effect
<1>2. w \in WorkType /\ w.conn.fd = conn[c].fd /\ w.conn.loop = conn[c].loop
  BY WorkOfBorn DEF Continues
<1>3. UNCHANGED <<conns, shared, timer, cancelled, crashed>>
  BY DEF Effect, timerVars
<1> QED
  BY <1>1, <1>2, <1>3, ApplyWorks

(* ReleaseInLoop closes the connection; the descriptor goes from the poller. *)
LEMMA ReleaseInLoopWorks ==
  ASSUME TypeInv, NEW c \in Conn, Born(c), ReleaseInLoop(c), UNCHANGED misfiled
  PROVE  WorksOn(c)
<1> DEFINE l == conn[c].loop
           f == conn[c].fd
           k == [conn[c] EXCEPT !.state = "DISCONNECTED", !.open = FALSE,
                                !.enabled = @ /\ ~HasTimer(c)]
<1>1. conn[c] \in Connection /\ l \in Loop /\ f \in Fd
  BY WorkOfBorn
<1>2. k \in Connection /\ k.fd = f /\ k.loop = l
  BY <1>1 DEF Connection
<1>3. conn' = [conn EXCEPT ![c] = k]
  BY DEF ReleaseInLoop
<1>4. /\ conns \subseteq Conn /\ misfiled \subseteq conns
      /\ timer \in [Conn -> 0 .. timeout] /\ cancelled \subseteq Conn
      /\ tasks \in [Loop -> Seq(Task)] /\ crashed \in BOOLEAN
      /\ chan \in [Loop -> [Fd -> Conn \cup {None}]]
      /\ interest \in [Loop -> [Fd -> (SUBSET {"IN", "OUT"}) \cup {None}]]
  BY DEF TypeInv, TypeOK, ServerTypes
<1>5. /\ conns' = conns \/ conns' = conns \ ({c} \ misfiled)
      /\ UNCHANGED <<shared, timer, crashed>>
      /\ cancelled' = cancelled \/ cancelled' = cancelled \cup {c}
      /\ chan' = [chan EXCEPT ![l] = [chan[l] EXCEPT ![f] = None]]
      /\ interest' = [m \in Loop |-> IF m = l \/ conn[c].open
                                    THEN [interest[m] EXCEPT ![f] = None]
                                    ELSE interest[m]]
  BY DEF ReleaseInLoop, EraseConnection, CancelTimer, RemoveAndClose, CloseDescriptor
<1> HIDE DEF l, f, k
<1>6. \E m \in Loop, q \in Seq(Task) : Push(m, q) /\ \A t \in Range(q) : Placed(m, t)
  <2>1. CASE UNCHANGED tasks
    BY <1>1, <1>4, <2>1, PushNothing
  <2>2. CASE Push(Base, <<Do("remove", c)>>)
    <3>1. Do("remove", c) \in Task /\ Base \in Loop /\ Placed(Base, Do("remove", c))
      BY ServerAssumption DEF Do, Task, Placed
    <3>2. <<Do("remove", c)>> \in Seq(Task) /\ Range(<<Do("remove", c)>>) = {Do("remove", c)}
      BY <3>1 DEF Range
    <3> QED
      BY <2>2, <3>1, <3>2
  <2> QED
    BY <2>1, <2>2 DEF ReleaseInLoop
<1>7. /\ [chan[l] EXCEPT ![f] = None] \in [Fd -> Conn \cup {None}]
      /\ \A g \in Fd : [chan[l] EXCEPT ![f] = None][g] \in {chan[l][g], None}
  BY <1>1, <1>4
<1>8. /\ chan' \in [Loop -> [Fd -> Conn \cup {None}]]
      /\ \A m \in Loop, g \in Fd : chan'[m][g] \in {chan[m][g], None}
  BY <1>1, <1>4, <1>5, <1>7
<1>9. interest' \in [Loop -> [Fd -> (SUBSET {"IN", "OUT"}) \cup {None}]]
  <2>1. \A m \in Loop : [interest[m] EXCEPT ![f] = None]
                          \in [Fd -> (SUBSET {"IN", "OUT"}) \cup {None}]
    BY <1>4
  <2> QED
    BY <1>4, <1>5, <2>1
<1>10. misfiled \subseteq conns' /\ conns' \subseteq conns /\ cancelled' \subseteq Conn
  BY <1>4, <1>5
<1> QED
  BY <1>2, <1>3, <1>4, <1>5, <1>6, <1>8, <1>9, <1>10 DEF WorksOn, l, f

(* The two that arm and cancel the timer. *)
LEMMA TimerTaskWorks ==
  ASSUME TypeInv, NEW c \in Conn, Born(c), UNCHANGED misfiled,
         EnableInactiveReleaseInLoop(c) \/ CancelInactiveReleaseInLoop(c)
  PROVE  WorksOn(c)
<1>1. PICK b \in BOOLEAN : conn' = [conn EXCEPT ![c] = [conn[c] EXCEPT !.enabled = b]]
  BY DEF EnableInactiveReleaseInLoop, CancelInactiveReleaseInLoop
<1> DEFINE k == [conn[c] EXCEPT !.enabled = b]
<1>2. k \in Connection /\ k.fd = conn[c].fd /\ k.loop = conn[c].loop
  BY WorkOfBorn DEF Connection
<1>3. /\ UNCHANGED <<conns, shared, chan, interest, tasks, crashed>>
      /\ timer' = timer \/ timer' = [timer EXCEPT ![c] = timeout]
      /\ cancelled' = cancelled \/ cancelled' = cancelled \cup {c}
  BY DEF EnableInactiveReleaseInLoop, CancelInactiveReleaseInLoop, CancelTimer, pollVars
<1>4. /\ misfiled \subseteq conns
      /\ timer \in [Conn -> 0 .. timeout] /\ cancelled \subseteq Conn
      /\ tasks \in [Loop -> Seq(Task)] /\ crashed \in BOOLEAN
      /\ chan \in [Loop -> [Fd -> Conn \cup {None}]]
      /\ interest \in [Loop -> [Fd -> (SUBSET {"IN", "OUT"}) \cup {None}]]
      /\ timeout \in 0 .. timeout /\ Base \in Loop
  BY ServerAssumption DEF TypeInv, TypeOK, ServerTypes
<1>5. \E l \in Loop, q \in Seq(Task) : Push(l, q) /\ \A t \in Range(q) : Placed(l, t)
  BY <1>3, <1>4, PushNothing
<1>6. timer' \in [Conn -> 0 .. timeout] /\ \A d \in Conn \ {c} : timer'[d] = timer[d]
  BY <1>3, <1>4
<1> QED
  BY <1>1, <1>2, <1>3, <1>4, <1>5, <1>6 DEF WorksOn

(* No task reaches beyond its connection. *)
LEMMA ExecuteWorks ==
  ASSUME TypeInv, NEW t \in Task, Born(t.conn), Execute(t), UNCHANGED misfiled
  PROVE  WorksOn(t.conn)
<1> DEFINE c == t.conn
<1>1. c \in Conn /\ Born(c)
  BY DEF Task
<1>2. /\ Work(conn[c]) \in WorkType /\ conn[c] \in Connection
      /\ Work(conn[c]).conn = conn[c]
  BY <1>1, WorkOfBorn
<1> SUFFICES WorksOn(c)
  OBVIOUS
<1> HIDE DEF c
<1>3. CASE Crash
  BY <1>1, <1>3, CrashWorks
<1>4. CASE EstablishedInLoop(c)
  <2>1. CASE conn[c].state # "CONNECTING"
    BY <1>1, <1>4, <2>1, CrashWorks DEF EstablishedInLoop
  <2>2. CASE conn[c].state = "CONNECTING"
    <3>1. /\ Apply(c, Opened(c)) /\ shared' \subseteq shared \cup {c}
          /\ UNCHANGED <<conns, timer, cancelled, crashed>>
      BY <1>4, <2>2 DEF EstablishedInLoop, Opened, timerVars
    <3>2. /\ Opened(c) \in WorkType
          /\ Opened(c).conn.fd = conn[c].fd /\ Opened(c).conn.loop = conn[c].loop
      BY <1>1, <1>2, OpenedWork DEF Connection
    <3> QED
      BY <1>1, <3>1, <3>2, ApplyWorks
  <2> QED
    BY <2>1, <2>2
<1>5. CASE ReleaseInLoop(c)
  BY <1>1, <1>5, ReleaseInLoopWorks
<1>6. CASE RemoveConnectionInLoop(c)
  <2>1. conns' = conns \ ({c} \ misfiled) /\ Base \in Loop
    BY <1>6, ServerAssumption DEF RemoveConnectionInLoop, EraseConnection
  <2>2. UNCHANGED <<conn, shared, chan, interest, timer, cancelled, tasks, crashed>>
    BY <1>6 DEF RemoveConnectionInLoop, pollVars, timerVars
  <2>3. /\ misfiled \subseteq conns /\ conn \in [Conn -> Connection \cup {None}]
        /\ timer \in [Conn -> 0 .. timeout] /\ cancelled \subseteq Conn
        /\ tasks \in [Loop -> Seq(Task)] /\ crashed \in BOOLEAN
        /\ chan \in [Loop -> [Fd -> Conn \cup {None}]]
        /\ interest \in [Loop -> [Fd -> (SUBSET {"IN", "OUT"}) \cup {None}]]
    BY DEF TypeInv, TypeOK, ServerTypes
  <2>4. \E l \in Loop, q \in Seq(Task) : Push(l, q) /\ \A u \in Range(q) : Placed(l, u)
    BY <2>1, <2>2, <2>3, PushNothing
  <2>5. conn' = [conn EXCEPT ![c] = conn[c]]
    BY <2>2, <2>3
  <2> QED
    BY <1>2, <2>1, <2>2, <2>3, <2>4, <2>5 DEF WorksOn
<1>7. CASE Effect(c, {SendInLoop(Work(conn[c]))})
  BY <1>1, <1>2, <1>7, SendInLoopWorks, EffectWorks
<1>8. CASE Effect(c, ShutdownInLoop(Work(conn[c])))
  BY <1>1, <1>2, <1>8, ShutdownInLoopWorks, EffectWorks
<1>9. CASE EnableInactiveReleaseInLoop(c) \/ CancelInactiveReleaseInLoop(c)
  BY <1>1, <1>9, TimerTaskWorks
<1> QED
  BY <1>3, <1>4, <1>5, <1>6, <1>7, <1>8, <1>9 DEF Execute, c

-----------------------------------------------------------------------------
(* Connections only come, and keep their loop and their descriptor. *)
Grows ==
  \A c \in Conn : Born(c) =>
    Born(c)' /\ conn'[c].fd = conn[c].fd /\ conn'[c].loop = conn[c].loop

(* A task that is placed right stays so. *)
LEMMA PlacedStays ==
  ASSUME Grows, NEW l, NEW t \in Task, Placed(l, t)
  PROVE  Placed(l, t)'
  BY DEF Grows, Placed, Task

(* Work on a connection keeps the types and the references. *)
LEMMA WorksOnKeeps ==
  ASSUME TypeInv, NEW c \in Conn, Born(c), WorksOn(c), UNCHANGED serverVars
  PROVE  ServerTypes' /\ ServerRefs' /\ Grows
<1>1. UNCHANGED <<timeout, workers, misfiled>>
  BY DEF serverVars
<1>2. PICK k \in Connection : /\ k.fd = conn[c].fd /\ k.loop = conn[c].loop
                              /\ conn' = [conn EXCEPT ![c] = k]
  BY DEF WorksOn
<1>3. /\ conn \in [Conn -> Connection \cup {None}] /\ None \notin Connection
      /\ \A d \in Conn : Born(d) => conn[d].loop \in workers
  BY ServerAssumption DEF TypeInv, TypeOK, ServerTypes, Born
<1>4. Grows
  BY <1>2, <1>3 DEF Grows, Born
<1>5. \A d \in Conn : Born(d)' <=> Born(d)
  BY <1>2, <1>3 DEF Born
<1>6. PICK l \in Loop, s \in Seq(Task) : Push(l, s) /\ \A t \in Range(s) : Placed(l, t)
  BY DEF WorksOn
<1>7. tasks \in [Loop -> Seq(Task)] /\ \A m \in Loop : \A t \in Range(tasks[m]) : Placed(m, t)
  BY DEF TypeInv, TypeOK, ServerTypes, ServerRefs
<1>8. /\ tasks' \in [Loop -> Seq(Task)]
      /\ \A m \in Loop : \A t \in Range(tasks'[m]) : Placed(m, t) /\ t \in Task
  <2>1. tasks[l] \o s \in Seq(Task) /\ Range(tasks[l] \o s) = Range(tasks[l]) \cup Range(s)
    BY <1>7, RangeConcat
  <2>2. tasks' = [tasks EXCEPT ![l] = tasks[l] \o s]
    BY <1>6 DEF Push
  <2>3. \A m \in Loop : Range(tasks[m]) \subseteq Task
    BY <1>7 DEF Range
  <2>4. Range(s) \subseteq Task
    BY DEF Range
  <2> QED
    BY <1>6, <1>7, <2>1, <2>2, <2>3, <2>4
<1>9. \A m \in Loop : \A t \in Range(tasks'[m]) : Placed(m, t)'
  BY <1>4, <1>8, PlacedStays
<1>10. ServerTypes'
  <2>1. ServerTypes
    BY DEF TypeInv, TypeOK
  <2>2. \A d \in Conn : Born(d)' => conn'[d].loop \in workers
    BY <1>3, <1>4, <1>5 DEF Grows
  <2>3. conn' \in [Conn -> Connection \cup {None}]
    BY <1>2, <1>3
  <2> QED
    BY <1>1, <1>8, <2>1, <2>2, <2>3 DEF ServerTypes, WorksOn, Born
<1>11. ServerRefs'
  <2>1. ServerRefs
    BY DEF TypeInv
  <2>2. {d \in Conn : Born(d)}' = {d \in Conn : Born(d)}
    BY <1>5
  <2>3. \A d \in conns' \cup shared' : Born(d)'
    <3>1. conns \cup shared \subseteq Conn /\ \A d \in conns \cup shared : Born(d)
      BY <2>1 DEF TypeInv, TypeOK, ServerTypes, ServerRefs
    <3>2. conns' \subseteq conns /\ shared' \subseteq shared \cup {c}
      BY DEF WorksOn
    <3> QED
      BY <1>5, <3>1, <3>2
  <2>4. \A d \in Conn : HasTimer(d)' => Born(d)'
    <3>1. \A d \in Conn : HasTimer(d)' => HasTimer(d) \/ d = c
      BY DEF HasTimer, WorksOn
    <3> QED
      BY <1>5, <2>1, <3>1 DEF ServerRefs
  <2>5. \A m \in Loop, g \in Fd : chan'[m][g] # None =>
          /\ conn'[chan'[m][g]] # None
          /\ conn'[chan'[m][g]].loop = m /\ conn'[chan'[m][g]].fd = g
    <3>1. chan \in [Loop -> [Fd -> Conn \cup {None}]]
      BY DEF TypeInv, TypeOK, ServerTypes
    <3> SUFFICES ASSUME NEW m \in Loop, NEW g \in Fd, chan'[m][g] # None
                 PROVE  /\ conn'[chan'[m][g]] # None
                        /\ conn'[chan'[m][g]].loop = m /\ conn'[chan'[m][g]].fd = g
      OBVIOUS
    <3>2. \/ chan'[m][g] = chan[m][g]
          \/ m = conn[c].loop /\ g = conn[c].fd /\ chan'[m][g] = c
      BY DEF WorksOn
    <3>3. CASE chan'[m][g] = chan[m][g]
      <4>1. chan[m][g] \in Conn
        BY <3>1, <3>3
      <4>2. /\ Born(chan[m][g]) /\ conn[chan[m][g]].loop = m
            /\ conn[chan[m][g]].fd = g
        BY <2>1, <3>3 DEF ServerRefs
      <4>3. /\ conn'[chan[m][g]] # None /\ conn'[chan[m][g]].loop = m
            /\ conn'[chan[m][g]].fd = g
        BY <1>2, <1>3, <4>1, <4>2 DEF Born
      <4> QED
        BY <3>3, <4>3
    <3>4. CASE m = conn[c].loop /\ g = conn[c].fd /\ chan'[m][g] = c
      BY <1>2, <1>3, <3>4 DEF Born
    <3> QED
      BY <3>2, <3>3, <3>4
  <2> QED
    BY <1>9, <2>1, <2>2, <2>3, <2>4, <2>5 DEF ServerRefs, Born
<1> QED
  BY <1>4, <1>10, <1>11

(* The same where nothing of the server is worked on. *)
LEMMA IdleKeeps ==
  ASSUME TypeInv, shared' \subseteq shared, crashed' \in BOOLEAN,
         UNCHANGED <<serverVars, conn, conns, tasks, pollVars, timerVars>>
  PROVE  ServerTypes' /\ ServerRefs' /\ Grows
<1>1. ServerTypes /\ ServerRefs
  BY DEF TypeInv, TypeOK
<1>2. UNCHANGED <<timeout, workers, misfiled, conn, conns, tasks, chan, interest,
                  timer, cancelled>>
  BY DEF serverVars, pollVars, timerVars
<1>3. Grows
  BY <1>2 DEF Grows, Born
<1>4. ServerTypes'
  BY <1>1, <1>2 DEF ServerTypes
<1>5. ServerRefs'
  BY <1>1, <1>2 DEF ServerRefs, Born, HasTimer, Placed
<1> QED
  BY <1>3, <1>4, <1>5

(* A call that is queued is worked on later. *)
LEMMA QueueWorks ==
  ASSUME TypeInv, NEW t \in Task, t.op # "remove", Born(t.conn),
         Push(conn[t.conn].loop, <<t>>), UNCHANGED misfiled,
         UNCHANGED <<connVars, pollVars, timerVars, crashed>>
  PROVE  WorksOn(t.conn)
<1> DEFINE c == t.conn
           l == conn[c].loop
<1>1. c \in Conn /\ conn[c] \in Connection /\ l \in Loop
  BY WorkOfBorn DEF Task
<1>2. Push(l, <<t>>) /\ Placed(l, t)
  BY DEF Placed
<1>3. <<t>> \in Seq(Task) /\ Range(<<t>>) = {t}
  BY DEF Range
<1>4. ServerTypes
  BY DEF TypeInv, TypeOK
<1>5. UNCHANGED <<misfiled, conn, conns, shared, chan, interest, timer, cancelled, crashed>>
  BY DEF connVars, pollVars, timerVars
<1> SUFFICES WorksOn(c)
  OBVIOUS
<1> HIDE DEF c, l
<1>6. conn' = [conn EXCEPT ![c] = conn[c]]
  BY <1>4, <1>5 DEF ServerTypes
<1>7. \E m \in Loop, q \in Seq(Task) : Push(m, q) /\ \A u \in Range(q) : Placed(m, u)
  BY <1>1, <1>2, <1>3
<1> QED
  BY <1>1, <1>4, <1>5, <1>6, <1>7 DEF WorksOn, ServerTypes

(* What the threads refer to, when connections come or are worked on. *)
LEMMA LoopRefsStay ==
  ASSUME TypeInv, Grows,
         accepting'.conn # None => accepting'.conn = accepting.conn,
         \A l \in Loop : Range(batch'[l]) \subseteq Range(batch[l]) \cup Range(tasks[l]),
         \A l \in Loop : actives'[l] \subseteq actives[l]
  PROVE  LoopRefs'
<1>1. LoopTypes /\ LoopRefs /\ ServerTypes /\ ServerRefs
  BY DEF TypeInv, TypeOK
<1>2. accepting'.conn # None => conn'[accepting'.conn] # None
  <2>1. accepting.conn \in Conn \cup {None}
    BY <1>1 DEF LoopTypes
  <2> QED
    BY <1>1, <2>1 DEF LoopRefs, Grows, Born
<1>3. ASSUME NEW l \in Loop, NEW t \in Range(batch'[l])
      PROVE  Placed(l, t)'
  <2>1. batch[l] \in Seq(Task) /\ tasks[l] \in Seq(Task)
    BY <1>1 DEF LoopTypes, ServerTypes
  <2>2. t \in Range(batch[l]) \cup Range(tasks[l])
    OBVIOUS
  <2>3. t \in Task
    BY <2>1, <2>2 DEF Range
  <2>4. Placed(l, t)
    BY <1>1, <2>2 DEF LoopRefs, ServerRefs
  <2> QED
    BY <2>3, <2>4, PlacedStays
<1>4. ASSUME NEW l \in Loop, NEW a \in actives'[l] \ {Listen, OnTimer}
      PROVE  Born(a.chan)' /\ conn'[a.chan].loop = l
  <2>1. a \in actives[l] \ {Listen, OnTimer}
    OBVIOUS
  <2>2. a \in Active
    BY <1>1, <2>1 DEF LoopTypes
  <2>3. a.chan \in Conn
    BY <2>2 DEF Active
  <2>4. Born(a.chan) /\ conn[a.chan].loop = l
    BY <1>1, <2>1 DEF LoopRefs
  <2> QED
    BY <2>3, <2>4 DEF Grows
<1> QED
  BY <1>2, <1>3, <1>4 DEF LoopRefs, Born, Listen, OnTimer
-----------------------------------------------------------------------------
(* It holds at first. *)
LEMMA TypeInit == Init => TypeInv
<1> SUFFICES ASSUME Init PROVE TypeInv
  OBVIOUS
<1> USE ServerAssumption DEF Init
<1>1. ServerTypes
  <2>1. timeout \in Timeouts /\ 0 \in 0 .. timeout
    OBVIOUS
  <2>2. workers \in (SUBSET Loop) \ {{}}
    OBVIOUS
  <2>3. tasks \in [Loop -> Seq(Task)]
    OBVIOUS
  <2>4. /\ conn \in [Conn -> Connection \cup {None}]
        /\ \A c \in Conn : conn[c] = None
        /\ timer \in [Conn -> 0 .. timeout]
    BY <2>1
  <2>5. /\ chan \in [Loop -> [Fd -> Conn \cup {None}]]
        /\ interest \in [Loop -> [Fd -> (SUBSET {"IN", "OUT"}) \cup {None}]]
    OBVIOUS
  <2>6. conns = {} /\ shared = {} /\ misfiled = {} /\ cancelled = {} /\ crashed = FALSE
    OBVIOUS
  <2> QED
    BY ONLY <2>1, <2>2, <2>3, <2>4, <2>5, <2>6 DEF ServerTypes
<1>2. LoopTypes
  BY DEF LoopTypes
<1>3. ServerRefs
  <2>1. {c \in Conn : Born(c)} = {}
    BY DEF Born
  <2>2. IsFiniteSet({c \in Conn : Born(c)})
    BY <2>1, FS_EmptySet
  <2> QED
    BY <2>2 DEF ServerRefs, HasTimer, Range
<1>4. LoopRefs /\ Phases
  BY DEF LoopRefs, Phases, Range
<1> QED
  BY <1>1, <1>2, <1>3, <1>4 DEF TypeInv, TypeOK

(* A connection that is accepted: nothing refers to it yet. *)
LEMMA AcceptKeeps ==
  ASSUME TypeInv, Accept
  PROVE  ServerTypes' /\ ServerRefs' /\ Grows /\ LoopTypes' /\ LoopRefs'
<1>1. ServerTypes /\ ServerRefs /\ LoopTypes /\ LoopRefs
  BY DEF TypeInv, TypeOK
<1>2. /\ UNCHANGED <<timeout, workers, misfiled, conns, shared, tasks, chan, interest,
                     timer, cancelled, crashed>>
      /\ UNCHANGED <<batch, held, pc, errno, expired, peer, rx, sent, calls>>
      /\ actives' = [actives EXCEPT ![Base] = @ \ {Listen}]
      /\ Base \in Loop
  BY ServerAssumption DEF Accept, serverVars, pollVars, timerVars, netVars
<1>3. /\ actives' \in [Loop -> SUBSET ({Listen, OnTimer} \cup Active)]
      /\ \A l \in Loop : actives'[l] \subseteq actives[l]
  BY <1>1, <1>2 DEF LoopTypes
<1>4. CASE UNCHANGED <<conn, accepting>>
  <2>1. ServerTypes' /\ ServerRefs' /\ Grows
    BY <1>1, <1>2, <1>4, IdleKeeps DEF Accept, ServerTypes
  <2>2. LoopTypes'
    BY <1>1, <1>2, <1>3, <1>4 DEF LoopTypes
  <2>3. LoopRefs'
    BY <1>2, <1>3, <1>4, <2>1, LoopRefsStay
  <2> QED
    BY <2>1, <2>2, <2>3
<1>5. CASE \E c \in Backlog, f \in Fd, l \in workers :
             /\ conn' = [conn EXCEPT ![c] = NewConn(f, l)]
             /\ accepting' = [conn |-> c,
                              step |-> IF timeout > 0 THEN "enable" ELSE "established"]
  <2>1. PICK c \in Backlog, f \in Fd, l \in workers :
             /\ conn' = [conn EXCEPT ![c] = NewConn(f, l)]
             /\ accepting' = [conn |-> c,
                              step |-> IF timeout > 0 THEN "enable" ELSE "established"]
    BY <1>5
  <2>2. c \in Conn /\ ~Born(c) /\ l \in Loop
    BY <1>1 DEF Backlog, ServerTypes
  <2>3. /\ NewConn(f, l) \in Connection /\ NewConn(f, l) # None
        /\ NewConn(f, l).loop = l
    <3>1. NewConn(f, l) \in Connection
      BY <2>2 DEF NewConn, Connection
    <3> QED
      BY <3>1, ServerAssumption DEF NewConn
  <2>4. Grows
    BY <1>1, <2>1, <2>2 DEF Grows, Born, ServerTypes
  <2>5. Born(c)' /\ \A d \in Conn \ {c} : conn'[d] = conn[d]
    BY <1>1, <2>1, <2>2, <2>3 DEF Born, ServerTypes
  <2>6. ServerTypes'
    <3>1. conn' \in [Conn -> Connection \cup {None}]
      BY <1>1, <2>1, <2>3 DEF ServerTypes
    <3>2. \A d \in Conn : conn'[d] # None => conn'[d].loop \in workers
      BY <1>1, <2>1, <2>2, <2>3 DEF ServerTypes
    <3> QED
      BY <1>1, <1>2, <3>1, <3>2 DEF ServerTypes
  <2>7. ServerRefs'
    <3>1. {d \in Conn : Born(d)}' = {d \in Conn : Born(d)} \cup {c}
      BY <2>2, <2>5 DEF Born
    <3>2. IsFiniteSet({d \in Conn : Born(d)}')
      BY <1>1, <3>1, FS_AddElement DEF ServerRefs
    <3>3. \A k \in Loop : \A t \in Range(tasks[k]) : Placed(k, t)'
      <4>1. \A k \in Loop : Range(tasks[k]) \subseteq Task
        BY <1>1 DEF ServerTypes, Range
      <4> QED
        BY <1>1, <2>4, <4>1, PlacedStays DEF ServerRefs
    <3>4. \A k \in Loop, g \in Fd : chan[k][g] # None =>
            /\ conn'[chan[k][g]] # None
            /\ conn'[chan[k][g]].loop = k /\ conn'[chan[k][g]].fd = g
      <4> SUFFICES ASSUME NEW k \in Loop, NEW g \in Fd, chan[k][g] # None
                   PROVE  /\ conn'[chan[k][g]] # None
                          /\ conn'[chan[k][g]].loop = k /\ conn'[chan[k][g]].fd = g
        OBVIOUS
      <4>1. chan[k][g] \in Conn
        BY <1>1 DEF ServerTypes
      <4>2. /\ Born(chan[k][g])
            /\ conn[chan[k][g]].loop = k /\ conn[chan[k][g]].fd = g
        BY <1>1 DEF ServerRefs
      <4>3. conn'[chan[k][g]] = conn[chan[k][g]]
        BY <2>2, <2>5, <4>1, <4>2
      <4> QED
        BY <4>2, <4>3 DEF Born
    <3>5. /\ \A d \in conns \cup shared : Born(d)'
          /\ \A d \in Conn : HasTimer(d) => Born(d)'
      BY <1>1, <2>4 DEF ServerRefs, ServerTypes, Grows
    <3>6. \A k \in Loop : \A t \in Range(tasks'[k]) : Placed(k, t)'
      BY <1>2, <3>3
    <3> QED
      BY <1>2, <3>2, <3>4, <3>5, <3>6 DEF ServerRefs, HasTimer, Born
  <2>8. LoopTypes'
    <3>1. accepting' \in [conn : Conn \cup {None},
                    step : {"enable", "established", "insert", "misfile"}]
      BY <2>1, <2>2
    <3> QED
      BY <1>1, <1>2, <1>3, <3>1 DEF LoopTypes
  <2>9. LoopRefs'
    <3>1. \A k \in Loop : \A t \in Range(batch'[k]) : Placed(k, t)'
      <4>1. \A k \in Loop : Range(batch[k]) \subseteq Task
        BY <1>1 DEF LoopTypes, Range
      <4>2. \A k \in Loop : \A t \in Range(batch[k]) : Placed(k, t)'
        BY <1>1, <2>4, <4>1, PlacedStays DEF LoopRefs
      <4> QED
        BY <1>2, <4>2
    <3>2. ASSUME NEW k \in Loop, NEW a \in actives'[k] \ {Listen, OnTimer}
          PROVE  Born(a.chan)' /\ conn'[a.chan].loop = k
      <4>1. a \in actives[k] \ {Listen, OnTimer}
        BY <1>3
      <4>2. a \in Active
        BY <1>1, <4>1 DEF LoopTypes
      <4>3. a.chan \in Conn
        BY <4>2 DEF Active
      <4> QED
        BY <1>1, <2>4, <4>1, <4>3 DEF Grows, LoopRefs
    <3>3. accepting'.conn = c
      BY <2>1
    <3> QED
      BY <2>5, <3>1, <3>2, <3>3 DEF LoopRefs, Born, Listen, OnTimer
  <2> QED
    BY <2>4, <2>6, <2>7, <2>8, <2>9
<1> QED
  BY <1>4, <1>5 DEF Accept

(* A set in any order: all of it. *)
LEMMA SetToSeqsRange ==
  ASSUME NEW S, IsFiniteSet(S), NEW s \in SetToSeqs(S)
  PROVE  s \in Seq(S) /\ Range(s) = S /\ DOMAIN s = 1 .. Len(s)
<1> DEFINE n == Cardinality(S)
<1>1. n \in Nat /\ Cardinality(1 .. n) = n
  BY FS_CardinalityType, FS_Interval
<1>2. s \in [1 .. n -> S] /\ \A i, j \in 1 .. n : i # j => s[i] # s[j]
  BY DEF SetToSeqs
<1>3. s \in Injection(1 .. n, S)
  BY <1>2 DEF Injection, IsInjective
<1>4. s \in Surjection(1 .. n, S)
  BY <1>1, <1>3, FS_Injection
<1> QED
  BY <1>1, <1>2, <1>4 DEF Range, Surjection

(* The timers that run out: each queues one release. *)
LEMMA OnTimeKeeps ==
  ASSUME TypeInv, NEW l \in Loop, OnTime(l)
  PROVE  ServerTypes' /\ ServerRefs' /\ Grows
<1> DEFINE over == {c \in Conn : HasTimer(c) /\ conn[c].loop = l /\ timer[c] = 1}
<1>1. ServerTypes /\ ServerRefs
  BY DEF TypeInv, TypeOK
<1>2. UNCHANGED <<timeout, workers, misfiled, conn, conns, shared, chan, interest>>
  BY DEF OnTime, Crash, serverVars, connVars, pollVars
<1>3. Grows
  BY <1>2 DEF Grows, Born
<1>4. CASE Crash
  <2>1. shared' \subseteq shared /\ crashed' \in BOOLEAN
    BY <1>2, <1>4 DEF Crash
  <2>2. UNCHANGED <<serverVars, conn, conns, tasks, pollVars, timerVars>>
    BY <1>2, <1>4 DEF Crash, serverVars, pollVars
  <2> QED
    BY <2>1, <2>2, IdleKeeps
<1>5. CASE /\ timer' = [c \in Conn |-> IF HasTimer(c) /\ conn[c].loop = l
                                       THEN timer[c] - 1 ELSE timer[c]]
           /\ cancelled' = cancelled \ over
           /\ \E s \in SetToSeqs(over \ cancelled) :
                Push(l, [i \in DOMAIN s |-> Do("release", s[i])])
           /\ UNCHANGED crashed
  <2>1. PICK s \in SetToSeqs(over \ cancelled) :
               Push(l, [i \in DOMAIN s |-> Do("release", s[i])])
    BY <1>5
  <2>2. IsFiniteSet(over \ cancelled)
    <3>1. over \ cancelled \in SUBSET {c \in Conn : Born(c)}
      BY <1>1 DEF ServerRefs
    <3> QED
      BY <1>1, <3>1, FS_Subset DEF ServerRefs
  <2>3. s \in Seq(over \ cancelled) /\ DOMAIN s = 1 .. Len(s)
    BY <2>2, SetToSeqsRange
  <2> DEFINE q == [i \in DOMAIN s |-> Do("release", s[i])]
  <2>4. \A i \in DOMAIN s : s[i] \in over
    BY <2>3
  <2>5. \A i \in DOMAIN s : Do("release", s[i]) \in Task /\ Placed(l, Do("release", s[i]))
    BY <1>1, <2>4 DEF ServerRefs, Do, Task, Placed
  <2>6. q \in Seq(Task) /\ \A t \in Range(q) : Placed(l, t)
    BY <2>3, <2>5 DEF Range
  <2>7. Push(l, q)
    BY <2>1
  <2> HIDE DEF q
  <2>8. /\ tasks' \in [Loop -> Seq(Task)]
        /\ \A m \in Loop : \A t \in Range(tasks'[m]) : Placed(m, t)
    <3>1. tasks[l] \in Seq(Task)
      BY <1>1 DEF ServerTypes
    <3>2. tasks[l] \o q \in Seq(Task) /\ Range(tasks[l] \o q) = Range(tasks[l]) \cup Range(q)
      BY <2>6, <3>1, RangeConcat
    <3>3. tasks' = [tasks EXCEPT ![l] = tasks[l] \o q]
      BY <2>7 DEF Push
    <3> QED
      BY <1>1, <2>6, <3>2, <3>3 DEF ServerTypes, ServerRefs
  <2>9. timer' \in [Conn -> 0 .. timeout] /\ \A c \in Conn : HasTimer(c)' => HasTimer(c)
    <3>1. timer \in [Conn -> 0 .. timeout] /\ timeout \in Nat
      BY <1>1, ServerAssumption DEF ServerTypes
    <3>2. \A c \in Conn : timer'[c] \in 0 .. timeout /\ (timer'[c] > 0 => timer[c] > 0)
      BY <1>5, <3>1 DEF HasTimer
    <3>3. timer' = [c \in Conn |-> timer'[c]]
      BY <1>5
    <3> QED
      BY <3>2, <3>3 DEF HasTimer
  <2>10. cancelled' \subseteq Conn /\ crashed' \in BOOLEAN
    BY <1>1, <1>5 DEF ServerTypes
  <2>11. ServerTypes'
    BY <1>1, <1>2, <2>8, <2>9, <2>10 DEF ServerTypes
  <2>12. \A m \in Loop : \A t \in Range(tasks'[m]) : Placed(m, t)'
    BY <1>2, <2>8 DEF Placed, Born
  <2>13. ServerRefs'
    BY <1>1, <1>2, <2>9, <2>12 DEF ServerRefs, Born
  <2> QED
    BY <1>3, <2>11, <2>13
<1> QED
  BY <1>4, <1>5 DEF OnTime

(* What epoll returns. *)
LEMMA ReadyTypes ==
  ASSUME TypeInv, NEW l \in Loop, \A fr \in ReadyFds(l) : chan[l][fr[1]] # None
  PROVE  /\ Ready(l) \subseteq {Listen, OnTimer} \cup Active
         /\ \A a \in Ready(l) \ {Listen, OnTimer} : Born(a.chan) /\ conn[a.chan].loop = l
<1>1. ServerTypes /\ ServerRefs
  BY DEF TypeInv, TypeOK
<1>2. ASSUME NEW fr \in ReadyFds(l)
      PROVE  /\ fr[1] \in Fd /\ fr[2] \in SUBSET Event
             /\ chan[l][fr[1]] \in Conn
             /\ Born(chan[l][fr[1]]) /\ conn[chan[l][fr[1]]].loop = l
  <2>1. fr[1] \in Fd /\ fr[2] \in SUBSET Event
    BY DEF ReadyFds
  <2>2. chan[l][fr[1]] \in Conn
    BY <1>1, <2>1 DEF ServerTypes
  <2> QED
    BY <1>1, <2>1, <2>2 DEF ServerRefs
<1>3. ASSUME NEW a \in Ready(l), a # Listen, a # OnTimer
      PROVE  a \in Active /\ Born(a.chan) /\ conn[a.chan].loop = l
  <2>1. PICK fr \in ReadyFds(l) : a = [chan |-> chan[l][fr[1]], revents |-> fr[2]]
    BY <1>3 DEF Ready
  <2>2. a \in Active /\ a.chan = chan[l][fr[1]]
    BY <1>2, <2>1 DEF Active
  <2> QED
    BY <1>2, <2>1, <2>2
<1> QED
  BY <1>3

(* Init and every step of TcpServer keep the types, with what they rest on. *)
LEMMA TypeStep == TypeInv /\ [Next]_vars => TypeInv'
<1> SUFFICES ASSUME TypeInv, [Next]_vars
             PROVE  TypeInv'
  OBVIOUS
<1>1. ServerTypes /\ LoopTypes /\ ServerRefs /\ LoopRefs /\ Phases /\ Base \in Loop
  BY ServerAssumption DEF TypeInv, TypeOK
<1>2. \A l \in Loop : actives[l] \subseteq {Listen, OnTimer} \cup Active
  BY <1>1 DEF LoopTypes
<1>3. ASSUME NEW l \in Loop, Poll(l) PROVE TypeInv'
  <2>1. /\ UNCHANGED <<serverVars, connVars, accepting, tasks, batch, held, errno,
                       pollVars, timerVars, expired, netVars>>
        /\ crashed' \in BOOLEAN
    BY <1>1, <1>3 DEF Poll, ServerTypes
  <2>2. ServerTypes' /\ ServerRefs' /\ Grows
    BY <2>1, IdleKeeps DEF connVars
  <2>3. \/ UNCHANGED <<actives, pc>>
        \/ /\ actives' = [actives EXCEPT ![l] = Ready(l)]
           /\ pc' = [pc EXCEPT ![l] = "events"]
           /\ \A fr \in ReadyFds(l) : chan[l][fr[1]] # None
    BY <1>3 DEF Poll
  <2>4. CASE UNCHANGED <<actives, pc>>
    <3>1. LoopTypes' /\ Phases'
      BY <1>1, <2>1, <2>4 DEF LoopTypes, Phases, netVars
    <3>2. LoopRefs'
      BY <2>1, <2>2, <2>4, LoopRefsStay
    <3> QED
      BY <2>2, <3>1, <3>2 DEF TypeInv, TypeOK
  <2>5. CASE /\ actives' = [actives EXCEPT ![l] = Ready(l)]
             /\ pc' = [pc EXCEPT ![l] = "events"]
             /\ \A fr \in ReadyFds(l) : chan[l][fr[1]] # None
    <3>1. /\ Ready(l) \subseteq {Listen, OnTimer} \cup Active
          /\ \A a \in Ready(l) \ {Listen, OnTimer} : Born(a.chan) /\ conn[a.chan].loop = l
      BY <2>5, ReadyTypes
    <3>2. LoopTypes'
      BY <1>1, <2>1, <2>5, <3>1 DEF LoopTypes, netVars
    <3>3. LoopRefs'
      BY <1>1, <2>1, <2>5, <3>1 DEF LoopRefs, LoopTypes, connVars, Placed, Born,
                                   Listen, OnTimer
    <3>4. Phases'
      BY <1>1, <1>3, <2>1, <2>5 DEF Phases, LoopTypes, Poll
    <3> QED
      BY <2>2, <3>2, <3>3, <3>4 DEF TypeInv, TypeOK
  <2> QED
    BY <2>3, <2>4, <2>5
<1>4. ASSUME NEW l \in Loop, NEW a \in actives[l], HandleChannel(l, a) PROVE TypeInv'
  <2> DEFINE c == a.chan
  <2>1. a \in actives[l] \ {Listen, OnTimer} /\ a \in Active
    BY <1>2, <1>4 DEF HandleChannel
  <2>2. c \in Conn /\ Born(c)
    BY <1>1, <2>1 DEF Active, LoopRefs
  <2>3. /\ UNCHANGED <<serverVars, accepting, batch, held, pc, expired, peer, sent, calls>>
        /\ actives' = [actives EXCEPT ![l] = @ \ {a}] /\ pc[l] = "events"
    BY <1>4 DEF HandleChannel
  <2> HIDE DEF c
  <2>4. WorksOn(c) /\ rx' \in [Conn -> Nat] /\ errno' \in [Loop -> {"other", "retry"}]
    <3>1. CASE Crash /\ UNCHANGED <<rx, errno>>
      BY <1>1, <2>2, <2>3, <3>1, CrashWorks DEF LoopTypes, serverVars
    <3>2. CASE \E w \in HandleEvent(Work(conn[c]), a.revents, Received(l, c), Broken(c)) :
                 /\ Apply(c, w)
                 /\ rx' = rx \/ rx' = [rx EXCEPT ![c] = 0]
                 /\ errno' = errno \/ errno' = [errno EXCEPT ![l] = ErrnoAfter(l, c)]
                 /\ TimerRefresh(c) \/ UNCHANGED timer
                 /\ UNCHANGED <<conns, shared, cancelled, crashed>>
      <4>1. PICK w \in HandleEvent(Work(conn[c]), a.revents, Received(l, c), Broken(c)) :
                 Apply(c, w)
        BY <3>2
      <4>2. Received(l, c) \in Nat \cup {-1}
        BY <1>1, <2>2 DEF Received, LoopTypes
      <4>3. ErrnoAfter(l, c) \in {"other", "retry"}
        BY <1>1 DEF ErrnoAfter, LoopTypes
      <4>4. Continues(Work(conn[c]), w)
        BY <2>2, <4>2, WorkOfBorn, HandleEventWorks
      <4>5. w \in WorkType /\ w.conn.fd = conn[c].fd /\ w.conn.loop = conn[c].loop
        BY <2>2, <4>4, WorkOfBorn DEF Continues
      <4>6. /\ UNCHANGED <<conns, misfiled, cancelled, crashed>> /\ shared' \subseteq shared \cup {c}
            /\ TimerRefresh(c) \/ UNCHANGED timer
        BY <2>3, <3>2 DEF serverVars
      <4>7. WorksOn(c)
        BY <2>2, <4>1, <4>5, <4>6, ApplyWorks
      <4>8. rx \in [Conn -> Nat] /\ errno \in [Loop -> {"other", "retry"}]
        BY <1>1 DEF LoopTypes
      <4>9. rx' \in [Conn -> Nat]
        BY <3>2, <4>8
      <4>10. errno' \in [Loop -> {"other", "retry"}]
        BY <3>2, <4>3, <4>8
      <4> QED
        BY <4>7, <4>9, <4>10
    <3> QED
      BY <1>4, <3>1, <3>2 DEF HandleChannel, c
  <2>5. ServerTypes' /\ ServerRefs' /\ Grows
    BY <2>2, <2>3, <2>4, WorksOnKeeps
  <2>6. LoopTypes' /\ \A k \in Loop : actives'[k] \subseteq actives[k]
    BY <1>1, <2>3, <2>4 DEF LoopTypes
  <2>7. LoopRefs'
    BY <2>3, <2>5, <2>6, LoopRefsStay
  <2>8. Phases'
    BY <1>1, <2>3, <2>6 DEF Phases, LoopTypes
  <2> QED
    BY <2>5, <2>6, <2>7, <2>8 DEF TypeInv, TypeOK
<1>5. ASSUME NEW l \in Loop, OnTime(l) PROVE TypeInv'
  <2>1. /\ UNCHANGED <<serverVars, accepting, batch, held, pc, errno, netVars>>
        /\ actives' = [actives EXCEPT ![l] = @ \ {OnTimer}] /\ pc[l] = "events"
        /\ expired' \subseteq expired
    BY <1>5 DEF OnTime
  <2>2. ServerTypes' /\ ServerRefs' /\ Grows
    BY <1>5, OnTimeKeeps
  <2>3. LoopTypes' /\ \A k \in Loop : actives'[k] \subseteq actives[k]
    BY <1>1, <2>1 DEF LoopTypes, netVars
  <2>4. LoopRefs'
    BY <2>1, <2>2, <2>3, LoopRefsStay
  <2>5. Phases'
    BY <1>1, <2>1, <2>3 DEF Phases, LoopTypes
  <2> QED
    BY <2>2, <2>3, <2>4, <2>5 DEF TypeInv, TypeOK
<1>6. CASE Accept
  <2>1. /\ UNCHANGED <<batch, pc>> /\ pc[Base] = "events"
        /\ actives' = [actives EXCEPT ![Base] = @ \ {Listen}]
    BY <1>6 DEF Accept
  <2>2. Phases'
    BY <1>1, <2>1 DEF Phases, LoopTypes
  <2> QED
    BY <1>6, <2>2, AcceptKeeps DEF TypeInv, TypeOK
<1>7. ASSUME NEW step \in {"enable", "established"},
             NEW next \in {"established", "insert", "misfile"},
             NewConnectionCall(step, next)
      PROVE  TypeInv'
  <2> DEFINE c == accepting.conn
             t == Do(step, c)
  <2>1. /\ c \in Conn /\ Born(c) /\ t \in Task /\ t.op # "remove" /\ t.conn = c
    BY <1>1, <1>7 DEF NewConnectionCall, LoopTypes, LoopRefs, Do, Task
  <2>2. /\ UNCHANGED <<serverVars, batch, held, pc, actives, errno, expired, netVars>>
        /\ accepting' = [accepting EXCEPT !.step = next]
        /\ RunInLoop(Base, t)
    BY <1>7 DEF NewConnectionCall
  <2>3. UNCHANGED misfiled
    BY <2>2 DEF serverVars
  <2> HIDE DEF c, t
  <2>4. WorksOn(c)
    BY <2>1, <2>2, <2>3, ExecuteWorks, QueueWorks DEF RunInLoop
  <2>5. ServerTypes' /\ ServerRefs' /\ Grows
    BY <2>1, <2>2, <2>4, WorksOnKeeps
  <2>6. accepting'.conn = accepting.conn
    BY <1>1, <2>2 DEF LoopTypes
  <2>7. LoopTypes' /\ Phases'
    BY <1>1, <2>2, <2>6 DEF LoopTypes, Phases, netVars
  <2>8. LoopRefs'
    BY <2>2, <2>5, <2>6, LoopRefsStay
  <2> QED
    BY <2>5, <2>7, <2>8 DEF TypeInv, TypeOK
<1>8. CASE InsertConnection
  <2> DEFINE c == accepting.conn
  <2>1. /\ c \in Conn /\ Born(c) /\ conns' = conns \cup {c}
        /\ misfiled' \subseteq misfiled \cup {c}
        /\ accepting' = [accepting EXCEPT !.conn = None]
        /\ UNCHANGED <<timeout, workers, conn, shared, loopVars, pollVars, timerVars,
                       expired, netVars, crashed>>
    BY <1>1, <1>8 DEF InsertConnection, LoopTypes, LoopRefs
  <2> HIDE DEF c
  <2>2. Grows
    BY <2>1 DEF Grows, Born
  <2>3. ServerTypes'
    BY <1>1, <2>1 DEF ServerTypes, loopVars, pollVars, timerVars
  <2>4. ServerRefs'
    BY <1>1, <2>1 DEF ServerRefs, Placed, Born, HasTimer, loopVars, pollVars, timerVars
  <2>5. LoopTypes' /\ Phases' /\ accepting'.conn = None
    BY <1>1, <2>1 DEF LoopTypes, Phases, loopVars, netVars
  <2>6. LoopRefs'
    BY <2>1, <2>2, <2>5, LoopRefsStay DEF loopVars
  <2> QED
    BY <2>3, <2>4, <2>5, <2>6 DEF TypeInv, TypeOK
<1>9. ASSUME NEW l \in Loop, SwapTasks(l) PROVE TypeInv'
  <2>1. /\ UNCHANGED <<serverVars, connVars, accepting, held, actives, errno, pollVars,
                       timerVars, expired, netVars, crashed>>
        /\ batch' = [batch EXCEPT ![l] = tasks[l]]
        /\ tasks' = [tasks EXCEPT ![l] = <<>>]
        /\ pc' = [pc EXCEPT ![l] = "tasks"] /\ pc[l] = "events" /\ actives[l] = {}
        /\ l = Base => accepting.conn = None
    BY <1>9 DEF SwapTasks, OnThread
  <2>2. ServerTypes'
    BY <1>1, <2>1 DEF ServerTypes, serverVars, connVars, pollVars, timerVars
  <2>3. Grows /\ Range(<<>>) = {}
    BY <2>1 DEF Grows, Born, connVars, Range
  <2>4. ServerRefs'
    BY <1>1, <2>1, <2>3 DEF ServerRefs, ServerTypes, Placed, Born, HasTimer, connVars,
                           pollVars, timerVars
  <2>5. LoopTypes' /\ Phases'
    BY <1>1, <2>1 DEF LoopTypes, Phases, ServerTypes, netVars
  <2>6. \A k \in Loop : Range(batch'[k]) \subseteq Range(batch[k]) \cup Range(tasks[k])
    BY <1>1, <2>1 DEF LoopTypes
  <2>7. LoopRefs'
    BY <2>1, <2>3, <2>6, LoopRefsStay
  <2> QED
    BY <2>2, <2>4, <2>5, <2>7 DEF TypeInv, TypeOK
<1>10. ASSUME NEW l \in Loop, RunTask(l) PROVE TypeInv'
  <2> DEFINE t == Head(batch[l])
  <2>1. /\ batch[l] # <<>> /\ batch[l] \in Seq(Task) /\ Execute(t)
        /\ batch' = [batch EXCEPT ![l] = Tail(batch[l])]
        /\ held' = held \/ held' = [held EXCEPT ![l] = @ \cup {t.conn}]
        /\ UNCHANGED <<serverVars, accepting, pc, actives, errno, expired, netVars>>
        /\ pc[l] = "tasks"
    BY <1>1, <1>10 DEF RunTask, LoopTypes
  <2>2. /\ t \in Task /\ Tail(batch[l]) \in Seq(Task)
        /\ Range(batch[l]) = {t} \cup Range(Tail(batch[l]))
    BY <2>1, RangeHeadTail
  <2> HIDE DEF t
  <2>3. t.conn \in Conn /\ Born(t.conn)
    BY <1>1, <2>2 DEF Task, LoopRefs, Placed
  <2>4. WorksOn(t.conn)
    BY <2>1, <2>2, <2>3, ExecuteWorks DEF serverVars
  <2>5. ServerTypes' /\ ServerRefs' /\ Grows
    BY <2>1, <2>3, <2>4, WorksOnKeeps
  <2>6. LoopTypes' /\ Phases'
    <3>1. held' \in [Loop -> SUBSET Conn]
      <4>1. held \in [Loop -> SUBSET Conn]
        BY <1>1 DEF LoopTypes
      <4>2. held[l] \cup {t.conn} \in SUBSET Conn
        BY <2>3, <4>1
      <4> QED
        BY <2>1, <4>1, <4>2
    <3>2. batch' \in [Loop -> Seq(Task)] /\ \A k \in Loop : k # l => batch'[k] = batch[k]
      BY <1>1, <2>1, <2>2 DEF LoopTypes
    <3> QED
      BY <1>1, <2>1, <3>1, <3>2 DEF LoopTypes, Phases, netVars
  <2>7. \A k \in Loop : Range(batch'[k]) \subseteq Range(batch[k])
    BY <1>1, <2>1, <2>2 DEF LoopTypes
  <2>8. LoopRefs'
    BY <2>1, <2>5, <2>7, LoopRefsStay
  <2> QED
    BY <2>5, <2>6, <2>8 DEF TypeInv, TypeOK
<1>11. ASSUME NEW l \in Loop, FinishBatch(l) PROVE TypeInv'
  <2>1. /\ UNCHANGED <<serverVars, connVars, accepting, tasks, batch, actives, errno,
                       pollVars, timerVars, expired, netVars, crashed>>
        /\ held' = [held EXCEPT ![l] = {}]
        /\ pc' = [pc EXCEPT ![l] = "poll"] /\ pc[l] = "tasks" /\ batch[l] = <<>>
        /\ l = Base => accepting.conn = None
    BY <1>11 DEF FinishBatch, OnThread
  <2>2. ServerTypes' /\ ServerRefs' /\ Grows
    BY <1>1, <2>1, IdleKeeps DEF connVars, ServerTypes
  <2>3. LoopTypes' /\ Phases'
    BY <1>1, <2>1 DEF LoopTypes, Phases, netVars
  <2>4. LoopRefs'
    BY <2>1, <2>2, LoopRefsStay
  <2> QED
    BY <2>2, <2>3, <2>4 DEF TypeInv, TypeOK
<1>12. ASSUME NEW c \in Conn, NEW op \in UserOps, UserCalls(op, c) PROVE TypeInv'
  <2> DEFINE t == Do(op, c)
  <2>1. /\ t \in Task /\ t.op # "remove" /\ t.conn = c
    BY <1>12, ServerAssumption DEF UserCalls, Do, Task
  <2>2. /\ Push(conn[c].loop, <<t>>) /\ Born(c)
        /\ UNCHANGED <<serverVars, connVars, accepting, batch, held, pc, actives, errno,
                       pollVars, timerVars, expired, peer, rx, sent, crashed>>
        /\ calls' \in 0 .. MaxUser
    BY <1>1, <1>12, ServerAssumption DEF UserCalls, ServerRefs, LoopTypes
  <2> HIDE DEF t
  <2>3. WorksOn(c)
    BY <2>1, <2>2, QueueWorks DEF serverVars
  <2>4. ServerTypes' /\ ServerRefs' /\ Grows
    BY <2>2, <2>3, WorksOnKeeps
  <2>5. LoopTypes' /\ Phases'
    BY <1>1, <2>2 DEF LoopTypes, Phases
  <2>6. LoopRefs'
    BY <2>2, <2>4, LoopRefsStay
  <2> QED
    BY <2>4, <2>5, <2>6 DEF TypeInv, TypeOK
<1>13. ASSUME UNCHANGED <<serverVars, conn, conns, accepting, tasks, batch, held, pc,
                          actives, pollVars, timerVars, crashed>>,
              shared' \subseteq shared, errno' \in [Loop -> {"other", "retry"}],
              expired' \subseteq Loop, peer' \in [Conn -> {"none", "open", "fin", "rst"}],
              rx' \in [Conn -> Nat], sent' \in [Conn -> Nat], calls' = calls
       PROVE  TypeInv'
  <2>1. ServerTypes' /\ ServerRefs' /\ Grows
    BY <1>1, <1>13, IdleKeeps DEF ServerTypes
  <2>2. LoopTypes' /\ Phases'
    BY <1>1, <1>13 DEF LoopTypes, Phases
  <2>3. LoopRefs'
    BY <1>13, <2>1, LoopRefsStay
  <2> QED
    BY <2>1, <2>2, <2>3 DEF TypeInv, TypeOK
<1> USE DEF LoopTypes, connVars, loopVars, netVars
<1>14. ASSUME NEW c \in Conn,
              PeerConnects(c) \/ PeerSends(c) \/ PeerCloses(c) \/ PeerResets(c) \/ UserDrops(c)
       PROVE  TypeInv'
  <2>1. CASE PeerConnects(c) \/ PeerCloses(c) \/ UserDrops(c)
    BY <1>1, <1>13, <2>1 DEF PeerConnects, PeerCloses, UserDrops
  <2>2. CASE PeerSends(c)
    BY <1>1, <1>13, <2>2 DEF PeerSends
  <2>3. CASE PeerResets(c)
    BY <1>1, <1>13, <2>3 DEF PeerResets
  <2> QED
    BY <1>14, <2>1, <2>2, <2>3
<1>15. ASSUME NEW l \in Loop, SecondPasses(l) \/ PollInterrupted(l)
       PROVE  TypeInv'
  BY <1>1, <1>13, <1>15 DEF SecondPasses, PollInterrupted
<1>16. CASE UNCHANGED vars
  BY <1>1, <1>13, <1>16 DEF vars
<1>17. CASE RunAfter
  BY <1>7, <1>17 DEF RunAfter
<1> QED
  BY <1>3, <1>4, <1>5, <1>6, <1>7, <1>8, <1>9, <1>10, <1>11, <1>12, <1>14, <1>15,
     <1>16, <1>17 DEF Next, LoopStep, Environment

(* The state of the server is well formed whatever its threads, its users  *)
(* and its peers do, crashes included, and everything that refers to a     *)
(* connection does so on the loop it was given to.                         *)
THEOREM ServerTypeCorrect == Spec => []TypeOK
<1>1. TypeInv => TypeOK
  BY DEF TypeInv
<1> QED
  BY <1>1, TypeInit, TypeStep, PTL DEF Spec

(* Whatever refers to a connection refers to one that exists by then, in   *)
(* every reachable state: what the other proofs about the server start     *)
(* from.                                                                   *)
THEOREM TypeInvariant == Spec => []TypeInv
  BY TypeInit, TypeStep, PTL DEF Spec
-----------------------------------------------------------------------------
(* The tasks of loop l that are still to run, in their order. *)
Queue(l) == batch[l] \o tasks[l]

Pending(l) == Range(Queue(l))

RemovedIsClosed ==
  \A l \in Loop : \A t \in Pending(l) : t.op = "remove" => ~conn[t.conn].open

(* Until EstablishedInLoop nobody but NewConnection, and the timer, has    *)
(* heard of a connection.                                                  *)
FreshIsUnknown ==
  \A c \in Conn : Born(c) /\ conn[c].state = "CONNECTING" =>
    /\ conn[c].open /\ conn[c].events = {} /\ conn[c].in = 0 /\ conn[c].out = 0
    /\ c \notin shared
    /\ \A l \in Loop : \A t \in Pending(l) :
         t.conn = c => t.op \in {"enable", "established", "release"}
    /\ \A l \in Loop, f \in Fd : chan[l][f] # c
    /\ \A l \in Loop : \A a \in actives[l] \ {Listen, OnTimer} : a.chan # c

(* What is monitored of an established connection, as its channel has it. *)
EventsAgree ==
  \A c \in Conn : Established(c) =>
    "IN" \in conn[c].events /\ (conn[c].out > 0 <=> "OUT" \in conn[c].events)

(* ShutdownEnds, over the set of what is pending. *)
ClosingEnds ==
  \A c \in Conn, l \in Loop :
    Established(c) /\ conn[c].state = "DISCONNECTING" /\ conn[c].loop = l =>
      conn[c].out > 0 \/ Do("release", c) \in Pending(l)

LifeInv ==
  TypeInv /\ OpenIsKept /\ RemovedIsClosed /\ FreshIsUnknown /\ EventsAgree /\ ClosingEnds
-----------------------------------------------------------------------------
(* What a step may do to a connection c that exists: nothing, a handler's  *)
(* or a message's work, EstablishedInLoop, ReleaseInLoop, or the two tasks *)
(* of the timer.                                                           *)
Handled(c) ==
  /\ conn[c].state # "CONNECTING"
  /\ \E w \in WorkType :
       /\ Continues(Work(conn[c]), w) /\ conn'[c] = w.conn
       /\ Ends(Work(conn[c])) => Ends(w)
       /\ w.releases > 0 => Do("release", c) \in Range(tasks'[conn[c].loop])

Connected(c) ==
  /\ conn[c].state = "CONNECTING"
  /\ conn'[c] = [conn[c] EXCEPT !.state = "CONNECTED", !.events = @ \cup {"IN"}]

Released(c) ==
  \E b \in BOOLEAN :
    conn'[c] = [conn[c] EXCEPT !.state = "DISCONNECTED", !.open = FALSE, !.enabled = b]

Armed(c) == \E b \in BOOLEAN : conn'[c] = [conn[c] EXCEPT !.enabled = b]

Moves(c) ==
  UNCHANGED conn[c] \/ Handled(c) \/ Connected(c) \/ Released(c) \/ Armed(c)

(* Why a task is queued. *)
Reason(t) ==
  \/ t.op = "remove" /\ Alive(t.conn) /\ ~conn'[t.conn].open
  \/ t.op = "release" /\ (conn[t.conn].state # "CONNECTING" \/ HasTimer(t.conn))
  \/ /\ t.op = accepting.step /\ t.conn = accepting.conn
     /\ conn[t.conn].loop # Base /\ accepting' # accepting
  \/ t.op \in UserOps /\ t.conn \in shared

(* One task at a time, or several releases. *)
Reasons(s) ==
  /\ \A t \in Range(s) : Reason(t)
  /\ Len(s) <= 1 \/ \A t \in Range(s) : t.op = "release"

(* What a task or a handler of c does to what others see of it. *)
CoreStep(c) ==
  /\ Moves(c) /\ \A d \in Conn \ {c} : conn'[d] = conn[d]
  /\ conns' = conns \/ (conns' = conns \ {c} /\ ~conn'[c].open)
  /\ \/ shared' = shared
     \/ shared' = shared \cup {c} /\ Alive(c) /\ conn'[c].state # "CONNECTING"
  /\ \E l \in Loop, s \in Seq(Task) : Push(l, s) /\ Reasons(s)
  /\ \A l \in Loop, f \in Fd :
       \/ chan'[l][f] \in {chan[l][f], None}
       \/ chan'[l][f] = c /\ conn'[c].state # "CONNECTING"
-----------------------------------------------------------------------------
(* No task needs no reason. *)
LEMMA ReasonsOfNone == Reasons(<<>>)
  BY DEF Reasons, Range

(* One task with a reason. *)
LEMMA ReasonsOfOne ==
  ASSUME NEW t \in Task, Reason(t)
  PROVE  <<t>> \in Seq(Task) /\ Reasons(<<t>>)
<1>1. <<t>> \in Seq(Task) /\ Range(<<t>>) = {t} /\ Len(<<t>>) = 1
  BY DEF Range
<1> QED
  BY <1>1 DEF Reasons

(* A crash changes nothing else. *)
LEMMA CrashCore ==
  ASSUME TypeInv, NEW c \in Conn, Born(c), Crash
  PROVE  CoreStep(c)
<1>1. UNCHANGED <<conn, conns, shared, chan, tasks>>
  BY DEF Crash, connVars, pollVars
<1>2. tasks \in [Loop -> Seq(Task)] /\ Base \in Loop
  BY ServerAssumption DEF TypeInv, TypeOK, ServerTypes
<1>3. \E l \in Loop, s \in Seq(Task) : Push(l, s) /\ Reasons(s)
  BY <1>1, <1>2, PushNothing, ReasonsOfNone
<1> QED
  BY <1>1, <1>3 DEF CoreStep, Moves

(* What releases are queued as. *)
LEMMA ReleaseTimes ==
  ASSUME NEW c \in Conn, NEW n \in Nat
  PROVE  /\ Times(Do("release", c), n) \in Seq(Task)
         /\ \A t \in Range(Times(Do("release", c), n)) : t = Do("release", c) /\ n > 0
         /\ n > 0 => Do("release", c) \in Range(Times(Do("release", c), n))
<1>1. Do("release", c) \in Task
  BY DEF Do, Task
<1>2. n = 0 => Range(Times(Do("release", c), n)) = {}
  BY DEF Range, Times
<1> QED
  BY <1>1, <1>2, TimesSeq

(* Apply alone. *)
LEMMA ApplyCore ==
  ASSUME TypeInv, NEW c \in Conn, Born(c), NEW w \in WorkType, Apply(c, w),
         w.releases > 0 => conn[c].state # "CONNECTING"
  PROVE  /\ conn'[c] = w.conn /\ \A d \in Conn \ {c} : conn'[d] = conn[d]
         /\ \E l \in Loop, s \in Seq(Task) : Push(l, s) /\ Reasons(s)
         /\ w.releases > 0 => Do("release", c) \in Range(tasks'[conn[c].loop])
         /\ \A l \in Loop, f \in Fd : chan'[l][f] \in {chan[l][f], c}
<1> DEFINE l == conn[c].loop
           s == Times(Do("release", c), w.releases)
<1>1. l \in Loop /\ conn[c].fd \in Fd
  BY WorkOfBorn
<1>2. /\ conn' = [conn EXCEPT ![c] = w.conn] /\ Push(l, s)
      /\ UpdateEvent(l, c, w.conn.events) \/ UNCHANGED pollVars
  BY DEF Apply
<1>3. /\ conn \in [Conn -> Connection \cup {None}] /\ tasks \in [Loop -> Seq(Task)]
      /\ chan \in [Loop -> [Fd -> Conn \cup {None}]]
      /\ interest \in [Loop -> [Fd -> (SUBSET {"IN", "OUT"}) \cup {None}]]
  BY DEF TypeInv, TypeOK, ServerTypes
<1>4. w.releases \in Nat /\ w.conn.events \in SUBSET {"IN", "OUT"}
  BY DEF WorkType, Connection
<1> HIDE DEF l, s
<1>5. \A m \in Loop, g \in Fd : chan'[m][g] \in {chan[m][g], c}
  <2> DEFINE f == conn[c].fd
  <2>1. chan' = chan \/ chan' = [chan EXCEPT ![l] = [chan[l] EXCEPT ![f] = c]]
    BY <1>2 DEF UpdateEvent, pollVars
  <2>2. f \in Fd
    BY <1>1
  <2> HIDE DEF f
  <2> SUFFICES ASSUME NEW m \in Loop, NEW g \in Fd PROVE chan'[m][g] \in {chan[m][g], c}
    OBVIOUS
  <2>3. CASE chan' = [chan EXCEPT ![l] = [chan[l] EXCEPT ![f] = c]]
    <3>1. chan'[m] = IF m = l THEN [chan[l] EXCEPT ![f] = c] ELSE chan[m]
      BY <1>3, <2>3
    <3>2. [chan[l] EXCEPT ![f] = c][g] = IF g = f THEN c ELSE chan[l][g]
      BY <1>1, <1>3
    <3> QED
      BY <3>1, <3>2
  <2> QED
    BY <2>1, <2>3
<1>6. /\ s \in Seq(Task)
      /\ \A t \in Range(s) : t = Do("release", c) /\ w.releases > 0
      /\ w.releases > 0 => Do("release", c) \in Range(s)
  BY <1>4, ReleaseTimes DEF s
<1>7. Reasons(s)
  BY <1>6 DEF Reasons, Reason, Do
<1>8. tasks'[l] = tasks[l] \o s
  BY <1>1, <1>2, <1>3 DEF Push
<1>9. Range(tasks'[l]) = Range(tasks[l]) \cup Range(s)
  BY <1>1, <1>3, <1>6, <1>8, RangeConcat
<1>10. w.releases > 0 => Do("release", c) \in Range(tasks'[l])
  BY <1>6, <1>9
<1>11. \E m \in Loop, q \in Seq(Task) : Push(m, q) /\ Reasons(q)
  BY <1>1, <1>2, <1>6, <1>7
<1> QED
  BY <1>2, <1>3, <1>5, <1>10, <1>11 DEF l

(* A handler that continues its work makes such a step. *)
LEMMA HandlerCore ==
  ASSUME TypeInv, NEW c \in Conn, Born(c), conn[c].state # "CONNECTING", NEW w,
         Continues(Work(conn[c]), w), Ends(Work(conn[c])) => Ends(w), Apply(c, w),
         UNCHANGED <<conns, shared>>
  PROVE  CoreStep(c)
<1>1. w \in WorkType /\ w.conn.state # "CONNECTING"
  BY WorkOfBorn DEF Continues
<1>2. Handled(c)
  BY <1>1, ApplyCore DEF Handled
<1> QED
  BY <1>1, <1>2, ApplyCore DEF CoreStep, Moves

(* So does ReleaseInLoop. *)
LEMMA ReleaseCore ==
  ASSUME TypeInv, NEW c \in Conn, Born(c), Alive(c), ReleaseInLoop(c)
  PROVE  CoreStep(c)
<1> DEFINE l == conn[c].loop
           k == [conn[c] EXCEPT !.state = "DISCONNECTED", !.open = FALSE,
                                !.enabled = @ /\ ~HasTimer(c)]
<1>1. conn[c] \in Connection /\ l \in Loop /\ conn[c].fd \in Fd
  BY WorkOfBorn
<1>2. /\ conn \in [Conn -> Connection \cup {None}] /\ tasks \in [Loop -> Seq(Task)]
      /\ chan \in [Loop -> [Fd -> Conn \cup {None}]] /\ Base \in Loop
  BY ServerAssumption DEF TypeInv, TypeOK, ServerTypes
<1>3. conn' = [conn EXCEPT ![c] = k]
  BY DEF ReleaseInLoop
<1>4. /\ conn'[c] = k /\ \A d \in Conn \ {c} : conn'[d] = conn[d]
  BY <1>2, <1>3
<1>5. Released(c) /\ ~conn'[c].open
  <2>1. (conn[c].enabled /\ ~HasTimer(c)) \in BOOLEAN /\ k.open = FALSE
    BY <1>1 DEF Connection
  <2> QED
    BY <1>4, <2>1 DEF Released
<1>6. /\ conns' \in {conns, conns \ {c}} /\ shared' = shared
      /\ chan' = [chan EXCEPT ![l] = [chan[l] EXCEPT ![conn[c].fd] = None]]
      /\ UNCHANGED tasks \/ Push(Base, <<Do("remove", c)>>)
  BY DEF ReleaseInLoop, EraseConnection, RemoveAndClose
<1>7. \A m \in Loop, g \in Fd : chan'[m][g] \in {chan[m][g], None}
  BY <1>1, <1>2, <1>6
<1>8. \E m \in Loop, s \in Seq(Task) : Push(m, s) /\ Reasons(s)
  <2>1. Do("remove", c) \in Task /\ Reason(Do("remove", c))
    BY <1>5 DEF Do, Task, Reason
  <2>2. <<Do("remove", c)>> \in Seq(Task) /\ Reasons(<<Do("remove", c)>>)
    BY <2>1, ReasonsOfOne
  <2> QED
    BY <1>2, <1>6, <2>2, PushNothing, ReasonsOfNone
<1> QED
  BY <1>4, <1>5, <1>6, <1>7, <1>8 DEF CoreStep, Moves

(* So do the two tasks about the timer. *)
LEMMA TimerTaskCore ==
  ASSUME TypeInv, NEW c \in Conn, Born(c),
         EnableInactiveReleaseInLoop(c) \/ CancelInactiveReleaseInLoop(c)
  PROVE  CoreStep(c)
<1>1. PICK b \in BOOLEAN : conn' = [conn EXCEPT ![c] = [conn[c] EXCEPT !.enabled = b]]
  BY DEF EnableInactiveReleaseInLoop, CancelInactiveReleaseInLoop
<1>2. UNCHANGED <<conns, shared, chan, tasks>>
  BY DEF EnableInactiveReleaseInLoop, CancelInactiveReleaseInLoop, pollVars
<1>3. /\ conn \in [Conn -> Connection \cup {None}] /\ tasks \in [Loop -> Seq(Task)]
      /\ Base \in Loop
  BY ServerAssumption DEF TypeInv, TypeOK, ServerTypes
<1>4. Armed(c) /\ \A d \in Conn \ {c} : conn'[d] = conn[d]
  BY <1>1, <1>3 DEF Armed
<1>5. \E m \in Loop, s \in Seq(Task) : Push(m, s) /\ Reasons(s)
  BY <1>2, <1>3, PushNothing, ReasonsOfNone
<1> QED
  BY <1>2, <1>4, <1>5 DEF CoreStep, Moves

(* A task of the loop's queue, or NewConnection's call in place. *)
LEMMA ExecuteCore ==
  ASSUME TypeInv, NEW t \in Task, Born(t.conn), Execute(t),
         t.op = "remove" => ~conn[t.conn].open,
         t.op \in {"send", "shutdown"} => conn[t.conn].state # "CONNECTING"
  PROVE  CoreStep(t.conn)
<1> DEFINE c == t.conn
<1>1. c \in Conn /\ Born(c)
  BY DEF Task
<1>2. /\ Work(conn[c]) \in WorkType /\ conn[c] \in Connection
      /\ Work(conn[c]).conn = conn[c]
  BY <1>1, WorkOfBorn
<1>3. \/ Crash
      \/ Alive(c) /\ t.op = "established" /\ EstablishedInLoop(c)
      \/ Alive(c) /\ t.op = "release" /\ ReleaseInLoop(c)
      \/ ~conn[c].open /\ RemoveConnectionInLoop(c)
      \/ conn[c].state # "CONNECTING" /\ Effect(c, {SendInLoop(Work(conn[c]))})
      \/ conn[c].state # "CONNECTING" /\ Effect(c, ShutdownInLoop(Work(conn[c])))
      \/ EnableInactiveReleaseInLoop(c) \/ CancelInactiveReleaseInLoop(c)
  BY DEF Execute
<1> SUFFICES CoreStep(c)
  OBVIOUS
<1> HIDE DEF c
<1>4. CASE Crash
  BY <1>1, <1>4, CrashCore
<1>5. CASE Alive(c) /\ EstablishedInLoop(c)
  <2>1. CASE conn[c].state # "CONNECTING"
    BY <1>1, <1>5, <2>1, CrashCore DEF EstablishedInLoop
  <2>2. CASE conn[c].state = "CONNECTING"
    <3>1. /\ Apply(c, Opened(c)) /\ shared' \in {shared, shared \cup {c}}
          /\ UNCHANGED conns
      BY <1>5, <2>2 DEF EstablishedInLoop, Opened
    <3>2. /\ Opened(c) \in WorkType /\ Opened(c).releases = 0
          /\ Opened(c).conn = [conn[c] EXCEPT !.state = "CONNECTED", !.events = @ \cup {"IN"}]
      BY <1>1, OpenedWork
    <3>3. Connected(c) /\ conn'[c].state # "CONNECTING"
      <4>1. conn'[c] = [conn[c] EXCEPT !.state = "CONNECTED", !.events = @ \cup {"IN"}]
        BY <1>1, <3>1, <3>2, ApplyCore
      <4>2. conn'[c].state = "CONNECTED"
        BY <1>2, <4>1 DEF Connection
      <4> QED
        BY <2>2, <4>1, <4>2 DEF Connected
    <3> QED
      BY <1>1, <1>5, <3>1, <3>2, <3>3, ApplyCore DEF CoreStep, Moves
  <2> QED
    BY <2>1, <2>2
<1>6. CASE Alive(c) /\ ReleaseInLoop(c)
  BY <1>1, <1>6, ReleaseCore
<1>7. CASE ~conn[c].open /\ RemoveConnectionInLoop(c)
  <2>1. /\ conns' \in {conns, conns \ {c}} /\ Base \in Loop
        /\ UNCHANGED <<conn, shared, chan, tasks>>
    BY <1>7, ServerAssumption DEF RemoveConnectionInLoop, EraseConnection, pollVars
  <2>2. tasks \in [Loop -> Seq(Task)]
    BY DEF TypeInv, TypeOK, ServerTypes
  <2>3. \E l \in Loop, s \in Seq(Task) : Push(l, s) /\ Reasons(s)
    BY <2>1, <2>2, PushNothing, ReasonsOfNone
  <2> QED
    BY <1>7, <2>1, <2>3 DEF CoreStep, Moves
<1>8. CASE conn[c].state # "CONNECTING" /\ Effect(c, {SendInLoop(Work(conn[c]))})
  <2>1. Apply(c, SendInLoop(Work(conn[c]))) /\ UNCHANGED <<conns, shared>>
    BY <1>8 DEF Effect
  <2> QED
    BY <1>1, <1>2, <1>8, <2>1, SendInLoopWorks, HandlerCore
<1>9. CASE conn[c].state # "CONNECTING" /\ Effect(c, ShutdownInLoop(Work(conn[c])))
  <2>1. PICK w \in ShutdownInLoop(Work(conn[c])) : Apply(c, w)
    BY <1>9 DEF Effect
  <2>2. UNCHANGED <<conns, shared>>
    BY <1>9 DEF Effect
  <2> QED
    BY <1>1, <1>2, <1>9, <2>1, <2>2, ShutdownInLoopWorks, HandlerCore
<1>10. CASE EnableInactiveReleaseInLoop(c) \/ CancelInactiveReleaseInLoop(c)
  BY <1>1, <1>10, TimerTaskCore
<1> QED
  BY <1>3, <1>4, <1>5, <1>6, <1>7, <1>8, <1>9, <1>10
-----------------------------------------------------------------------------
(* What a step may do to what there is. *)
Comes(c) ==
  /\ accepting.conn = None /\ accepting'.conn = c
  /\ \E f \in Fd, l \in Loop : Owners(f) = {} /\ conn'[c] = NewConn(f, l)

QueueMoves(l) ==
  \E s \in Seq(Task) :
    /\ Reasons(s)
    /\ \/ ~RunTask(l) /\ Queue(l)' = Queue(l) \o s
       \/ RunTask(l) /\ Queue(l)' = Tail(Queue(l)) \o s

KeepMoves ==
  /\ \A c \in conns' : c \in conns \/ accepting.conn = c
  /\ \A c \in conns : c \in conns' \/ ~conn'[c].open
  /\ accepting.conn # None => accepting'.conn = accepting.conn \/ accepting.conn \in conns'
  /\ accepting'.conn # None => accepting'.conn = accepting.conn \/ ~Born(accepting'.conn)
  /\ \A c \in shared' : c \in shared \/ (Alive(c) /\ conn'[c].state # "CONNECTING")
  /\ \A l \in Loop : \A c \in held'[l] : c \in held[l] \/ Do("remove", c) \in Pending(l)

ChannelMoves ==
  /\ \A l \in Loop, f \in Fd :
       \/ chan'[l][f] \in {chan[l][f], None}
       \/ conn'[chan'[l][f]].state # "CONNECTING"
  /\ \A l \in Loop : \A a \in actives'[l] \ {Listen, OnTimer} :
       a \in actives[l] \/ \E f \in Fd : chan[l][f] = a.chan

ServerStep ==
  /\ \A c \in Conn : IF Born(c) THEN Moves(c) ELSE UNCHANGED conn[c] \/ Comes(c)
  /\ \A l \in Loop : QueueMoves(l)
  /\ KeepMoves /\ ChannelMoves
-----------------------------------------------------------------------------
(* The head of two sequences together is the head of the first. *)
LEMMA ConcatTail ==
  ASSUME NEW S, NEW f \in Seq(S), NEW q \in Seq(S), f # <<>>
  PROVE  /\ f \o q # <<>>
         /\ Head(f \o q) = Head(f)
         /\ Tail(f \o q) = Tail(f) \o q
<1>1. Tail(f \o q) \in Seq(S) /\ Tail(f) \o q \in Seq(S)
  OBVIOUS
<1>2. Len(Tail(f \o q)) = Len(Tail(f) \o q)
  OBVIOUS
<1>3. ASSUME NEW i \in 1 .. Len(Tail(f \o q))
      PROVE  Tail(f \o q)[i] = (Tail(f) \o q)[i]
  OBVIOUS
<1>4. Tail(f \o q) = Tail(f) \o q
  BY <1>1, <1>2, <1>3, SeqEqual
<1>5. f \o q # <<>> /\ Head(f \o q) = Head(f)
  OBVIOUS
<1> QED
  BY <1>4, <1>5

(* Queues are joined in any order. *)
LEMMA ConcatAssoc ==
  ASSUME NEW f \in Seq(Task), NEW q \in Seq(Task), NEW s \in Seq(Task)
  PROVE  f \o (q \o s) = (f \o q) \o s
<1>1. f \o (q \o s) \in Seq(Task) /\ (f \o q) \o s \in Seq(Task)
  OBVIOUS
<1>2. Len(f \o (q \o s)) = Len((f \o q) \o s)
  OBVIOUS
<1>3. ASSUME NEW i \in 1 .. Len(f \o (q \o s))
      PROVE  (f \o (q \o s))[i] = ((f \o q) \o s)[i]
  OBVIOUS
<1> QED
  BY <1>1, <1>2, <1>3, SeqEqual

(* What is pending on a loop is in its batch or its pool. *)
LEMMA QueueType ==
  ASSUME TypeInv, NEW l \in Loop
  PROVE  /\ batch[l] \in Seq(Task) /\ tasks[l] \in Seq(Task) /\ Queue(l) \in Seq(Task)
         /\ Pending(l) = Range(batch[l]) \cup Range(tasks[l])
         /\ Pending(l) \subseteq Task
<1>1. batch[l] \in Seq(Task) /\ tasks[l] \in Seq(Task)
  BY DEF TypeInv, TypeOK, ServerTypes, LoopTypes
<1>2. Queue(l) \in Seq(Task) /\ Pending(l) = Range(batch[l]) \cup Range(tasks[l])
  BY <1>1, RangeConcat DEF Queue, Pending
<1>3. \A q \in Seq(Task) : Range(q) \subseteq Task
  BY DEF Range
<1> QED
  BY <1>1, <1>2, <1>3 DEF Pending

(* A loop that runs a task takes it from its batch. *)
LEMMA NoneIsRun ==
  ASSUME TypeInv, NEW l \in Loop, batch'[l] = batch[l]
  PROVE  ~RunTask(l)
<1> SUFFICES ASSUME RunTask(l) PROVE FALSE
  OBVIOUS
<1>1. /\ batch[l] # <<>> /\ batch \in [Loop -> Seq(Task)] /\ batch[l] \in Seq(Task)
      /\ batch' = [batch EXCEPT ![l] = Tail(batch[l])]
  BY DEF RunTask, TypeInv, TypeOK, LoopTypes
<1>2. Tail(batch[l]) = batch[l]
  BY <1>1
<1>3. \A q \in Seq(Task) : q # <<>> => Tail(q) # q
  <2> SUFFICES ASSUME NEW q \in Seq(Task), q # <<>> PROVE Tail(q) # q
    OBVIOUS
  <2>1. Len(Tail(q)) = Len(q) - 1 /\ Len(q) \in Nat
    BY HeadTailProperties
  <2> DEFINE m == Len(Tail(q))
             n == Len(q)
  <2>2. m = n - 1 /\ n \in Nat
    BY <2>1
  <2>3. Tail(q) = q => m = n
    BY Zenon
  <2> HIDE DEF m, n
  <2> QED
    BY <2>2, <2>3
<1> QED
  BY <1>1, <1>2, <1>3

(* Nothing is queued. *)
LEMMA QueueStays ==
  ASSUME TypeInv, UNCHANGED <<tasks, batch>>
  PROVE  \A l \in Loop : QueueMoves(l)
<1> SUFFICES ASSUME NEW l \in Loop PROVE QueueMoves(l)
  OBVIOUS
<1>1. Queue(l)' = Queue(l)
  BY DEF Queue
<1>2. Queue(l) \o <<>> = Queue(l)
  BY QueueType, EmptyConcat
<1>3. <<>> \in Seq(Task) /\ Reasons(<<>>) /\ ~RunTask(l)
  BY ReasonsOfNone, NoneIsRun
<1> QED
  BY <1>1, <1>2, <1>3 DEF QueueMoves

(* Something may be queued, on one loop. *)
LEMMA QueueGrows ==
  ASSUME TypeInv, UNCHANGED batch,
         \E k \in Loop, s \in Seq(Task) : Push(k, s) /\ Reasons(s)
  PROVE  \A l \in Loop : QueueMoves(l)
<1> SUFFICES ASSUME NEW l \in Loop PROVE QueueMoves(l)
  OBVIOUS
<1>1. PICK k \in Loop, s \in Seq(Task) : Push(k, s) /\ Reasons(s)
  OBVIOUS
<1>2. tasks \in [Loop -> Seq(Task)]
  BY DEF TypeInv, TypeOK, ServerTypes
<1>3. batch[l] \in Seq(Task) /\ tasks[l] \in Seq(Task) /\ ~RunTask(l)
  BY QueueType, NoneIsRun
<1>4. CASE l = k
  <2>1. tasks'[l] = tasks[l] \o s
    BY <1>1, <1>2, <1>4 DEF Push
  <2>2. batch[l] \o (tasks[l] \o s) = (batch[l] \o tasks[l]) \o s
    BY <1>3, ConcatAssoc
  <2>3. Queue(l)' = Queue(l) \o s
    BY <2>1, <2>2 DEF Queue
  <2> QED
    BY <1>1, <1>3, <2>3 DEF QueueMoves
<1>5. CASE l # k
  <2>1. tasks'[l] = tasks[l]
    BY <1>1, <1>2, <1>5 DEF Push
  <2>2. Queue(l)' = Queue(l) \o <<>>
    BY <2>1, QueueType, EmptyConcat DEF Queue
  <2>3. <<>> \in Seq(Task) /\ Reasons(<<>>)
    BY ReasonsOfNone
  <2> QED
    BY <1>3, <2>2, <2>3 DEF QueueMoves
<1> QED
  BY <1>4, <1>5

(* A task is run: the first of the loop's queue. *)
LEMMA QueueRuns ==
  ASSUME TypeInv, NEW r \in Loop, RunTask(r),
         \E k \in Loop, s \in Seq(Task) : Push(k, s) /\ Reasons(s)
  PROVE  /\ Queue(r) # <<>> /\ Head(Queue(r)) = Head(batch[r])
         /\ \A l \in Loop : QueueMoves(l)
<1>1. /\ batch[r] # <<>> /\ batch \in [Loop -> Seq(Task)]
      /\ batch' = [batch EXCEPT ![r] = Tail(batch[r])]
  BY DEF RunTask, TypeInv, TypeOK, LoopTypes
<1>2. Tail(batch[r]) \in Seq(Task) /\ \A l \in Loop : batch'[l] \in Seq(Task)
  BY <1>1, RangeHeadTail
<1>3. /\ Queue(r) # <<>> /\ Head(Queue(r)) = Head(batch[r])
      /\ Tail(Queue(r)) = Tail(batch[r]) \o tasks[r]
  BY <1>1, QueueType, ConcatTail DEF Queue
<1>4. PICK k \in Loop, s \in Seq(Task) : Push(k, s) /\ Reasons(s)
  OBVIOUS
<1>5. tasks \in [Loop -> Seq(Task)]
  BY DEF TypeInv, TypeOK, ServerTypes
<1>6. \A l \in Loop : \E q \in Seq(Task) :
        Reasons(q) /\ tasks'[l] = tasks[l] \o q
  <2>1. <<>> \in Seq(Task) /\ Reasons(<<>>)
    BY ReasonsOfNone
  <2>2. \A l \in Loop : tasks[l] \o <<>> = tasks[l]
    BY <1>5, EmptyConcat
  <2>3. \A l \in Loop : tasks'[l] = IF l = k THEN tasks[l] \o s ELSE tasks[l]
    BY <1>4, <1>5 DEF Push
  <2> QED
    BY <1>4, <2>1, <2>2, <2>3
<1>7. ASSUME NEW l \in Loop PROVE QueueMoves(l)
  <2>1. PICK q \in Seq(Task) :
          Reasons(q) /\ tasks'[l] = tasks[l] \o q
    BY <1>6
  <2>2. Queue(l)' = (batch'[l] \o tasks[l]) \o q
    <3>1. batch'[l] \in Seq(Task) /\ tasks[l] \in Seq(Task)
      BY <1>2, <1>5
    <3> DEFINE pool == tasks[l]
    <3>2. pool \in Seq(Task)
      BY <3>1
    <3> HIDE DEF pool
    <3>3. \A f \in Seq(Task) : f \o (pool \o q) = (f \o pool) \o q
      BY <3>2, ConcatAssoc
    <3>4. \A f \in Seq(Task) : f \o (tasks[l] \o q) = (f \o tasks[l]) \o q
      BY <3>3 DEF pool
    <3>5. batch'[l] \o (tasks[l] \o q) = (batch'[l] \o tasks[l]) \o q
      BY <3>1, <3>4
    <3> QED
      BY <2>1, <3>5 DEF Queue
  <2>3. CASE l = r
    <3>1. batch'[l] \o tasks[l] = Tail(Queue(l))
      BY <1>1, <1>3, <2>3
    <3> QED
      BY <2>1, <2>2, <2>3, <3>1 DEF QueueMoves
  <2>4. CASE l # r
    <3>1. batch'[l] \o tasks[l] = Queue(l) /\ ~RunTask(l)
      BY <1>1, <2>4, NoneIsRun DEF Queue
    <3> QED
      BY <2>1, <2>2, <3>1 DEF QueueMoves
  <2> QED
    BY <2>3, <2>4
<1> QED
  BY <1>3, <1>7

(* The tasks become the batch: the queue is the same. *)
LEMMA QueueSwaps ==
  ASSUME TypeInv, NEW r \in Loop, SwapTasks(r)
  PROVE  \A l \in Loop : QueueMoves(l)
<1> SUFFICES ASSUME NEW l \in Loop PROVE QueueMoves(l)
  OBVIOUS
<1>1. /\ batch[r] = <<>> /\ batch' = [batch EXCEPT ![r] = tasks[r]]
      /\ tasks' = [tasks EXCEPT ![r] = <<>>]
      /\ batch \in [Loop -> Seq(Task)] /\ tasks \in [Loop -> Seq(Task)]
  BY DEF SwapTasks, TypeInv, TypeOK, ServerTypes, LoopTypes, Phases
<1>2. Queue(l)' = Queue(l)
  <2>1. CASE l = r
    <3>1. batch'[l] = tasks[r] /\ tasks'[l] = <<>>
      BY <1>1, <2>1
    <3>2. tasks[r] \o <<>> = tasks[r] /\ <<>> \o tasks[r] = tasks[r]
      BY <1>1
    <3> QED
      BY <1>1, <2>1, <3>1, <3>2 DEF Queue
  <2>2. CASE l # r
    BY <1>1, <2>2 DEF Queue
  <2> QED
    BY <2>1, <2>2
<1>3. Queue(l) \o <<>> = Queue(l)
  BY QueueType, EmptyConcat
<1>4. <<>> \in Seq(Task) /\ Reasons(<<>>)
  BY ReasonsOfNone
<1>5. ~RunTask(l)
  BY <1>1, NoneIsRun DEF RunTask
<1> QED
  BY <1>2, <1>3, <1>4, <1>5 DEF QueueMoves
-----------------------------------------------------------------------------
(* A task or a handler of one connection. *)
LEMMA CoreServer ==
  ASSUME TypeInv, NEW c \in Conn, Born(c), CoreStep(c), accepting'.conn = accepting.conn,
         \A l \in Loop : QueueMoves(l) /\ actives'[l] \subseteq actives[l],
         \A l \in Loop : \A d \in held'[l] : d \in held[l] \/ Do("remove", d) \in Pending(l)
  PROVE  ServerStep
<1>1. \A d \in Conn : IF Born(d) THEN Moves(d) ELSE UNCHANGED conn[d] \/ Comes(d)
  <2>1. Moves(c) /\ \A d \in Conn \ {c} : conn'[d] = conn[d]
    BY DEF CoreStep
  <2> QED
    BY <2>1 DEF Moves
<1>2. KeepMoves
  BY DEF CoreStep, KeepMoves
<1>3. ChannelMoves
  <2>1. \A l \in Loop, f \in Fd :
          \/ chan'[l][f] \in {chan[l][f], None}
          \/ conn'[chan'[l][f]].state # "CONNECTING"
    BY DEF CoreStep
  <2> QED
    BY <2>1 DEF ChannelMoves, Listen, OnTimer
<1> QED
  BY <1>1, <1>2, <1>3 DEF ServerStep

(* No connection is worked on. *)
LEMMA IdleServer ==
  ASSUME TypeInv, UNCHANGED <<conn, conns, chan>>, shared' \subseteq shared,
         accepting'.conn = accepting.conn,
         \A l \in Loop : QueueMoves(l) /\ held'[l] \subseteq held[l],
         \A l \in Loop : \A a \in actives'[l] \ {Listen, OnTimer} :
           a \in actives[l] \/ \E f \in Fd : chan[l][f] = a.chan
  PROVE  ServerStep
<1>1. \A d \in Conn : IF Born(d) THEN Moves(d) ELSE UNCHANGED conn[d] \/ Comes(d)
  BY DEF Moves
<1>2. KeepMoves
  BY DEF KeepMoves
<1>3. ChannelMoves
  BY DEF ChannelMoves, Listen, OnTimer
<1> QED
  BY <1>1, <1>2, <1>3 DEF ServerStep

(* The timers that run out, each with its release. *)
LEMMA OnTimeQueues ==
  ASSUME TypeInv, NEW l \in Loop, OnTime(l)
  PROVE  /\ UNCHANGED <<conn, conns, shared, chan, accepting, batch, held>>
         /\ actives' = [actives EXCEPT ![l] = @ \ {OnTimer}]
         /\ \E s \in Seq(Task) :
              /\ Push(l, s)
              /\ \A t \in Range(s) : \E d \in Conn :
                   /\ t = Do("release", d) /\ conn[d].loop = l
                   /\ HasTimer(d) /\ d \notin cancelled
<1> DEFINE over == {c \in Conn : HasTimer(c) /\ conn[c].loop = l /\ timer[c] = 1}
<1>1. ServerTypes /\ ServerRefs
  BY DEF TypeInv, TypeOK
<1>2. /\ UNCHANGED <<conn, conns, shared, chan, accepting, batch, held>>
      /\ actives' = [actives EXCEPT ![l] = @ \ {OnTimer}]
  BY DEF OnTime, Crash, connVars, pollVars
<1>3. CASE Crash
  <2>1. tasks \in [Loop -> Seq(Task)] /\ UNCHANGED tasks
    BY <1>1, <1>3 DEF Crash, ServerTypes
  <2>2. Push(l, <<>>) /\ <<>> \in Seq(Task) /\ Range(<<>>) = {}
    BY <2>1, PushNothing
  <2> QED
    BY <1>2, <2>2
<1>4. CASE \E s \in SetToSeqs(over \ cancelled) :
             Push(l, [i \in DOMAIN s |-> Do("release", s[i])])
  <2>1. PICK s \in SetToSeqs(over \ cancelled) :
               Push(l, [i \in DOMAIN s |-> Do("release", s[i])])
    BY <1>4
  <2>2. IsFiniteSet(over \ cancelled)
    <3>1. over \ cancelled \in SUBSET {c \in Conn : Born(c)}
      BY <1>1 DEF ServerRefs
    <3> QED
      BY <1>1, <3>1, FS_Subset DEF ServerRefs
  <2>3. s \in Seq(over \ cancelled) /\ DOMAIN s = 1 .. Len(s)
    BY <2>2, SetToSeqsRange
  <2> DEFINE q == [i \in DOMAIN s |-> Do("release", s[i])]
  <2>4. \A i \in DOMAIN s : s[i] \in over \ cancelled
    BY <2>3
  <2>5. \A i \in DOMAIN s : Do("release", s[i]) \in Task
    BY <2>4 DEF Do, Task
  <2>6. q \in Seq(Task) /\ Push(l, q)
    BY <2>1, <2>3, <2>5
  <2>7. ASSUME NEW t \in Range(q)
        PROVE  \E d \in Conn : /\ t = Do("release", d) /\ conn[d].loop = l
                              /\ HasTimer(d) /\ d \notin cancelled
    <3>1. PICK i \in DOMAIN s : t = Do("release", s[i])
      BY DEF Range
    <3> QED
      BY <2>4, <3>1
  <2> QED
    BY <1>2, <2>6, <2>7
<1> QED
  BY <1>3, <1>4 DEF OnTime

(* Every step of the server is one of those. *)
LEMMA ServerSteps ==
  ASSUME LifeInv, [Next]_vars
  PROVE  ServerStep
<1>1. TypeInv /\ ServerTypes /\ LoopTypes /\ ServerRefs /\ LoopRefs /\ Base \in Loop
  BY ServerAssumption DEF LifeInv, TypeInv, TypeOK
<1>2. \A l \in Loop : actives[l] \subseteq {Listen, OnTimer} \cup Active
  BY <1>1 DEF LoopTypes
<1>3. ASSUME NEW l \in Loop, Poll(l) PROVE ServerStep
  <2>1. /\ UNCHANGED <<conn, conns, shared, accepting, tasks, batch, held, chan>>
        /\ \/ UNCHANGED actives
           \/ actives' = [actives EXCEPT ![l] = Ready(l)]
    BY <1>3 DEF Poll, connVars, pollVars
  <2>2. \A k \in Loop : QueueMoves(k)
    BY <1>1, <2>1, QueueStays
  <2>3. \A a \in Ready(l) \ {Listen, OnTimer} : \E f \in Fd : chan[l][f] = a.chan
    <3> SUFFICES ASSUME NEW a \in Ready(l), a # Listen, a # OnTimer
                 PROVE  \E f \in Fd : chan[l][f] = a.chan
      OBVIOUS
    <3>1. PICK fr \in ReadyFds(l) : a = [chan |-> chan[l][fr[1]], revents |-> fr[2]]
      BY DEF Ready
    <3>2. fr[1] \in Fd /\ a.chan = chan[l][fr[1]]
      BY <3>1 DEF ReadyFds
    <3> QED
      BY <3>2
  <2>4. \A k \in Loop : \A a \in actives'[k] \ {Listen, OnTimer} :
          a \in actives[k] \/ \E f \in Fd : chan[k][f] = a.chan
    BY <1>1, <2>1, <2>3 DEF LoopTypes
  <2> QED
    BY <1>1, <2>1, <2>2, <2>4, IdleServer
<1>4. ASSUME NEW l \in Loop, NEW a \in actives[l], HandleChannel(l, a) PROVE ServerStep
  <2> DEFINE c == a.chan
  <2>1. a \in actives[l] \ {Listen, OnTimer} /\ a \in Active
    BY <1>2, <1>4 DEF HandleChannel
  <2>2. c \in Conn /\ Born(c) /\ conn[c].state # "CONNECTING"
    BY <1>1, <2>1 DEF Active, LoopRefs, LifeInv, FreshIsUnknown
  <2>3. /\ UNCHANGED <<accepting, batch, held>>
        /\ actives' = [actives EXCEPT ![l] = @ \ {a}]
    BY <1>4 DEF HandleChannel
  <2> HIDE DEF c
  <2>4. CoreStep(c)
    <3>1. CASE Crash
      BY <1>1, <2>2, <3>1, CrashCore
    <3>2. CASE /\ \E w \in HandleEvent(Work(conn[c]), a.revents, Received(l, c), Broken(c)) :
                    Apply(c, w)
               /\ UNCHANGED <<conns, shared>>
      <4>1. PICK w \in HandleEvent(Work(conn[c]), a.revents, Received(l, c), Broken(c)) :
                 Apply(c, w)
        BY <3>2
      <4>2. Received(l, c) \in Nat \cup {-1}
        BY <1>1, <2>2 DEF Received, LoopTypes
      <4>3. Continues(Work(conn[c]), w) /\ (Ends(Work(conn[c])) => Ends(w))
        BY <1>1, <2>2, <4>2, WorkOfBorn, HandleEventWorks
      <4> QED
        BY <1>1, <2>2, <3>2, <4>1, <4>3, HandlerCore
    <3> QED
      BY <1>4, <3>1, <3>2 DEF HandleChannel, c
  <2>5. \A k \in Loop : QueueMoves(k) /\ actives'[k] \subseteq actives[k]
    <3>1. \E m \in Loop, s \in Seq(Task) : Push(m, s) /\ Reasons(s)
      BY <2>4 DEF CoreStep
    <3>2. \A k \in Loop : actives'[k] \subseteq actives[k]
      BY <1>1, <2>3 DEF LoopTypes
    <3> QED
      BY <1>1, <2>3, <3>1, <3>2, QueueGrows
  <2> QED
    BY <1>1, <2>2, <2>3, <2>4, <2>5, CoreServer
<1>5. ASSUME NEW l \in Loop, OnTime(l) PROVE ServerStep
  <2>1. /\ UNCHANGED <<conn, conns, shared, chan, accepting, batch, held>>
        /\ actives' = [actives EXCEPT ![l] = @ \ {OnTimer}]
        /\ \E s \in Seq(Task) : Push(l, s) /\ Reasons(s)
    <3>1. PICK s \in Seq(Task) :
            /\ Push(l, s)
            /\ \A t \in Range(s) : \E d \in Conn :
                 /\ t = Do("release", d) /\ conn[d].loop = l
                 /\ HasTimer(d) /\ d \notin cancelled
      BY <1>1, <1>5, OnTimeQueues
    <3>2. Reasons(s)
      BY <3>1 DEF Reasons, Reason, Do
    <3> QED
      BY <1>1, <1>5, <3>1, <3>2, OnTimeQueues
  <2>2. \A k \in Loop : QueueMoves(k)
    BY <1>1, <2>1, QueueGrows
  <2>3. \A k \in Loop : actives'[k] \subseteq actives[k]
    BY <1>1, <2>1 DEF LoopTypes
  <2> QED
    BY <1>1, <2>1, <2>2, <2>3, IdleServer
<1>6. CASE Accept
  <2>1. /\ UNCHANGED <<conns, shared, tasks, batch, held, chan>>
        /\ actives' = [actives EXCEPT ![Base] = @ \ {Listen}]
        /\ accepting.conn = None
    BY <1>6 DEF Accept, pollVars, OnThread
  <2>2. \A k \in Loop : QueueMoves(k) /\ actives'[k] \subseteq actives[k]
    BY <1>1, <2>1, QueueStays DEF LoopTypes
  <2>3. CASE UNCHANGED <<conn, accepting>>
    BY <1>1, <2>1, <2>2, <2>3, IdleServer
  <2>4. CASE \E c \in Backlog, f \in {f \in Fd : Owners(f) = {}}, l \in workers :
               conn' = [conn EXCEPT ![c] = NewConn(f, l)] /\ accepting'.conn = c
    <3>1. PICK c \in Backlog, f \in Fd, l \in workers :
               /\ Owners(f) = {}
               /\ conn' = [conn EXCEPT ![c] = NewConn(f, l)] /\ accepting'.conn = c
      BY <2>4
    <3>2. c \in Conn /\ ~Born(c) /\ l \in Loop
      BY <1>1 DEF Backlog, ServerTypes
    <3>3. conn'[c] = NewConn(f, l) /\ \A d \in Conn \ {c} : conn'[d] = conn[d]
      BY <1>1, <3>1, <3>2 DEF ServerTypes
    <3>4. \A d \in Conn : IF Born(d) THEN Moves(d) ELSE UNCHANGED conn[d] \/ Comes(d)
      BY <2>1, <3>1, <3>2, <3>3 DEF Moves, Comes
    <3>5. KeepMoves
      BY <2>1, <3>1, <3>2 DEF KeepMoves
    <3>6. ChannelMoves
      BY <2>1, <2>2 DEF ChannelMoves, Listen, OnTimer
    <3> QED
      BY <2>2, <3>4, <3>5, <3>6 DEF ServerStep
  <2> QED
    BY <1>6, <2>3, <2>4 DEF Accept
<1>7. ASSUME NEW step \in {"enable", "established"},
             NEW next \in {"established", "insert", "misfile"},
             step # next, NewConnectionCall(step, next)
      PROVE  ServerStep
  <2> DEFINE c == accepting.conn
             t == Do(step, c)
  <2>1. /\ c \in Conn /\ Born(c) /\ t \in Task /\ t.conn = c /\ t.op = step
        /\ t.op \in {"enable", "established"} /\ accepting.step = step
    BY <1>1, <1>7 DEF NewConnectionCall, LoopTypes, LoopRefs, Do, Task
  <2>2. /\ UNCHANGED <<batch, held, actives>>
        /\ accepting' = [accepting EXCEPT !.step = next]
        /\ RunInLoop(Base, t)
    BY <1>7 DEF NewConnectionCall
  <2>3. accepting'.conn = c
    BY <1>1, <2>2 DEF LoopTypes
  <2>4. conn[c].loop # Base => Reason(t)
    <3>1. accepting'.step = next
      BY <1>1, <2>2 DEF LoopTypes
    <3> QED
      BY <1>7, <2>1, <3>1 DEF Reason
  <2> HIDE DEF t
  <2>5. CASE Execute(t)
    <3>1. CoreStep(c)
      BY <1>1, <2>1, <2>5, ExecuteCore
    <3>2. \A k \in Loop : QueueMoves(k)
      <4>1. \E m \in Loop, s \in Seq(Task) : Push(m, s) /\ Reasons(s)
        BY <3>1 DEF CoreStep
      <4> QED
        BY <1>1, <2>2, <4>1, QueueGrows
    <3> QED
      BY <1>1, <2>1, <2>2, <2>3, <3>1, <3>2, CoreServer
  <2>6. CASE /\ Push(conn[t.conn].loop, <<t>>) /\ conn[t.conn].loop # Base
             /\ UNCHANGED <<connVars, pollVars, timerVars, crashed>>
    <3>1. <<t>> \in Seq(Task) /\ Reasons(<<t>>) /\ conn[t.conn].loop \in Loop
      BY <1>1, <2>1, <2>4, <2>6, WorkOfBorn, ReasonsOfOne
    <3>2. \A k \in Loop : QueueMoves(k)
      BY <1>1, <2>2, <2>6, <3>1, QueueGrows
    <3>3. UNCHANGED <<conn, conns, shared, chan>>
      BY <2>6 DEF connVars, pollVars
    <3> QED
      BY <1>1, <2>2, <2>3, <3>2, <3>3, IdleServer
  <2> QED
    BY <2>2, <2>5, <2>6 DEF RunInLoop
<1>8. CASE InsertConnection
  <2> DEFINE c == accepting.conn
  <2>1. /\ c \in Conn /\ Born(c) /\ conns' = conns \cup {c} /\ accepting'.conn = None
        /\ UNCHANGED <<conn, shared, tasks, batch, held, actives, chan>>
    BY <1>1, <1>8 DEF InsertConnection, LoopTypes, LoopRefs, loopVars, pollVars
  <2> HIDE DEF c
  <2>2. \A k \in Loop : QueueMoves(k)
    BY <1>1, <2>1, QueueStays
  <2>3. \A d \in Conn : IF Born(d) THEN Moves(d) ELSE UNCHANGED conn[d] \/ Comes(d)
    BY <2>1 DEF Moves
  <2>4. KeepMoves
    BY <2>1 DEF KeepMoves, c
  <2>5. ChannelMoves
    BY <2>1 DEF ChannelMoves, Listen, OnTimer
  <2> QED
    BY <2>2, <2>3, <2>4, <2>5 DEF ServerStep
<1>9. ASSUME NEW l \in Loop, SwapTasks(l) PROVE ServerStep
  <2>1. UNCHANGED <<conn, conns, shared, accepting, held, actives, chan>>
    BY <1>9 DEF SwapTasks, connVars, pollVars
  <2>2. \A k \in Loop : QueueMoves(k)
    BY <1>1, <1>9, QueueSwaps
  <2> QED
    BY <1>1, <2>1, <2>2, IdleServer DEF Listen, OnTimer
<1>10. ASSUME NEW l \in Loop, RunTask(l) PROVE ServerStep
  <2> DEFINE t == Head(batch[l])
  <2>1. /\ batch[l] # <<>> /\ batch[l] \in Seq(Task) /\ Execute(t)
        /\ held' = IF t.op = "remove" THEN [held EXCEPT ![l] = @ \cup {t.conn}] ELSE held
        /\ UNCHANGED <<accepting, actives>>
    BY <1>1, <1>10 DEF RunTask, LoopTypes
  <2>2. t \in Task /\ t \in Range(batch[l]) /\ t \in Pending(l)
    BY <1>1, <2>1, RangeHeadTail, QueueType
  <2> HIDE DEF t
  <2>3. t.conn \in Conn /\ Born(t.conn)
    BY <1>1, <2>2 DEF Task, LoopRefs, Placed
  <2>4. /\ t.op = "remove" => ~conn[t.conn].open
        /\ t.op \in {"send", "shutdown"} => conn[t.conn].state # "CONNECTING"
    BY <2>2, <2>3 DEF LifeInv, RemovedIsClosed, FreshIsUnknown
  <2>5. CoreStep(t.conn)
    BY <1>1, <2>1, <2>2, <2>3, <2>4, ExecuteCore
  <2>6. \A k \in Loop : QueueMoves(k)
    <3>1. \E m \in Loop, s \in Seq(Task) : Push(m, s) /\ Reasons(s)
      BY <2>5 DEF CoreStep
    <3> QED
      BY <1>1, <1>10, <3>1, QueueRuns
  <2>7. \A k \in Loop : \A d \in held'[k] : d \in held[k] \/ Do("remove", d) \in Pending(k)
    <3>1. t.op = "remove" => t = Do("remove", t.conn)
      BY <2>2 DEF Task, Do
    <3>2. held \in [Loop -> SUBSET Conn]
      BY <1>1 DEF LoopTypes
    <3> QED
      BY <2>1, <2>2, <3>1, <3>2
  <2> QED
    BY <1>1, <2>1, <2>3, <2>5, <2>6, <2>7, CoreServer
<1>11. ASSUME NEW l \in Loop, FinishBatch(l) PROVE ServerStep
  <2>1. /\ UNCHANGED <<conn, conns, shared, accepting, tasks, batch, actives, chan>>
        /\ held' = [held EXCEPT ![l] = {}]
    BY <1>11 DEF FinishBatch, connVars, pollVars
  <2>2. \A k \in Loop : QueueMoves(k) /\ held'[k] \subseteq held[k]
    BY <1>1, <2>1, QueueStays DEF LoopTypes
  <2> QED
    BY <1>1, <2>1, <2>2, IdleServer DEF Listen, OnTimer
<1>12. ASSUME NEW c \in Conn, NEW op \in UserOps, UserCalls(op, c) PROVE ServerStep
  <2> DEFINE t == Do(op, c)
  <2>1. t \in Task /\ Reason(t) /\ conn[c].loop \in Loop
    BY <1>1, <1>12, WorkOfBorn, ServerAssumption DEF UserCalls, Do, Task, Reason, ServerRefs
  <2>2. /\ Push(conn[c].loop, <<t>>)
        /\ UNCHANGED <<conn, conns, shared, accepting, batch, held, actives, chan>>
    BY <1>12 DEF UserCalls, connVars, pollVars
  <2> HIDE DEF t
  <2>3. <<t>> \in Seq(Task) /\ Reasons(<<t>>)
    BY <2>1, ReasonsOfOne
  <2>4. \A k \in Loop : QueueMoves(k)
    BY <1>1, <2>1, <2>2, <2>3, QueueGrows
  <2> QED
    BY <1>1, <2>2, <2>4, IdleServer DEF Listen, OnTimer
<1>13. ASSUME UNCHANGED <<conn, conns, accepting, tasks, batch, held, actives, chan>>,
              shared' \subseteq shared
       PROVE  ServerStep
  <2>1. \A k \in Loop : QueueMoves(k)
    BY <1>1, <1>13, QueueStays
  <2> QED
    BY <1>1, <1>13, <2>1, IdleServer DEF Listen, OnTimer
<1> USE DEF connVars, loopVars, pollVars
<1>14. ASSUME NEW c \in Conn,
              PeerConnects(c) \/ PeerSends(c) \/ PeerCloses(c) \/ PeerResets(c) \/ UserDrops(c)
       PROVE  ServerStep
  BY <1>13, <1>14 DEF PeerConnects, PeerSends, PeerCloses, PeerResets, UserDrops
<1>15. ASSUME NEW l \in Loop, SecondPasses(l) \/ PollInterrupted(l)
       PROVE  ServerStep
  BY <1>13, <1>15 DEF SecondPasses, PollInterrupted
<1>16. CASE UNCHANGED vars
  BY <1>13, <1>16 DEF vars
<1>17. CASE RunAfter
  BY <1>7, <1>17 DEF RunAfter
<1> QED
  BY <1>3, <1>4, <1>5, <1>6, <1>7, <1>8, <1>9, <1>10, <1>11, <1>12, <1>14, <1>15,
     <1>16, <1>17 DEF Next, LoopStep, Environment
-----------------------------------------------------------------------------
(* What NewConnection makes. *)
LEMMA ComesFresh ==
  ASSUME NEW c, Comes(c)
  PROVE  /\ conn'[c].state = "CONNECTING" /\ conn'[c].open /\ accepting'.conn = c
         /\ conn'[c].events = {} /\ conn'[c].in = 0 /\ conn'[c].out = 0
         /\ ~conn'[c].enabled
  BY DEF Comes, NewConn

(* A connection keeps its loop and descriptor, is not opened again, and    *)
(* does not go back to CONNECTING.                                         *)
LEMMA MovesOn ==
  ASSUME TypeInv, NEW c \in Conn, Born(c), Moves(c)
  PROVE  /\ Born(c)'
         /\ conn'[c].open => conn[c].open
         /\ conn'[c].loop = conn[c].loop /\ conn'[c].fd = conn[c].fd
         /\ conn'[c].open => conn'[c].state \in {conn[c].state, "CONNECTED", "DISCONNECTING"}
         /\ conn'[c].state = "CONNECTING" =>
              /\ conn[c].state = "CONNECTING"
              /\ conn'[c].open = conn[c].open /\ conn'[c].events = conn[c].events
              /\ conn'[c].in = conn[c].in /\ conn'[c].out = conn[c].out
<1>1. /\ conn[c] \in Connection /\ Work(conn[c]).conn = conn[c]
      /\ None \notin Connection
  BY WorkOfBorn, ServerAssumption
<1>2. CASE UNCHANGED conn[c]
  BY <1>2 DEF Born
<1>3. CASE Handled(c)
  <2>1. PICK w \in WorkType : Continues(Work(conn[c]), w) /\ conn'[c] = w.conn
    BY <1>3 DEF Handled
  <2>2. w.conn \in Connection /\ conn[c].state # "CONNECTING"
    BY <1>3 DEF Handled, WorkType
  <2> QED
    BY <1>1, <2>1, <2>2 DEF Continues, Born
<1>4. CASE Connected(c)
  <2>1. conn'[c] \in Connection /\ conn'[c].state = "CONNECTED"
    <3>1. "IN" \in {"IN", "OUT"}
      OBVIOUS
    <3>2. conn'[c] = [conn[c] EXCEPT !.state = "CONNECTED", !.events = conn[c].events \cup {"IN"}]
      BY <1>4 DEF Connected
    <3> DEFINE k == conn[c]
               e == k.events \cup {"IN"}
    <3>3. e \in SUBSET {"IN", "OUT"} /\ k \in Connection
      BY <1>1, <3>1 DEF Connection
    <3> HIDE DEF k, e
    <3>4. [k EXCEPT !.state = "CONNECTED", !.events = e] \in Connection
      BY <3>3 DEF Connection
    <3>5. [k EXCEPT !.state = "CONNECTED", !.events = e].state = "CONNECTED"
      BY <3>3 DEF Connection
    <3> QED
      BY <3>2, <3>4, <3>5 DEF k, e
  <2> QED
    BY <1>1, <1>4, <2>1 DEF Connected, Connection, Born
<1>5. CASE Released(c)
  <2>1. /\ conn'[c] \in Connection /\ conn'[c].state = "DISCONNECTED"
        /\ conn'[c].open = FALSE
    BY <1>1, <1>5 DEF Released, Connection
  <2> QED
    BY <1>1, <1>5, <2>1 DEF Released, Connection, Born
<1>6. CASE Armed(c)
  <2>1. conn'[c] \in Connection
    BY <1>1, <1>6 DEF Armed, Connection
  <2> QED
    BY <1>1, <1>6, <2>1 DEF Armed, Connection, Born
<1> QED
  BY <1>2, <1>3, <1>4, <1>5, <1>6 DEF Moves

(* An open connection goes from one state to the next. *)
LEMMA MovesForward ==
  ASSUME NEW c \in Conn, conn[c] \in Connection, Moves(c), conn'[c].open,
         conn[c].state # "DISCONNECTED"
  PROVE  \/ conn'[c].state = conn[c].state
         \/ conn[c].state = "CONNECTING" /\ conn'[c].state = "CONNECTED"
         \/ conn[c].state = "CONNECTED" /\ conn'[c].state = "DISCONNECTING"
<1>1. CASE Handled(c)
  <2>1. conn'[c].state \in {conn[c].state, "DISCONNECTING"} /\ conn[c].state # "CONNECTING"
    BY <1>1 DEF Handled, Continues, Work
  <2> QED
    BY <2>1 DEF Connection
<1>2. CASE Connected(c)
  BY <1>2 DEF Connected, Connection
<1>3. CASE Released(c) \/ Armed(c)
  BY <1>3 DEF Released, Armed, Connection
<1> QED
  BY <1>1, <1>2, <1>3 DEF Moves

(* What is pending after a step was pending before it or has been queued,  *)
(* and what was pending before it is pending or has been run.              *)
LEMMA PendingMoves ==
  ASSUME TypeInv, NEW l \in Loop, QueueMoves(l)
  PROVE  /\ \A t \in Pending(l)' : t \in Pending(l) \/ (t \in Task /\ Reason(t))
         /\ \A t \in Pending(l) : t \in Pending(l)' \/ (RunTask(l) /\ t = Head(batch[l]))
<1>1. Queue(l) \in Seq(Task) /\ batch[l] \in Seq(Task) /\ tasks[l] \in Seq(Task)
  BY QueueType
<1>2. PICK s \in Seq(Task) :
        /\ Reasons(s)
        /\ \/ ~RunTask(l) /\ Queue(l)' = Queue(l) \o s
           \/ RunTask(l) /\ Queue(l)' = Tail(Queue(l)) \o s
  BY DEF QueueMoves
<1>3. Range(s) \subseteq Task /\ Pending(l)' = Range(Queue(l)')
  BY DEF Range, Pending
<1>4. CASE Queue(l)' = Queue(l) \o s
  <2>1. Range(Queue(l)') = Range(Queue(l)) \cup Range(s)
    BY <1>1, <1>4, RangeConcat
  <2> QED
    BY <1>2, <1>3, <2>1 DEF Pending, Reasons
<1>5. CASE RunTask(l) /\ Queue(l)' = Tail(Queue(l)) \o s
  <2>1. batch[l] # <<>>
    BY <1>5 DEF RunTask
  <2>2. Queue(l) # <<>> /\ Head(Queue(l)) = Head(batch[l])
    BY <1>1, <2>1, ConcatTail DEF Queue
  <2>3. /\ Tail(Queue(l)) \in Seq(Task)
        /\ Range(Queue(l)) = {Head(batch[l])} \cup Range(Tail(Queue(l)))
    BY <1>1, <2>2, RangeHeadTail
  <2>4. \A q \in Seq(Task) : Range(q \o s) = Range(q) \cup Range(s)
    BY RangeConcat
  <2> QED
    BY <1>2, <1>3, <1>5, <2>3, <2>4 DEF Pending, Reasons
<1> QED
  BY <1>2, <1>4, <1>5

(* A release that is run closes the connection. *)
LEMMA ReleaseCloses ==
  ASSUME LifeInv, NEW c \in Conn, Born(c), conn[c].open, NEW l \in Loop,
         RunTask(l), Head(batch[l]) = Do("release", c)
  PROVE  conn'[c].open = FALSE
<1>1. Execute(Do("release", c)) /\ Alive(c)
  BY DEF RunTask, LifeInv, OpenIsKept, Alive, Kept
<1>2. ReleaseInLoop(c)
  BY <1>1 DEF Execute, Do
<1>3. conn \in [Conn -> Connection \cup {None}] /\ conn[c] \in Connection
  BY WorkOfBorn DEF LifeInv, TypeInv, TypeOK, ServerTypes
<1>4. PICK b : conn' = [conn EXCEPT ![c] = [conn[c] EXCEPT !.state = "DISCONNECTED",
                                             !.open = FALSE, !.enabled = b]]
  BY <1>2 DEF ReleaseInLoop
<1> QED
  BY <1>3, <1>4 DEF Connection
-----------------------------------------------------------------------------
(* Each part of LifeInv is kept by every step. *)
LEMMA OpenIsKeptStep ==
  ASSUME LifeInv, ServerStep
  PROVE  OpenIsKept'
<1> SUFFICES ASSUME NEW c \in Conn, Born(c)', conn'[c].open
             PROVE  (c \in conns' \/ accepting'.conn = c) /\ conn'[c].state # "DISCONNECTED"
  BY DEF OpenIsKept
<1>1. TypeInv /\ KeepMoves /\ None \notin Conn
  BY ServerAssumption DEF LifeInv, ServerStep
<1>2. CASE Born(c)
  <2>1. /\ conn[c].open
        /\ conn'[c].state \in {conn[c].state, "CONNECTED", "DISCONNECTING"}
    BY <1>1, <1>2, MovesOn DEF ServerStep
  <2>2. (c \in conns \/ accepting.conn = c) /\ conn[c].state # "DISCONNECTED"
    BY <1>2, <2>1 DEF LifeInv, OpenIsKept
  <2> QED
    BY <1>1, <2>1, <2>2 DEF KeepMoves
<1>3. CASE ~Born(c)
  <2>1. Comes(c)
    BY <1>3 DEF ServerStep, Born
  <2> QED
    BY <2>1, ComesFresh
<1> QED
  BY <1>2, <1>3

(* A connection whose removal is pending has been closed. *)
LEMMA RemovedIsClosedStep ==
  ASSUME LifeInv, ServerStep
  PROVE  RemovedIsClosed'
<1> SUFFICES ASSUME NEW l \in Loop, NEW t \in Pending(l)', t.op = "remove"
             PROVE  ~conn'[t.conn].open
  BY DEF RemovedIsClosed
<1>1. TypeInv /\ QueueMoves(l) /\ LoopTypes
  BY DEF LifeInv, ServerStep, TypeInv, TypeOK
<1>2. CASE t \in Pending(l)
  <2>1. t \in Task /\ t \in Range(batch[l]) \cup Range(tasks[l])
    BY <1>1, <1>2, QueueType
  <2>2. t.conn \in Conn /\ Born(t.conn)
    BY <1>1, <2>1 DEF Task, TypeInv, LoopRefs, ServerRefs, Placed
  <2>3. Moves(t.conn) /\ ~conn[t.conn].open
    BY <1>2, <2>2 DEF ServerStep, LifeInv, RemovedIsClosed
  <2>4. ASSUME NEW d \in Conn, Born(d), Moves(d)
        PROVE  conn'[d].open => conn[d].open
    BY <1>1, <2>4, MovesOn
  <2> QED
    BY <2>2, <2>3, <2>4
<1>3. CASE t \in Task /\ Reason(t)
  <2>1. accepting.step # "remove" /\ "remove" \notin UserOps
    BY <1>1, ServerAssumption DEF LoopTypes
  <2> QED
    BY <1>3, <2>1 DEF Reason
<1> QED
  BY <1>1, <1>2, <1>3, PendingMoves

(* Nothing hears of a connection too early. *)
LEMMA FreshIsUnknownStep ==
  ASSUME LifeInv, ServerStep
  PROVE  FreshIsUnknown'
<1> SUFFICES ASSUME NEW c \in Conn, Born(c)', conn'[c].state = "CONNECTING"
             PROVE
    /\ conn'[c].open /\ conn'[c].events = {} /\ conn'[c].in = 0 /\ conn'[c].out = 0
    /\ c \notin shared'
    /\ \A l \in Loop : \A t \in Pending(l)' :
         t.conn = c => t.op \in {"enable", "established", "release"}
    /\ \A l \in Loop, f \in Fd : chan'[l][f] # c
    /\ \A l \in Loop : \A a \in actives'[l] \ {Listen, OnTimer} : a.chan # c
  BY DEF FreshIsUnknown, Listen, OnTimer
<1>1. /\ TypeInv /\ LoopTypes /\ ServerTypes /\ LoopRefs /\ ServerRefs
      /\ KeepMoves /\ ChannelMoves /\ None \notin Conn
  BY ServerAssumption DEF LifeInv, ServerStep, TypeInv, TypeOK
<1>2. /\ conn'[c].open /\ conn'[c].events = {} /\ conn'[c].in = 0 /\ conn'[c].out = 0
      /\ Born(c) => conn[c].state = "CONNECTING"
  <2>1. CASE Born(c)
    <3>1. /\ conn[c].state = "CONNECTING"
          /\ conn'[c].open = conn[c].open /\ conn'[c].events = conn[c].events
          /\ conn'[c].in = conn[c].in /\ conn'[c].out = conn[c].out
      BY <1>1, <2>1, MovesOn DEF ServerStep
    <3> QED
      BY <2>1, <3>1 DEF LifeInv, FreshIsUnknown
  <2>2. CASE ~Born(c)
    <3>1. Comes(c)
      BY <2>2 DEF ServerStep, Born
    <3> QED
      BY <2>2, <3>1, ComesFresh
  <2> QED
    BY <2>1, <2>2
<1>3. /\ c \notin shared
      /\ \A l \in Loop : \A t \in Pending(l) :
           t.conn = c => t.op \in {"enable", "established", "release"}
      /\ \A l \in Loop, f \in Fd : chan[l][f] # c
      /\ \A l \in Loop : \A a \in actives[l] \ {Listen, OnTimer} : a.chan # c
  <2>1. CASE Born(c)
    BY <1>2, <2>1 DEF LifeInv, FreshIsUnknown
  <2>2. CASE ~Born(c)
    <3>1. \A l \in Loop : \A t \in Pending(l) : t.conn # c
      BY <1>1, <2>2, QueueType DEF LoopRefs, ServerRefs, Placed
    <3>2. c \notin shared /\ \A l \in Loop, f \in Fd : chan[l][f] # c
      BY <1>1, <2>2 DEF ServerRefs
    <3> QED
      BY <1>1, <2>2, <3>1, <3>2 DEF LoopRefs
  <2> QED
    BY <2>1, <2>2
<1>4. c \notin shared'
  BY <1>1, <1>3 DEF KeepMoves
<1>5. ASSUME NEW l \in Loop, NEW t \in Pending(l)', t.conn = c
      PROVE  t.op \in {"enable", "established", "release"}
  <2>1. t \in Pending(l) \/ (t \in Task /\ Reason(t))
    BY <1>1, PendingMoves DEF ServerStep
  <2>2. CASE t \in Task /\ Reason(t)
    BY <1>1, <1>2, <1>3, <1>5, <2>2 DEF Reason, LoopTypes, Task
  <2> QED
    BY <1>3, <1>5, <2>1, <2>2
<1>6. \A l \in Loop, f \in Fd : chan'[l][f] # c
  BY <1>1, <1>3 DEF ChannelMoves
<1>7. \A l \in Loop : \A a \in actives'[l] \ {Listen, OnTimer} : a.chan # c
  BY <1>1, <1>3 DEF ChannelMoves
<1> QED
  BY <1>2, <1>4, <1>5, <1>6, <1>7

(* Write interest and output keep agreeing. *)
LEMMA EventsAgreeStep ==
  ASSUME LifeInv, ServerStep
  PROVE  EventsAgree'
<1> SUFFICES ASSUME NEW c \in Conn, Established(c)'
             PROVE  /\ "IN" \in conn'[c].events
                    /\ (conn'[c].out > 0 <=> "OUT" \in conn'[c].events)
  BY DEF EventsAgree
<1>1. TypeInv /\ Born(c)' /\ conn'[c].open /\ conn'[c].state \in {"CONNECTED", "DISCONNECTING"}
  BY DEF LifeInv, Established
<1>2. Born(c)
  BY <1>1, ComesFresh DEF ServerStep, Born
<1>3. /\ conn[c].open /\ conn[c] \in Connection /\ Work(conn[c]).conn = conn[c]
      /\ conn[c].state \in {"CONNECTING", "CONNECTED", "DISCONNECTING"}
  BY <1>1, <1>2, MovesOn, WorkOfBorn DEF ServerStep, LifeInv, OpenIsKept, Connection
<1>4. Moves(c)
  BY <1>2 DEF ServerStep
<1>5. conn[c].state # "CONNECTING" =>
        "IN" \in conn[c].events /\ (conn[c].out > 0 <=> "OUT" \in conn[c].events)
  BY <1>2, <1>3 DEF LifeInv, EventsAgree, Established
<1>6. CASE UNCHANGED conn[c]
  BY <1>1, <1>5, <1>6
<1>7. CASE Handled(c)
  <2>1. PICK w \in WorkType : Continues(Work(conn[c]), w) /\ conn'[c] = w.conn
    BY <1>7 DEF Handled
  <2>2. Consistent(Work(conn[c])) /\ "IN" \in conn[c].events
    BY <1>3, <1>5, <1>7 DEF Handled, Consistent
  <2> QED
    BY <1>3, <2>1, <2>2 DEF Continues, Consistent
<1>8. CASE Connected(c)
  <2>1. conn[c].events = {} /\ conn[c].out = 0
    BY <1>2, <1>8 DEF Connected, LifeInv, FreshIsUnknown
  <2>2. conn'[c].events = {"IN"} /\ conn'[c].out = 0
    BY <1>3, <1>8, <2>1 DEF Connected, Connection
  <2> QED
    BY <2>2
<1>9. CASE Released(c)
  BY <1>1, <1>3, <1>9 DEF Released, Connection
<1>10. CASE Armed(c)
  <2>1. /\ conn'[c].events = conn[c].events /\ conn'[c].out = conn[c].out
        /\ conn'[c].state = conn[c].state
    BY <1>3, <1>10 DEF Armed, Connection
  <2> QED
    BY <1>1, <1>5, <2>1
<1> QED
  BY <1>4, <1>6, <1>7, <1>8, <1>9, <1>10 DEF Moves

(* A connection being closed keeps a reason to end. *)
LEMMA ClosingEndsStep ==
  ASSUME LifeInv, ServerStep, TypeInv'
  PROVE  ClosingEnds'
<1> SUFFICES ASSUME NEW c \in Conn, NEW l \in Loop, Established(c)',
                    conn'[c].state = "DISCONNECTING", conn'[c].loop = l
             PROVE  conn'[c].out > 0 \/ Do("release", c) \in Pending(l)'
  BY DEF ClosingEnds
<1>1. TypeInv /\ Born(c)' /\ conn'[c].open
  BY DEF LifeInv, Established
<1>2. Born(c)
  BY <1>1, ComesFresh DEF ServerStep, Born
<1>3. /\ conn[c].open /\ conn[c] \in Connection /\ Moves(c)
      /\ Work(conn[c]).conn = conn[c] /\ Work(conn[c]).releases = 0
      /\ conn[c].loop = l
      /\ conn[c].state \in {"CONNECTING", "CONNECTED", "DISCONNECTING"}
  BY <1>1, <1>2, MovesOn, WorkOfBorn DEF ServerStep, LifeInv, OpenIsKept, Connection
<1>4. Do("release", c) \in Pending(l) => Do("release", c) \in Pending(l)'
  <2>1. QueueMoves(l)
    BY <1>3 DEF ServerStep
  <2>2. ~(RunTask(l) /\ Do("release", c) = Head(batch[l]))
    BY <1>1, <1>2, <1>3, ReleaseCloses
  <2> QED
    BY <1>1, <1>3, <2>1, <2>2, PendingMoves
<1>5. Do("release", c) \in Range(tasks'[l]) => Do("release", c) \in Pending(l)'
  <2>1. batch'[l] \in Seq(Task) /\ tasks'[l] \in Seq(Task)
    BY <1>3 DEF TypeInv, TypeOK, ServerTypes, LoopTypes
  <2>2. Range(batch'[l] \o tasks'[l]) = Range(batch'[l]) \cup Range(tasks'[l])
    BY <2>1, RangeConcat
  <2> QED
    BY <2>2 DEF Pending, Queue
<1>6. conn[c].state = "DISCONNECTING" => conn[c].out > 0 \/ Do("release", c) \in Pending(l)
  BY <1>2, <1>3 DEF LifeInv, ClosingEnds, Established
<1>7. CASE UNCHANGED conn[c]
  BY <1>4, <1>6, <1>7
<1>8. CASE Handled(c)
  <2>1. PICK w \in WorkType :
          /\ Continues(Work(conn[c]), w) /\ conn'[c] = w.conn
          /\ Ends(Work(conn[c])) => Ends(w)
          /\ w.releases > 0 => Do("release", c) \in Range(tasks'[l])
    BY <1>3, <1>8 DEF Handled
  <2>2. CASE Ends(Work(conn[c]))
    BY <1>5, <2>1, <2>2 DEF Ends
  <2>3. CASE ~Ends(Work(conn[c]))
    BY <1>3, <1>4, <1>6, <2>3 DEF Ends
  <2> QED
    BY <2>2, <2>3
<1>9. CASE Connected(c)
  BY <1>3, <1>9 DEF Connected, Connection
<1>10. CASE Released(c)
  BY <1>1, <1>3, <1>10 DEF Released, Connection
<1>11. CASE Armed(c)
  <2>1. conn'[c].out = conn[c].out /\ conn'[c].state = conn[c].state
    BY <1>3, <1>11 DEF Armed, Connection
  <2> QED
    BY <1>4, <1>6, <2>1
<1> QED
  BY <1>3, <1>7, <1>8, <1>9, <1>10, <1>11 DEF Moves
-----------------------------------------------------------------------------
(* The invariant holds at first ... *)
LEMMA LifeInit == Init => LifeInv
<1> SUFFICES ASSUME Init PROVE LifeInv
  OBVIOUS
<1>1. TypeInv
  BY TypeInit
<1>2. /\ \A c \in Conn : ~Born(c)
      /\ \A l \in Loop : batch[l] = <<>> /\ tasks[l] = <<>>
  BY DEF Init, Born
<1>3. \A l \in Loop : Pending(l) = {}
  <2>1. <<>> \o <<>> = <<>>
    OBVIOUS
  <2>2. Range(<<>>) = {}
    BY DEF Range
  <2> QED
    BY <1>2, <2>1, <2>2 DEF Pending, Queue
<1> QED
  BY <1>1, <1>2, <1>3 DEF LifeInv, OpenIsKept, RemovedIsClosed, FreshIsUnknown,
                          EventsAgree, ClosingEnds, Established

(* ... and each step keeps it. *)
LEMMA LifeStep == LifeInv /\ [Next]_vars => LifeInv'
<1> SUFFICES ASSUME LifeInv, [Next]_vars PROVE LifeInv'
  OBVIOUS
<1>1. TypeInv' /\ ServerStep
  BY TypeStep, ServerSteps DEF LifeInv
<1> QED
  BY <1>1, OpenIsKeptStep, RemovedIsClosedStep, FreshIsUnknownStep, EventsAgreeStep,
     ClosingEndsStep DEF LifeInv

(* What LifeInv says holds of every reachable state, whatever the users'   *)
(* threads call and wherever the server stops.                             *)
THEOREM LifeInvariant == Spec => []LifeInv
  BY LifeInit, LifeStep, PTL DEF Spec

(* No reply is stuck and no loop spins: an established connection monitors *)
(* the write event exactly while it has something to send, however its     *)
(* handlers, SendInLoop and ShutdownInLoop follow one another.             *)
THEOREM WriteInterestAgrees == Spec => []WriteInterest
<1>1. LifeInv => WriteInterest
  BY DEF LifeInv, EventsAgree, WriteInterest
<1> QED
  BY <1>1, LifeInvariant, PTL

(* A Release that is pending is one of Releases. *)
LEMMA PendingRelease ==
  ASSUME TypeInv, NEW c \in Conn, Born(c), Do("release", c) \in Pending(conn[c].loop)
  PROVE  Releases(c) # {}
<1> DEFINE l == conn[c].loop
           s == tasks[l] \o batch[l]
<1>1. l \in Loop
  BY WorkOfBorn
<1>2. batch[l] \in Seq(Task) /\ tasks[l] \in Seq(Task)
  BY <1>1, QueueType
<1>3. Do("release", c) \in Range(s)
  BY <1>1, <1>2, QueueType, RangeConcat
<1>4. PICK i \in DOMAIN s : s[i] = Do("release", c)
  BY <1>3 DEF Range
<1> QED
  BY <1>4 DEF Releases

(* Shutdown ends: a half-closed connection has something to send, or its   *)
(* Release is queued on its loop, and goes on being so until it is closed. *)
THEOREM ShutdownIsFinished == Spec => []ShutdownEnds
<1>1. LifeInv => ShutdownEnds
  <2> SUFFICES ASSUME LifeInv, NEW c \in Conn, Established(c),
                      conn[c].state = "DISCONNECTING", ~(conn[c].out > 0)
               PROVE  Releases(c) # {}
    BY DEF ShutdownEnds
  <2>1. TypeInv /\ Born(c) /\ conn[c].loop \in Loop
    BY WorkOfBorn DEF LifeInv, Established
  <2>2. Do("release", c) \in Pending(conn[c].loop)
    BY <2>1 DEF LifeInv, ClosingEnds
  <2> QED
    BY <2>1, <2>2, PendingRelease
<1> QED
  BY <1>1, LifeInvariant, PTL
-----------------------------------------------------------------------------
(* A connection nobody refers to is not found again. *)
LEMMA NotRevived ==
  ASSUME LifeInv, ServerStep, TypeInv', NEW c \in Conn, Born(c), Alive(c)'
  PROVE  Alive(c)
<1>1. TypeInv /\ KeepMoves /\ LoopTypes /\ None \notin Conn
  BY ServerAssumption DEF LifeInv, ServerStep, TypeInv, TypeOK
<1>2. \A l \in Loop : Do("remove", c) \in Pending(l) => Alive(c)
  <2> SUFFICES ASSUME NEW l \in Loop, Do("remove", c) \in Pending(l) PROVE Alive(c)
    OBVIOUS
  <2>1. Do("remove", c) \in Range(batch[l]) \cup Range(tasks[l])
    BY <1>1, QueueType
  <2>2. RefersTo(tasks[l], c) \/ RefersTo(batch[l], c)
    BY <2>1 DEF Range, RefersTo, Do
  <2> QED
    BY <2>2 DEF Alive, Kept
<1>3. \A l \in Loop : Do("remove", c) \in Pending(l)' => Alive(c)
  <2> SUFFICES ASSUME NEW l \in Loop, Do("remove", c) \in Pending(l)' PROVE Alive(c)
    OBVIOUS
  <2>1. Do("remove", c) \in Pending(l) \/ Reason(Do("remove", c))
    BY <1>1, PendingMoves DEF ServerStep
  <2>2. accepting.step # "remove" /\ "remove" \notin UserOps
    BY <1>1, ServerAssumption DEF LoopTypes
  <2> QED
    BY <1>2, <2>1, <2>2 DEF Reason, Do
<1>4. CASE c \in conns' \/ accepting'.conn = c \/ c \in shared'
  BY <1>1, <1>4 DEF KeepMoves, Alive, Kept
<1>5. CASE \E l \in Loop : c \in held'[l]
  BY <1>1, <1>2, <1>5 DEF KeepMoves, Alive, Kept
<1>6. CASE \E l \in Loop : RefersTo(tasks[l], c)' \/ RefersTo(batch[l], c)'
  <2>1. PICK l \in Loop : RefersTo(tasks[l], c)' \/ RefersTo(batch[l], c)'
    BY <1>6
  <2>2. Do("remove", c) \in Range(batch'[l]) \cup Range(tasks'[l])
    BY <2>1 DEF Range, RefersTo, Do
  <2>3. batch'[l] \in Seq(Task) /\ tasks'[l] \in Seq(Task)
    BY DEF TypeInv, TypeOK, ServerTypes, LoopTypes
  <2>4. Range(batch'[l] \o tasks'[l]) = Range(batch'[l]) \cup Range(tasks'[l])
    BY <2>3, RangeConcat
  <2> QED
    BY <1>3, <2>2, <2>4 DEF Pending, Queue
<1> QED
  BY <1>4, <1>5, <1>6 DEF Alive, Kept

(* An open connection is owned by the server, so that it is closed by      *)
(* ReleaseInLoop and not by its destructor, whatever the users' threads    *)
(* call and let go of.                                                     *)
THEOREM OpenStaysKept == Spec => []OpenIsKept
<1>1. LifeInv => OpenIsKept
  BY DEF LifeInv
<1> QED
  BY <1>1, LifeInvariant, PTL
-----------------------------------------------------------------------------
(***************************************************************************)
(* The timers, the pollers' tables and the output buffers, which are right *)
(* as long as the users' threads keep to some of the calls.  Each theorem  *)
(* names the calls it excludes, and TLC finds its property violated with   *)
(* any one of them, except for the call "enable" in four cases.            *)
(* InactiveIsArmed fails when it follows "cancel".  PollerMapsOwner,       *)
(* ActivesAlive and ConnectionsLiveOnce have not been seen to fail: the    *)
(* invariant they follow from, which is about timers too, does.            *)
(***************************************************************************)

(* NewConnection's EnableInactiveRelease comes before anything else the    *)
(* connection is asked to do: while it is still to be made, ...            *)
NewIsUntouched ==
  \A c \in Conn : accepting = [conn |-> c, step |-> "enable"] =>
    /\ conn[c].state = "CONNECTING" /\ ~HasTimer(c) /\ timeout > 0
    /\ \A l \in Loop : \A t \in Pending(l) : t.conn # c

(* ... while it is queued, ...                                             *)
EnableIsAhead ==
  \A l \in Loop : \A t \in Pending(l) : t.op = "enable" =>
    /\ l # Base /\ conn[t.conn].state = "CONNECTING" /\ ~HasTimer(t.conn)
    /\ timeout > 0

(* ... and in the queue.                                                   *)
EnableIsFirst ==
  \A l \in Loop : \A i, j \in DOMAIN Queue(l) :
    Queue(l)[i].op = "enable" /\ Queue(l)[j].conn = Queue(l)[i].conn => i <= j

TimerIsOpen == \A c \in Conn : HasTimer(c) /\ c \notin cancelled => conn[c].open

CancelledHasTimer == \A c \in cancelled : HasTimer(c)

(* InactiveIsArmed, over the set of what is pending, from the beginning.   *)
EnabledIsArmed ==
  \A c \in Conn, l \in Loop :
    Born(c) /\ conn[c].open /\ conn[c].enabled /\ conn[c].loop = l =>
      (HasTimer(c) /\ c \notin cancelled) \/ Do("release", c) \in Pending(l)

TimerInv ==
  /\ LifeInv /\ NewIsUntouched /\ EnableIsAhead /\ EnableIsFirst
  /\ TimerIsOpen /\ CancelledHasTimer /\ EnabledIsArmed
-----------------------------------------------------------------------------
(* The task t is run in this step: from the queue, or by NewConnection in  *)
(* place.                                                                  *)
Due(t) ==
  \/ \E l \in Loop : RunTask(l) /\ t = Head(batch[l])
  \/ /\ accepting = [conn |-> t.conn, step |-> t.op] /\ accepting' # accepting
     /\ conn[t.conn].loop = Base

(* What a step may do to the timer of c. *)
TimerStays(c) ==
  /\ HasTimer(c)' <=> HasTimer(c)
  /\ c \in cancelled' <=> c \in cancelled
  /\ Born(c) => conn'[c].open = conn[c].open /\ conn'[c].enabled = conn[c].enabled

TimerStarts(c) ==
  /\ Due(Do("enable", c))
  /\ timer'[c] = timeout
  /\ c \in cancelled' <=> c \in cancelled
  /\ conn'[c].open = conn[c].open

TimerStops(c) ==
  /\ HasTimer(c)' <=> HasTimer(c)
  /\ c \in cancelled' <=> c \in cancelled \/ HasTimer(c)
  /\ ~conn'[c].open \/ (conn'[c].open = conn[c].open /\ ~conn'[c].enabled)

TimerFires(c) ==
  /\ HasTimer(c) /\ ~HasTimer(c)' /\ c \notin cancelled' /\ UNCHANGED conn[c]
  /\ c \notin cancelled => Do("release", c) \in Range(tasks'[conn[c].loop])

TimerMoves(c) ==
  TimerStays(c) \/ TimerStarts(c) \/ TimerStops(c) \/ TimerFires(c)

(* What ends CONNECTING. *)
FreshMoves(c) ==
  Born(c) /\ conn[c].state = "CONNECTING" =>
    \/ conn'[c].state = "CONNECTING"
    \/ Due(Do("established", c)) \/ Due(Do("release", c))

(* How EnableInactiveRelease and timers come to be. *)
TimerStep ==
  /\ \A c \in Conn : TimerMoves(c) /\ FreshMoves(c)
  /\ accepting' # accepting =>
       \/ accepting'.conn = None
       \/ /\ accepting.conn = None /\ ~Born(accepting'.conn)
          /\ accepting'.step = "enable" => timeout > 0
          /\ UNCHANGED <<tasks, batch, timer>>
       \/ accepting'.conn = accepting.conn /\ accepting'.step # "enable"
  /\ UNCHANGED timeout
-----------------------------------------------------------------------------
(* A task of c leaves the other connections' timers alone. *)
LEMMA ExecuteTimers ==
  ASSUME TypeInv, NEW t \in Task, Born(t.conn), Execute(t), Due(t),
         t.op \in {"send", "shutdown"} => conn[t.conn].state # "CONNECTING"
  PROVE  \A c \in Conn : TimerMoves(c) /\ FreshMoves(c)
<1> DEFINE c == t.conn
<1>1. c \in Conn /\ Born(c) /\ t = Do(t.op, c)
  BY DEF Task, Do
<1>2. /\ conn[c] \in Connection /\ conn \in [Conn -> Connection \cup {None}]
      /\ timer \in [Conn -> 0 .. timeout] /\ Work(conn[c]) \in WorkType
      /\ Work(conn[c]).conn = conn[c]
  BY <1>1, WorkOfBorn DEF TypeInv, TypeOK, ServerTypes
<1>3. \/ Crash
      \/ t.op = "established" /\ EstablishedInLoop(c)
      \/ t.op = "release" /\ ReleaseInLoop(c)
      \/ RemoveConnectionInLoop(c)
      \/ t.op = "send" /\ Effect(c, {SendInLoop(Work(conn[c]))})
      \/ t.op = "shutdown" /\ Effect(c, ShutdownInLoop(Work(conn[c])))
      \/ t.op = "enable" /\ EnableInactiveReleaseInLoop(c)
      \/ CancelInactiveReleaseInLoop(c)
  BY DEF Execute
<1> SUFFICES \A d \in Conn : TimerMoves(d) /\ FreshMoves(d)
  OBVIOUS
<1> HIDE DEF c
<1>4. ASSUME UNCHANGED <<conn, timer, cancelled>>
      PROVE  \A d \in Conn : TimerMoves(d) /\ FreshMoves(d)
  BY <1>4 DEF TimerMoves, TimerStays, FreshMoves, HasTimer
<1>5. ASSUME NEW k \in Connection, conn' = [conn EXCEPT ![c] = k]
      PROVE  /\ conn'[c] = k /\ \A d \in Conn \ {c} : conn'[d] = conn[d]
             /\ \A d \in Conn \ {c} : FreshMoves(d)
             /\ \A d \in Conn \ {c} : timer'[d] = timer[d] /\ (d \in cancelled' <=> d \in cancelled)
                  => TimerMoves(d)
  <2>1. conn'[c] = k /\ \A d \in Conn \ {c} : conn'[d] = conn[d]
    BY <1>1, <1>2, <1>5
  <2> QED
    BY <2>1 DEF FreshMoves, TimerMoves, TimerStays, HasTimer
<1>6. CASE Crash \/ RemoveConnectionInLoop(c)
  BY <1>4, <1>6 DEF Crash, RemoveConnectionInLoop, connVars, timerVars
<1>7. ASSUME NEW w \in WorkType, Apply(c, w), UNCHANGED timerVars,
             w.conn.open = conn[c].open, w.conn.enabled = conn[c].enabled,
             conn[c].state # "CONNECTING" \/ t.op = "established"
      PROVE  \A d \in Conn : TimerMoves(d) /\ FreshMoves(d)
  <2>1. w.conn \in Connection /\ conn' = [conn EXCEPT ![c] = w.conn]
    BY <1>7 DEF Apply, WorkType
  <2>2. UNCHANGED <<timer, cancelled>>
    BY <1>7 DEF timerVars
  <2>3. TimerMoves(c) /\ FreshMoves(c)
    BY <1>1, <1>5, <1>7, <2>1, <2>2 DEF TimerMoves, TimerStays, FreshMoves, HasTimer
  <2> QED
    BY <1>5, <2>1, <2>2, <2>3
<1>8. CASE t.op = "established" /\ EstablishedInLoop(c)
  <2>1. CASE conn[c].state # "CONNECTING"
    BY <1>4, <1>8, <2>1 DEF EstablishedInLoop, Crash, connVars, timerVars
  <2>2. CASE conn[c].state = "CONNECTING"
    <3>1. Apply(c, Opened(c)) /\ UNCHANGED timerVars
      BY <1>8, <2>2 DEF EstablishedInLoop, Opened
    <3>2. /\ Opened(c) \in WorkType /\ Opened(c).conn.open = conn[c].open
          /\ Opened(c).conn.enabled = conn[c].enabled
      BY <1>1, <1>2, OpenedWork DEF Connection
    <3> QED
      BY <1>7, <1>8, <3>1, <3>2
  <2> QED
    BY <2>1, <2>2
<1>9. CASE \/ t.op = "send" /\ Effect(c, {SendInLoop(Work(conn[c]))})
           \/ t.op = "shutdown" /\ Effect(c, ShutdownInLoop(Work(conn[c])))
  <2>1. PICK w : /\ Apply(c, w) /\ UNCHANGED timerVars
                 /\ w = SendInLoop(Work(conn[c])) \/ w \in ShutdownInLoop(Work(conn[c]))
    BY <1>9 DEF Effect
  <2>2. Continues(Work(conn[c]), w)
    BY <1>2, <2>1, SendInLoopWorks, ShutdownInLoopWorks
  <2>3. /\ w \in WorkType /\ w.conn.open = conn[c].open
        /\ w.conn.enabled = conn[c].enabled
    BY <1>2, <2>2 DEF Continues
  <2>4. conn[c].state # "CONNECTING"
    BY <1>9 DEF c
  <2> QED
    BY <1>7, <2>1, <2>3, <2>4
<1>10. CASE t.op = "release" /\ ReleaseInLoop(c)
  <2> DEFINE k == [conn[c] EXCEPT !.state = "DISCONNECTED", !.open = FALSE,
                                  !.enabled = @ /\ ~HasTimer(c)]
  <2>1. k \in Connection /\ k.open = FALSE
    BY <1>2 DEF Connection
  <2>2. /\ conn' = [conn EXCEPT ![c] = k] /\ UNCHANGED timer
        /\ cancelled' = IF HasTimer(c) THEN cancelled \cup {c} ELSE cancelled
    BY <1>10 DEF ReleaseInLoop, CancelTimer
  <2> HIDE DEF k
  <2>3. TimerMoves(c) /\ FreshMoves(c)
    BY <1>1, <1>5, <1>10, <2>1, <2>2 DEF TimerMoves, TimerStops, FreshMoves, HasTimer
  <2> QED
    BY <1>5, <2>1, <2>2, <2>3
<1>11. CASE t.op = "enable" /\ EnableInactiveReleaseInLoop(c)
  <2> DEFINE k == [conn[c] EXCEPT !.enabled = TRUE]
  <2>1. k \in Connection /\ k.open = conn[c].open /\ k.state = conn[c].state
    BY <1>2 DEF Connection
  <2>2. /\ conn' = [conn EXCEPT ![c] = k] /\ UNCHANGED cancelled
        /\ timer' = [timer EXCEPT ![c] = timeout]
    BY <1>11 DEF EnableInactiveReleaseInLoop
  <2> HIDE DEF k
  <2>3. timer'[c] = timeout /\ \A d \in Conn \ {c} : timer'[d] = timer[d]
    BY <1>1, <1>2, <2>2
  <2>4. TimerMoves(c) /\ FreshMoves(c)
    BY <1>1, <1>5, <1>11, <2>1, <2>2, <2>3 DEF TimerMoves, TimerStarts, FreshMoves
  <2> QED
    BY <1>5, <2>1, <2>2, <2>3, <2>4
<1>12. CASE CancelInactiveReleaseInLoop(c)
  <2> DEFINE k == [conn[c] EXCEPT !.enabled = FALSE]
  <2>1. /\ k \in Connection /\ k.open = conn[c].open /\ k.state = conn[c].state
        /\ k.enabled = FALSE
    BY <1>2 DEF Connection
  <2>2. /\ conn' = [conn EXCEPT ![c] = k] /\ UNCHANGED timer
        /\ cancelled' = IF HasTimer(c) THEN cancelled \cup {c} ELSE cancelled
    BY <1>12 DEF CancelInactiveReleaseInLoop, CancelTimer
  <2> HIDE DEF k
  <2>3. TimerMoves(c) /\ FreshMoves(c)
    BY <1>1, <1>5, <1>12, <2>1, <2>2 DEF TimerMoves, TimerStops, FreshMoves, HasTimer
  <2> QED
    BY <1>5, <2>1, <2>2, <2>3
<1> QED
  BY <1>3, <1>6, <1>8, <1>9, <1>10, <1>11, <1>12

(* The timers that run out fire, the others go on. *)
LEMMA OnTimeTimers ==
  ASSUME TypeInv, NEW l \in Loop, OnTime(l)
  PROVE  \A c \in Conn : TimerMoves(c)
<1> DEFINE over == {c \in Conn : HasTimer(c) /\ conn[c].loop = l /\ timer[c] = 1}
<1>1. ServerTypes /\ ServerRefs
  BY DEF TypeInv, TypeOK
<1>2. UNCHANGED conn
  BY DEF OnTime, Crash, connVars
<1>3. CASE Crash
  BY <1>2, <1>3 DEF Crash, timerVars, TimerMoves, TimerStays, HasTimer
<1>4. CASE /\ timer' = [c \in Conn |-> IF HasTimer(c) /\ conn[c].loop = l
                                       THEN timer[c] - 1 ELSE timer[c]]
           /\ cancelled' = cancelled \ over
           /\ \E s \in SetToSeqs(over \ cancelled) :
                Push(l, [i \in DOMAIN s |-> Do("release", s[i])])
  <2>1. PICK s \in SetToSeqs(over \ cancelled) :
               Push(l, [i \in DOMAIN s |-> Do("release", s[i])])
    BY <1>4
  <2>2. IsFiniteSet(over \ cancelled)
    <3>1. over \ cancelled \in SUBSET {c \in Conn : Born(c)}
      BY <1>1 DEF ServerRefs
    <3> QED
      BY <1>1, <3>1, FS_Subset DEF ServerRefs
  <2>3. s \in Seq(over \ cancelled) /\ DOMAIN s = 1 .. Len(s) /\ Range(s) = over \ cancelled
    BY <2>2, SetToSeqsRange
  <2> DEFINE q == [i \in DOMAIN s |-> Do("release", s[i])]
  <2>4. q \in Seq(Task) /\ Push(l, q)
    <3>1. \A i \in DOMAIN s : Do("release", s[i]) \in Task
      BY <2>3 DEF Do, Task
    <3> QED
      BY <2>1, <2>3, <3>1
  <2>5. ASSUME NEW c \in over \ cancelled
        PROVE  Do("release", c) \in Range(q)
    <3>1. PICK i \in DOMAIN s : c = s[i]
      BY <2>3 DEF Range
    <3> QED
      BY <3>1 DEF Range
  <2> HIDE DEF q
  <2>6. \A c \in over \ cancelled : Do("release", c) \in Range(tasks'[l])
    <3>1. tasks \in [Loop -> Seq(Task)]
      BY <1>1 DEF ServerTypes
    <3>2. tasks'[l] = tasks[l] \o q
      BY <2>4, <3>1 DEF Push
    <3>3. Range(tasks'[l]) = Range(tasks[l]) \cup Range(q)
      BY <2>4, <3>1, <3>2, RangeConcat
    <3> QED
      BY <2>5, <3>3
  <2> SUFFICES ASSUME NEW c \in Conn PROVE TimerMoves(c)
    OBVIOUS
  <2>7. timer \in [Conn -> 0 .. timeout] /\ timeout \in Nat
    BY <1>1, ServerAssumption DEF ServerTypes
  <2>8. CASE c \in over
    <3>1. HasTimer(c) /\ ~HasTimer(c)' /\ c \notin cancelled'
      BY <1>4, <2>7, <2>8 DEF HasTimer
    <3> QED
      BY <1>2, <2>6, <2>8, <3>1 DEF TimerMoves, TimerFires
  <2>9. CASE c \notin over
    <3>1. (HasTimer(c)' <=> HasTimer(c)) /\ (c \in cancelled' <=> c \in cancelled)
      BY <1>4, <2>7, <2>9 DEF HasTimer
    <3> QED
      BY <1>2, <3>1 DEF TimerMoves, TimerStays
  <2> QED
    BY <2>8, <2>9
<1> QED
  BY <1>3, <1>4 DEF OnTime

(* Every step of the server is one of those. *)
LEMMA TimerSteps ==
  ASSUME LifeInv, [Next]_vars
  PROVE  TimerStep
<1>1. TypeInv /\ ServerTypes /\ LoopTypes /\ ServerRefs /\ LoopRefs /\ Base \in Loop
  BY ServerAssumption DEF LifeInv, TypeInv, TypeOK
<1>2. \A l \in Loop : actives[l] \subseteq {Listen, OnTimer} \cup Active
  BY <1>1 DEF LoopTypes
<1>3. ASSUME UNCHANGED <<timeout, accepting, conn, timer, cancelled>>
      PROVE  TimerStep
  BY <1>3 DEF TimerStep, TimerMoves, TimerStays, FreshMoves, HasTimer
<1> USE DEF serverVars, connVars, loopVars, pollVars, timerVars
<1>4. ASSUME NEW l \in Loop, Poll(l) \/ SwapTasks(l) \/ FinishBatch(l)
      PROVE  TimerStep
  BY <1>3, <1>4 DEF Poll, SwapTasks, FinishBatch
<1>5. ASSUME NEW l \in Loop, NEW a \in actives[l], HandleChannel(l, a) PROVE TimerStep
  <2> DEFINE c == a.chan
  <2>1. a \in actives[l] \ {Listen, OnTimer} /\ a \in Active
    BY <1>2, <1>5 DEF HandleChannel
  <2>2. c \in Conn /\ Born(c) /\ conn[c].state # "CONNECTING"
    BY <1>1, <2>1 DEF Active, LoopRefs, LifeInv, FreshIsUnknown
  <2>3. UNCHANGED <<timeout, accepting>>
    BY <1>5 DEF HandleChannel
  <2> HIDE DEF c
  <2>4. CASE Crash
    BY <1>3, <2>3, <2>4 DEF Crash
  <2>5. CASE /\ \E w \in HandleEvent(Work(conn[c]), a.revents, Received(l, c), Broken(c)) :
                  Apply(c, w)
             /\ TimerRefresh(c) \/ UNCHANGED timer
             /\ UNCHANGED cancelled
    <3>1. PICK w \in HandleEvent(Work(conn[c]), a.revents, Received(l, c), Broken(c)) :
               Apply(c, w)
      BY <2>5
    <3>2. Received(l, c) \in Nat \cup {-1}
      BY <1>1, <2>2 DEF Received, LoopTypes
    <3>3. Work(conn[c]) \in WorkType /\ Work(conn[c]).conn = conn[c]
      BY <1>1, <2>2, WorkOfBorn
    <3>4. Continues(Work(conn[c]), w)
      BY <3>2, <3>3, HandleEventWorks
    <3>5. /\ w \in WorkType /\ w.conn.open = conn[c].open
          /\ w.conn.enabled = conn[c].enabled
      BY <3>3, <3>4 DEF Continues
    <3>6. conn'[c] = w.conn /\ \A d \in Conn \ {c} : conn'[d] = conn[d]
      BY <1>1, <2>2, <3>1, <3>5, ApplyCore
    <3>7. \A d \in Conn : HasTimer(d)' <=> HasTimer(d)
      <4>1. timer \in [Conn -> 0 .. timeout] /\ timeout \in Nat
        BY <1>1, ServerAssumption DEF ServerTypes
      <4> QED
        BY <2>5, <4>1 DEF TimerRefresh, HasTimer
    <3>8. \A d \in Conn : TimerMoves(d) /\ FreshMoves(d)
      BY <2>2, <2>5, <3>5, <3>6, <3>7 DEF TimerMoves, TimerStays, FreshMoves
    <3> QED
      BY <2>3, <3>8 DEF TimerStep
  <2> QED
    BY <1>5, <2>4, <2>5 DEF HandleChannel, c
<1>6. ASSUME NEW l \in Loop, OnTime(l) PROVE TimerStep
  <2>1. UNCHANGED <<timeout, accepting, conn>>
    BY <1>6 DEF OnTime, Crash
  <2> QED
    BY <1>1, <1>6, <2>1, OnTimeTimers DEF TimerStep, FreshMoves
<1>7. CASE Accept
  <2>1. UNCHANGED <<timeout, timer, cancelled>> /\ accepting.conn = None
    BY <1>7 DEF Accept, OnThread
  <2>2. CASE UNCHANGED <<conn, accepting>>
    BY <1>3, <2>1, <2>2
  <2>3. CASE \E c \in Backlog, f \in Fd, l \in workers :
               /\ conn' = [conn EXCEPT ![c] = NewConn(f, l)]
               /\ accepting' = [conn |-> c,
                     step |-> IF timeout > 0 THEN "enable" ELSE "established"]
    <3>1. PICK c \in Backlog, f \in Fd, l \in workers :
               /\ conn' = [conn EXCEPT ![c] = NewConn(f, l)]
               /\ accepting' = [conn |-> c,
                     step |-> IF timeout > 0 THEN "enable" ELSE "established"]
      BY <2>3
    <3>2. c \in Conn /\ ~Born(c)
      BY DEF Backlog
    <3>3. \A d \in Conn \ {c} : conn'[d] = conn[d]
      BY <1>1, <3>1, <3>2 DEF ServerTypes
    <3>4. \A d \in Conn : TimerMoves(d) /\ FreshMoves(d)
      BY <2>1, <3>2, <3>3 DEF TimerMoves, TimerStays, FreshMoves, HasTimer
    <3>5. /\ ~Born(accepting'.conn) /\ UNCHANGED <<tasks, batch, timer>>
          /\ accepting'.step = "enable" => timeout > 0
      BY <1>7, <3>1, <3>2 DEF Accept
    <3> QED
      BY <2>1, <3>4, <3>5 DEF TimerStep
  <2> QED
    BY <1>7, <2>2, <2>3 DEF Accept
<1>8. ASSUME NEW step \in {"enable", "established"},
             NEW next \in {"established", "insert", "misfile"},
             step # next, NewConnectionCall(step, next)
      PROVE  TimerStep
  <2> DEFINE c == accepting.conn
             t == Do(step, c)
  <2>1. /\ c \in Conn /\ Born(c) /\ t \in Task /\ t.conn = c /\ t.op = step
        /\ accepting = [conn |-> c, step |-> step]
    BY <1>1, <1>8 DEF NewConnectionCall, LoopTypes, LoopRefs, Do, Task
  <2>2. /\ UNCHANGED timeout
        /\ accepting' = [accepting EXCEPT !.step = next]
        /\ RunInLoop(Base, t)
    BY <1>8 DEF NewConnectionCall
  <2>3. accepting'.conn = c /\ accepting'.step = next /\ next # "enable"
    BY <2>1, <2>2
  <2> HIDE DEF t, c
  <2>4. CASE Execute(t) /\ conn[c].loop = Base
    <3>1. Due(t) /\ t.op \notin {"send", "shutdown"}
      BY <1>8, <2>1, <2>3, <2>4 DEF Due
    <3>2. \A d \in Conn : TimerMoves(d) /\ FreshMoves(d)
      BY <1>1, <2>1, <2>4, <3>1, ExecuteTimers
    <3> QED
      BY <2>1, <2>2, <2>3, <3>2 DEF TimerStep, c
  <2>5. CASE UNCHANGED <<conn, timer, cancelled>>
    <3>1. \A d \in Conn : TimerMoves(d) /\ FreshMoves(d)
      BY <2>5 DEF TimerMoves, TimerStays, FreshMoves, HasTimer
    <3> QED
      BY <2>1, <2>2, <2>3, <3>1 DEF TimerStep, c
  <2> QED
    BY <2>1, <2>2, <2>4, <2>5 DEF RunInLoop
<1>9. CASE InsertConnection
  <2>1. UNCHANGED <<timeout, conn, timer, cancelled>> /\ accepting'.conn = None
    BY <1>1, <1>9 DEF InsertConnection, LoopTypes
  <2> QED
    BY <2>1 DEF TimerStep, TimerMoves, TimerStays, FreshMoves, HasTimer
<1>10. ASSUME NEW l \in Loop, RunTask(l) PROVE TimerStep
  <2> DEFINE t == Head(batch[l])
  <2>1. /\ batch[l] # <<>> /\ batch[l] \in Seq(Task) /\ Execute(t)
        /\ UNCHANGED <<timeout, accepting>>
    BY <1>1, <1>10 DEF RunTask, LoopTypes
  <2>2. t \in Task /\ t \in Range(batch[l]) /\ t \in Pending(l) /\ Due(t)
    BY <1>1, <1>10, <2>1, RangeHeadTail, QueueType DEF Due
  <2> HIDE DEF t
  <2>3. t.conn \in Conn /\ Born(t.conn)
    BY <1>1, <2>2 DEF Task, LoopRefs, Placed
  <2>4. t.op \in {"send", "shutdown"} => conn[t.conn].state # "CONNECTING"
    BY <2>2, <2>3 DEF LifeInv, FreshIsUnknown
  <2>5. \A d \in Conn : TimerMoves(d) /\ FreshMoves(d)
    BY <1>1, <2>1, <2>2, <2>3, <2>4, ExecuteTimers
  <2> QED
    BY <2>1, <2>5 DEF TimerStep
<1>11. ASSUME NEW c \in Conn, NEW op \in UserOps, UserCalls(op, c) PROVE TimerStep
  BY <1>3, <1>11 DEF UserCalls
<1>12. ASSUME NEW c \in Conn,
              PeerConnects(c) \/ PeerSends(c) \/ PeerCloses(c) \/ PeerResets(c) \/ UserDrops(c)
       PROVE  TimerStep
  BY <1>3, <1>12 DEF PeerConnects, PeerSends, PeerCloses, PeerResets, UserDrops
<1>13. ASSUME NEW l \in Loop, SecondPasses(l) \/ PollInterrupted(l)
       PROVE  TimerStep
  BY <1>3, <1>13 DEF SecondPasses, PollInterrupted
<1>14. CASE UNCHANGED vars
  BY <1>3, <1>14 DEF vars
<1>15. CASE RunAfter
  BY <1>8, <1>15 DEF RunAfter
<1> QED
  BY <1>4, <1>5, <1>6, <1>7, <1>8, <1>9, <1>10, <1>11, <1>12, <1>13, <1>14, <1>15
     DEF Next, LoopStep, Environment
-----------------------------------------------------------------------------
(* A queued Release goes on being queued until it has closed its           *)
(* connection.                                                             *)
LEMMA ReleaseStays ==
  ASSUME LifeInv, ServerStep, NEW c \in Conn, Born(c), conn'[c].open,
         NEW l \in Loop, Do("release", c) \in Pending(l)
  PROVE  Do("release", c) \in Pending(l)'
<1>1. TypeInv /\ QueueMoves(l) /\ Moves(c)
  BY DEF LifeInv, ServerStep
<1>2. conn[c].open
  BY <1>1, MovesOn
<1>3. ~(RunTask(l) /\ Do("release", c) = Head(batch[l]))
  BY <1>2, ReleaseCloses
<1> QED
  BY <1>1, <1>3, PendingMoves

(* What is in a pool is pending. *)
LEMMA QueuedIsPending ==
  ASSUME TypeInv', NEW l \in Loop, NEW t \in Range(tasks'[l])
  PROVE  t \in Pending(l)'
<1>1. batch'[l] \in Seq(Task) /\ tasks'[l] \in Seq(Task)
  BY DEF TypeInv, TypeOK, ServerTypes, LoopTypes
<1>2. Range(batch'[l] \o tasks'[l]) = Range(batch'[l]) \cup Range(tasks'[l])
  BY <1>1, RangeConcat
<1> QED
  BY <1>2 DEF Pending, Queue

(* A task that is run from the queue is at its head, in its connection's   *)
(* loop unless it is a removal.                                            *)
LEMMA DueTask ==
  ASSUME TypeInv, NEW c \in Conn, NEW op, op # "remove", Due(Do(op, c))
  PROVE  /\ Born(c)
         /\ \/ LET l == conn[c].loop
               IN  /\ l \in Loop /\ RunTask(l) /\ Queue(l) # <<>>
                   /\ Queue(l)[1] = Do(op, c) /\ Do(op, c) \in Pending(l)
            \/ /\ accepting = [conn |-> c, step |-> op] /\ accepting' # accepting
               /\ conn[c].loop = Base
<1>1. LoopRefs /\ ServerRefs /\ Do(op, c).conn = c /\ Do(op, c).op = op
  BY DEF TypeInv, Do
<1>2. CASE \E l \in Loop : RunTask(l) /\ Do(op, c) = Head(batch[l])
  <2>1. PICK l \in Loop : RunTask(l) /\ Do(op, c) = Head(batch[l])
    BY <1>2
  <2>2. batch[l] # <<>> /\ batch[l] \in Seq(Task) /\ tasks[l] \in Seq(Task)
    BY <2>1, QueueType DEF RunTask
  <2>3. Do(op, c) \in Range(batch[l]) /\ Do(op, c) \in Pending(l)
    BY <2>1, <2>2, RangeHeadTail, QueueType
  <2>4. Born(c) /\ conn[c].loop = l
    BY <1>1, <2>3 DEF LoopRefs, Placed
  <2>5. Queue(l) # <<>> /\ Head(Queue(l)) = Do(op, c) /\ Queue(l) \in Seq(Task)
    BY <2>1, <2>2, ConcatTail, QueueType DEF Queue
  <2>6. Queue(l)[1] = Do(op, c)
    BY <2>5
  <2> QED
    BY <2>1, <2>3, <2>4, <2>5, <2>6
<1>3. CASE /\ accepting = [conn |-> c, step |-> op] /\ accepting' # accepting
           /\ conn[c].loop = Base
  <2>1. c # None
    BY ServerAssumption
  <2> QED
    BY <1>1, <1>3, <2>1 DEF LoopRefs
<1> QED
  BY <1>1, <1>2, <1>3 DEF Due

(* EnableInactiveRelease is still ahead of all else its connection will be *)
(* asked to do, and nothing of that is run in this step.                   *)
LEMMA EnableMoves ==
  ASSUME TimerInv, ServerStep, TypeInv', "enable" \notin UserOps,
         NEW l \in Loop, NEW t \in Pending(l)', t.op = "enable"
  PROVE  LET c == t.conn
         IN  /\ c \in Conn /\ Born(c) /\ conn[c].loop = l /\ l # Base
             /\ conn[c].state = "CONNECTING" /\ ~HasTimer(c) /\ timeout > 0
             /\ \A op : op # "remove" => ~Due(Do(op, c))
<1> DEFINE c == t.conn
           Q == Queue(l)
<1>1. /\ TypeInv /\ LifeInv /\ LoopTypes /\ QueueMoves(l) /\ Q \in Seq(Task)
      /\ LoopRefs /\ ServerRefs
  BY QueueType DEF TimerInv, LifeInv, ServerStep, TypeInv, TypeOK
<1>2. PICK s \in Seq(Task) :
        /\ Reasons(s)
        /\ \/ ~RunTask(l) /\ Queue(l)' = Q \o s
           \/ RunTask(l) /\ Queue(l)' = Tail(Q) \o s
  BY <1>1 DEF QueueMoves
<1>3. RunTask(l) => Q # <<>>
  <2> SUFFICES ASSUME RunTask(l) PROVE Q # <<>>
    OBVIOUS
  <2>1. batch[l] # <<>> /\ batch[l] \in Seq(Task) /\ tasks[l] \in Seq(Task)
    BY <1>1, QueueType DEF RunTask
  <2> QED
    BY <2>1, ConcatTail DEF Queue
<1>4. Pending(l)' = Range(Queue(l)')
  BY DEF Pending
<1> HIDE DEF Q
<1>5. t \in Range(s) \/ \E i \in DOMAIN Q : t = Q[i] /\ (RunTask(l) => i > 1)
  <2>1. CASE ~RunTask(l) /\ Queue(l)' = Q \o s
    <3>1. Range(Q \o s) = Range(Q) \cup Range(s)
      BY <1>1, RangeConcat
    <3> QED
      BY <1>4, <2>1, <3>1 DEF Range
  <2>2. CASE RunTask(l) /\ Queue(l)' = Tail(Q) \o s
    <3>1. Tail(Q) \in Seq(Task)
      BY <1>1, <1>3, <2>2
    <3>2. \A q \in Seq(Task) : Range(q \o s) = Range(q) \cup Range(s)
      BY RangeConcat
    <3>3. t \in Range(Tail(Q)) \cup Range(s)
      BY <1>4, <2>2, <3>1, <3>2
    <3>4. \A i \in DOMAIN Tail(Q) : i + 1 \in DOMAIN Q /\ Tail(Q)[i] = Q[i + 1] /\ i + 1 > 1
      BY <1>1, <1>3, <2>2
    <3>5. ASSUME t \in Range(Tail(Q)) PROVE \E i \in DOMAIN Q : t = Q[i] /\ i > 1
      <4>1. PICK i \in DOMAIN Tail(Q) : t = Tail(Q)[i]
        BY <3>5 DEF Range
      <4> WITNESS i + 1 \in DOMAIN Q
      <4> QED
        BY <3>4, <4>1
    <3> QED
      BY <3>3, <3>5
  <2> QED
    BY <1>2, <2>1, <2>2
<1>6. CASE t \in Range(s)
  <2>1. Reason(t) /\ t \in Task /\ c \in Conn
    <3>1. Reason(t) /\ Range(s) \subseteq Task
      BY <1>2, <1>6 DEF Reasons, Range
    <3> QED
      BY <1>6, <3>1 DEF Task
  <2>2. accepting.step = "enable" /\ accepting.conn = c /\ conn[c].loop # Base
    BY <2>1 DEF Reason
  <2>3. accepting = [conn |-> c, step |-> "enable"] /\ Born(c)
    <3>1. accepting = [conn |-> accepting.conn, step |-> accepting.step]
      BY <1>1 DEF LoopTypes
    <3>2. c # None
      BY <2>1, ServerAssumption
    <3> QED
      BY <1>1, <2>2, <3>1, <3>2 DEF LoopRefs
  <2>4. /\ conn[c].state = "CONNECTING" /\ ~HasTimer(c) /\ timeout > 0
        /\ \A k \in Loop : \A u \in Pending(k) : u.conn # c
    BY <2>1, <2>3 DEF TimerInv, NewIsUntouched
  <2>5. \A op : op # "remove" => ~Due(Do(op, c))
    <3> SUFFICES ASSUME NEW op, op # "remove", Due(Do(op, c)) PROVE FALSE
      OBVIOUS
    <3>1. \/ conn[c].loop \in Loop /\ Do(op, c) \in Pending(conn[c].loop)
          \/ conn[c].loop = Base
      BY <1>1, <2>1, DueTask
    <3> QED
      BY <2>2, <2>4, <3>1 DEF Do
  <2>6. conn[c].loop = l
    <3>1. Placed(l, t)'
      <4>1. batch'[l] \in Seq(Task) /\ tasks'[l] \in Seq(Task)
        BY DEF TypeInv, TypeOK, ServerTypes, LoopTypes
      <4>2. Range(batch'[l] \o tasks'[l]) = Range(batch'[l]) \cup Range(tasks'[l])
        BY <4>1, RangeConcat
      <4> QED
        BY <4>2 DEF Pending, Queue, TypeInv, ServerRefs, LoopRefs
    <3>2. conn'[c].loop = conn[c].loop
      BY <1>1, <2>1, <2>3, MovesOn DEF ServerStep
    <3> QED
      BY <3>1, <3>2 DEF Placed
  <2> QED
    BY <2>1, <2>2, <2>3, <2>4, <2>5, <2>6
<1>7. CASE \E i \in DOMAIN Q : t = Q[i] /\ (RunTask(l) => i > 1)
  <2>1. PICK i \in DOMAIN Q : t = Q[i] /\ (RunTask(l) => i > 1)
    BY <1>7
  <2>2. t \in Pending(l) /\ t \in Task /\ c \in Conn
    <3>1. t \in Pending(l)
      BY <2>1 DEF Pending, Range, Q
    <3>2. t \in Task
      BY <1>1, <3>1, QueueType
    <3> QED
      BY <3>1, <3>2 DEF Task
  <2>3. /\ l # Base /\ conn[c].state = "CONNECTING" /\ ~HasTimer(c) /\ timeout > 0
    BY <2>2 DEF TimerInv, EnableIsAhead
  <2>4. Born(c) /\ conn[c].loop = l
    BY <1>1, <2>2, QueueType DEF LoopRefs, ServerRefs, Placed
  <2>5. \A op : op # "remove" => ~Due(Do(op, c))
    <3> SUFFICES ASSUME NEW op, op # "remove", Due(Do(op, c)) PROVE FALSE
      OBVIOUS
    <3>1. RunTask(l) /\ Q # <<>> /\ Q[1] = Do(op, c)
      BY <1>1, <2>2, <2>3, <2>4, DueTask DEF Q
    <3>2. 1 \in DOMAIN Q /\ i \in Nat
      BY <1>1, <3>1
    <3>3. i <= 1
      BY <2>1, <3>1, <3>2 DEF TimerInv, EnableIsFirst, Q, Do
    <3> QED
      BY <2>1, <3>1, <3>2, <3>3
  <2> QED
    BY <2>2, <2>3, <2>4, <2>5
<1> QED
  BY <1>5, <1>6, <1>7

(* A connection whose timer NewConnection has yet to ask for is untouched. *)
LEMMA NewIsUntouchedStep ==
  ASSUME TimerInv, TimerStep, ServerStep, TypeInv', "enable" \notin UserOps
  PROVE  NewIsUntouched'
<1> SUFFICES ASSUME NEW c \in Conn, accepting' = [conn |-> c, step |-> "enable"]
             PROVE  /\ conn'[c].state = "CONNECTING" /\ ~HasTimer(c)' /\ timeout' > 0
                    /\ \A l \in Loop : \A t \in Pending(l)' : t.conn # c
  BY DEF NewIsUntouched
<1>1. /\ TypeInv /\ LifeInv /\ LoopTypes /\ LoopRefs /\ ServerRefs /\ c # None
      /\ TimerMoves(c) /\ FreshMoves(c) /\ UNCHANGED timeout
      /\ accepting'.conn = c /\ accepting'.step = "enable"
  BY ServerAssumption DEF TimerInv, LifeInv, TypeInv, TypeOK, TimerStep
<1>2. \/ accepting' = accepting
      \/ /\ accepting.conn = None /\ ~Born(c) /\ timeout > 0
         /\ UNCHANGED <<tasks, batch, timer>>
  BY <1>1 DEF TimerStep
<1>3. CASE accepting' = accepting
  <2>1. /\ conn[c].state = "CONNECTING" /\ ~HasTimer(c) /\ timeout > 0 /\ Born(c)
        /\ \A l \in Loop : \A t \in Pending(l) : t.conn # c
    BY <1>1, <1>3 DEF TimerInv, NewIsUntouched, LoopRefs
  <2>2. \A op : op # "remove" => ~Due(Do(op, c))
    <3> SUFFICES ASSUME NEW op, op # "remove", Due(Do(op, c)) PROVE FALSE
      OBVIOUS
    <3>1. conn[c].loop \in Loop /\ Do(op, c) \in Pending(conn[c].loop)
      BY <1>1, <1>3, DueTask
    <3> QED
      BY <2>1, <3>1 DEF Do
  <2>3. conn'[c].state = "CONNECTING" /\ ~HasTimer(c)'
    BY <1>1, <2>1, <2>2 DEF FreshMoves, TimerMoves, TimerStays, TimerStarts, TimerStops,
                           TimerFires
  <2>4. conn'[c].open /\ c \notin shared
    BY <1>1, <2>1, <2>3, MovesOn DEF ServerStep, LifeInv, FreshIsUnknown
  <2>5. ASSUME NEW l \in Loop, NEW t \in Pending(l)', t.conn = c PROVE FALSE
    <3>1. t \in Pending(l) \/ Reason(t)
      BY <1>1, PendingMoves DEF ServerStep
    <3> QED
      BY <1>3, <2>1, <2>4, <2>5, <3>1 DEF Reason
  <2> QED
    BY <1>1, <2>1, <2>3, <2>5
<1>4. CASE /\ accepting.conn = None /\ ~Born(c) /\ timeout > 0
           /\ UNCHANGED <<tasks, batch, timer>>
  <2>1. Born(c)'
    BY <1>1 DEF TypeInv, LoopRefs
  <2>2. Comes(c)
    BY <1>4, <2>1 DEF ServerStep, Born
  <2>3. conn'[c].state = "CONNECTING"
    BY <2>2, ComesFresh
  <2>4. ~HasTimer(c)'
    BY <1>1, <1>4 DEF HasTimer, ServerRefs
  <2>5. \A l \in Loop : \A t \in Pending(l)' : t.conn # c
    <3>1. \A l \in Loop : Pending(l)' = Pending(l)
      BY <1>4 DEF Pending, Queue
    <3>2. \A l \in Loop : \A t \in Pending(l) : Born(t.conn)
      BY <1>1, QueueType DEF LoopRefs, ServerRefs, Placed
    <3> QED
      BY <1>4, <3>1, <3>2
  <2> QED
    BY <1>1, <1>4, <2>3, <2>4, <2>5
<1> QED
  BY <1>2, <1>3, <1>4

(* While the request for a timer is queued, its connection is new.         *)
LEMMA EnableIsAheadStep ==
  ASSUME TimerInv, TimerStep, ServerStep, TypeInv', "enable" \notin UserOps
  PROVE  EnableIsAhead'
<1> SUFFICES ASSUME NEW l \in Loop, NEW t \in Pending(l)', t.op = "enable"
             PROVE  /\ l # Base /\ conn'[t.conn].state = "CONNECTING"
                    /\ ~HasTimer(t.conn)' /\ timeout' > 0
  BY DEF EnableIsAhead
<1> DEFINE c == t.conn
<1>1. /\ c \in Conn /\ Born(c) /\ l # Base
      /\ conn[c].state = "CONNECTING" /\ ~HasTimer(c) /\ timeout > 0
      /\ \A op : op # "remove" => ~Due(Do(op, c))
  BY EnableMoves
<1>2. TimerMoves(c) /\ FreshMoves(c) /\ UNCHANGED timeout
  BY <1>1 DEF TimerStep
<1> HIDE DEF c
<1>3. conn'[c].state = "CONNECTING" /\ ~HasTimer(c)'
  BY <1>1, <1>2 DEF FreshMoves, TimerMoves, TimerStays, TimerStarts, TimerStops, TimerFires
<1> QED
  BY <1>1, <1>2, <1>3 DEF c

(* It stays the first thing that runs. *)
LEMMA EnableIsFirstStep ==
  ASSUME TimerInv, ServerStep, TypeInv', "enable" \notin UserOps
  PROVE  EnableIsFirst'
<1> SUFFICES ASSUME NEW l \in Loop, NEW i \in DOMAIN Queue(l)', NEW j \in DOMAIN Queue(l)',
                    Queue(l)'[i].op = "enable", Queue(l)'[j].conn = Queue(l)'[i].conn,
                    ~(i <= j)
             PROVE  FALSE
  BY DEF EnableIsFirst
<1> DEFINE Q == Queue(l)
           P == IF RunTask(l) THEN Tail(Q) ELSE Q
           t == Queue(l)'[i]
           c == t.conn
<1>1. /\ TypeInv /\ LoopTypes /\ QueueMoves(l) /\ Q \in Seq(Task)
  BY QueueType DEF TimerInv, LifeInv, ServerStep, TypeInv, TypeOK
<1>2. PICK s \in Seq(Task) :
        /\ Reasons(s)
        /\ \/ ~RunTask(l) /\ Queue(l)' = Q \o s
           \/ RunTask(l) /\ Queue(l)' = Tail(Q) \o s
  BY <1>1 DEF QueueMoves
<1>3. RunTask(l) => Q # <<>>
  <2> SUFFICES ASSUME RunTask(l) PROVE Q # <<>>
    OBVIOUS
  <2>1. batch[l] # <<>> /\ batch[l] \in Seq(Task) /\ tasks[l] \in Seq(Task)
    BY <1>1, QueueType DEF RunTask
  <2> QED
    BY <2>1, ConcatTail DEF Queue
<1>4. Queue(l)' = P \o s
  BY <1>2
<1>5. EnableIsFirst
  BY DEF TimerInv
<1>6. \A m, n \in DOMAIN Q : Q[m].op = "enable" /\ Q[n].conn = Q[m].conn => m <= n
  BY <1>5 DEF EnableIsFirst
<1>7. \A n \in DOMAIN Q : Q[n] \in Pending(l)
  BY DEF Pending, Range
<1> HIDE DEF Q
<1>8. /\ P \in Seq(Task)
      /\ \A n \in DOMAIN P : \E m \in DOMAIN Q : P[n] = Q[m]
      /\ \A m, n \in DOMAIN P : P[m].op = "enable" /\ P[n].conn = P[m].conn => m <= n
  <2>1. CASE ~RunTask(l)
    BY <1>1, <1>6, <2>1
  <2>2. CASE RunTask(l)
    <3>1. /\ P = Tail(Q) /\ P \in Seq(Task)
          /\ \A n \in DOMAIN P : n \in Nat /\ n + 1 \in DOMAIN Q /\ P[n] = Q[n + 1]
      BY <1>1, <1>3, <2>2
    <3> HIDE DEF P
    <3>2. ASSUME NEW m \in DOMAIN P, NEW n \in DOMAIN P, P[m].op = "enable",
                 P[n].conn = P[m].conn
          PROVE  m <= n
      <4>1. m + 1 <= n + 1
        BY <1>6, <3>1, <3>2
      <4> QED
        BY <3>1, <4>1
    <3> QED
      BY <3>1, <3>2
  <2> QED
    BY <2>1, <2>2
<1> HIDE DEF P
<1>9. /\ i \in Nat /\ j \in Nat /\ Len(P) \in Nat /\ Len(s) \in Nat
      /\ i <= Len(P) => i \in DOMAIN P /\ Queue(l)'[i] = P[i]
      /\ j <= Len(P) => j \in DOMAIN P /\ Queue(l)'[j] = P[j]
      /\ i > Len(P) => i - Len(P) \in 1 .. Len(s) /\ Queue(l)'[i] = s[i - Len(P)]
      /\ j > Len(P) => j - Len(P) \in 1 .. Len(s)
  BY <1>4, <1>8
<1>10. CASE i <= Len(P)
  BY <1>8, <1>9, <1>10
<1>11. CASE i > Len(P)
  <2>1. t \in Range(s) /\ t.op = "enable" /\ t \in Task
    BY <1>9, <1>11 DEF Range
  <2> HIDE DEF t
  <2>2. Len(s) <= 1 /\ Reason(t) /\ c \in Conn
    BY <1>2, <2>1 DEF Reasons, Task
  <2>3. CASE j > Len(P)
    BY <1>9, <1>11, <2>2, <2>3
  <2>4. CASE j <= Len(P)
    <3>1. accepting.step = "enable" /\ accepting.conn = c
      BY <2>1, <2>2 DEF Reason
    <3>2. accepting = [conn |-> c, step |-> "enable"]
      <4>1. accepting = [conn |-> accepting.conn, step |-> accepting.step]
        BY <1>1 DEF LoopTypes
      <4> QED
        BY <3>1, <4>1
    <3>3. \A u \in Pending(l) : u.conn # c
      BY <2>2, <3>2 DEF TimerInv, NewIsUntouched
    <3>4. \E u \in Pending(l) : u.conn = c
      BY <1>7, <1>8, <1>9, <2>4 DEF t
    <3> QED
      BY <3>3, <3>4
  <2> QED
    BY <1>9, <2>3, <2>4
<1> QED
  BY <1>9, <1>10, <1>11

(* EnableInactiveRelease finds its connection as NewConnection left it. *)
LEMMA EnableFindsNew ==
  ASSUME TimerInv, NEW c \in Conn, Due(Do("enable", c))
  PROVE  /\ Born(c) /\ conn[c].open /\ ~HasTimer(c) /\ timeout > 0
<1>1. TypeInv /\ LifeInv /\ Do("enable", c).op = "enable" /\ Do("enable", c).conn = c
  BY DEF TimerInv, LifeInv, Do
<1>2. Born(c) /\ conn[c].state = "CONNECTING" /\ ~HasTimer(c) /\ timeout > 0
  BY <1>1, DueTask DEF TimerInv, NewIsUntouched, EnableIsAhead
<1> QED
  BY <1>1, <1>2 DEF LifeInv, FreshIsUnknown

(* The timers follow. *)
LEMMA TimersStep ==
  ASSUME TimerInv, TimerStep, ServerStep, LifeInv'
  PROVE  TimerIsOpen' /\ CancelledHasTimer' /\ EnabledIsArmed'
<1>1. TypeInv /\ TypeInv' /\ LifeInv /\ ServerRefs /\ ServerTypes /\ ServerTypes'
  BY DEF TimerInv, LifeInv, TypeInv, TypeOK
<1>2. ASSUME NEW c \in Conn
      PROVE  /\ HasTimer(c) => Born(c)
             /\ c \in cancelled => HasTimer(c)
             /\ HasTimer(c) /\ c \notin cancelled => conn[c].open
             /\ Due(Do("enable", c)) =>
                  Born(c) /\ conn[c].open /\ ~HasTimer(c) /\ timeout > 0
             /\ TimerMoves(c) /\ UNCHANGED timeout
  BY <1>1, <1>2, EnableFindsNew DEF TimerInv, TimerIsOpen, CancelledHasTimer, ServerRefs,
                                   TimerStep
<1>3. ASSUME NEW c \in Conn, HasTimer(c)', c \notin cancelled' PROVE conn'[c].open
  BY <1>2, <1>3 DEF TimerMoves, TimerStays, TimerStarts, TimerStops, TimerFires
<1>4. ASSUME NEW c \in cancelled' PROVE HasTimer(c)'
  <2>1. c \in Conn
    BY <1>1 DEF ServerTypes
  <2> QED
    BY <1>2, <1>4, <2>1 DEF TimerMoves, TimerStays, TimerStarts, TimerStops, TimerFires
<1>5. ASSUME NEW c \in Conn, NEW l \in Loop, Born(c)', conn'[c].open, conn'[c].enabled,
             conn'[c].loop = l, ~(HasTimer(c)' /\ c \notin cancelled')
      PROVE  Do("release", c) \in Pending(l)'
  <2>1. Born(c)
    BY <1>5, ComesFresh DEF ServerStep, Born
  <2>2. conn[c].loop = l /\ conn[c].open
    BY <1>1, <1>5, <2>1, MovesOn DEF ServerStep
  <2>3. Do("release", c) \in Pending(l) => Do("release", c) \in Pending(l)'
    BY <1>1, <1>5, <2>1, ReleaseStays
  <2>4. /\ conn[c].enabled =>
             (HasTimer(c) /\ c \notin cancelled) \/ Do("release", c) \in Pending(l)
    BY <2>1, <2>2 DEF TimerInv, EnabledIsArmed
  <2>5. CASE TimerStays(c)
    BY <1>5, <2>1, <2>3, <2>4, <2>5 DEF TimerStays
  <2>6. CASE TimerStarts(c)
    <3>1. HasTimer(c)' /\ c \notin cancelled'
      BY <1>2, <2>6 DEF TimerStarts, HasTimer
    <3> QED
      BY <1>5, <3>1
  <2>7. CASE TimerStops(c)
    BY <1>5, <2>7 DEF TimerStops
  <2>8. CASE TimerFires(c)
    <3>1. conn[c].enabled
      BY <1>5, <2>8 DEF TimerFires
    <3>2. CASE c \notin cancelled
      BY <1>1, <2>2, <2>8, <3>2, QueuedIsPending DEF TimerFires
    <3> QED
      BY <2>3, <2>4, <3>1, <3>2
  <2> QED
    BY <1>2, <2>5, <2>6, <2>7, <2>8 DEF TimerMoves
<1> QED
  BY <1>3, <1>4, <1>5 DEF TimerIsOpen, CancelledHasTimer, EnabledIsArmed

(* TimerInv holds at first ... *)
LEMMA TimerInit == Init => TimerInv
<1> SUFFICES ASSUME Init PROVE TimerInv
  OBVIOUS
<1>1. /\ \A c \in Conn : ~Born(c) /\ ~HasTimer(c)
      /\ \A l \in Loop : batch[l] = <<>> /\ tasks[l] = <<>>
      /\ accepting.conn = None /\ cancelled = {} /\ None \notin Conn
  BY ServerAssumption DEF Init, Born, HasTimer
<1>2. \A l \in Loop : DOMAIN Queue(l) = {} /\ Pending(l) = {}
  <2>1. <<>> \o <<>> = <<>> /\ DOMAIN <<>> = {}
    OBVIOUS
  <2>2. Range(<<>>) = {}
    BY DEF Range
  <2> QED
    BY <1>1, <2>1, <2>2 DEF Pending, Queue
<1>3. \A c \in Conn : accepting # [conn |-> c, step |-> "enable"]
  BY <1>1
<1> QED
  BY <1>1, <1>2, <1>3, LifeInit DEF TimerInv, NewIsUntouched, EnableIsAhead,
     EnableIsFirst, TimerIsOpen, CancelledHasTimer, EnabledIsArmed

(* ... and each step keeps it. *)
LEMMA TimerInvStep ==
  ASSUME "enable" \notin UserOps
  PROVE  TimerInv /\ [Next]_vars => TimerInv'
<1> SUFFICES ASSUME TimerInv, [Next]_vars PROVE TimerInv'
  OBVIOUS
<1>1. LifeInv /\ LifeInv' /\ TypeInv'
  BY LifeStep DEF TimerInv, LifeInv
<1>2. ServerStep /\ TimerStep
  BY <1>1, ServerSteps, TimerSteps
<1> QED
  BY <1>1, <1>2, NewIsUntouchedStep, EnableIsAheadStep, EnableIsFirstStep, TimersStep
     DEF TimerInv

(* A timer that can still fire belongs to a connection that exists and is  *)
(* not released, so its callback's bare this is good, unless the user's    *)
(* threads call EnableInactiveRelease, which may come after the release.   *)
THEOREM TimersHoldOnlyLive ==
  "enable" \notin UserOps => (Spec => []TimerImpliesLive)
<1> SUFFICES ASSUME "enable" \notin UserOps PROVE Spec => []TimerImpliesLive
  OBVIOUS
<1>1. TimerInv => TimerImpliesLive
  BY DEF TimerInv, TimerIsOpen, LifeInv, TypeInv, ServerRefs, OpenIsKept, TimerImpliesLive,
         Alive, Kept
<1> QED
  BY <1>1, TimerInit, TimerInvStep, PTL DEF Spec

(* An established connection that inactivity is to release has a timer     *)
(* that will do it, or its Release is queued already, unless the user's    *)
(* threads call EnableInactiveRelease, which revives no cancelled timer.   *)
THEOREM InactiveHasTimer ==
  "enable" \notin UserOps => (Spec => []InactiveIsArmed)
<1> SUFFICES ASSUME "enable" \notin UserOps PROVE Spec => []InactiveIsArmed
  OBVIOUS
<1>1. TimerInv => InactiveIsArmed
  <2> SUFFICES ASSUME TimerInv, NEW c \in Conn, Established(c), conn[c].enabled,
                      ~(HasTimer(c) /\ c \notin cancelled)
               PROVE  Releases(c) # {}
    BY DEF InactiveIsArmed
  <2>1. TypeInv /\ Born(c) /\ conn[c].open /\ conn[c].loop \in Loop
    BY WorkOfBorn DEF TimerInv, LifeInv, Established
  <2>2. Do("release", c) \in Pending(conn[c].loop)
    BY <2>1 DEF TimerInv, EnabledIsArmed
  <2> QED
    BY <2>1, <2>2, PendingRelease
<1> QED
  BY <1>1, TimerInit, TimerInvStep, PTL DEF Spec
-----------------------------------------------------------------------------
(* The pollers.  No descriptor is shared, what a poller knows is open, and *)
(* it monitors what it knows.                                              *)
OwnersDiffer ==
  \A c, d \in Conn :
    Born(c) /\ Born(d) /\ conn[c].open /\ conn[d].open /\ conn[c].fd = conn[d].fd
      => c = d

KnownIsOpen ==
  \A l \in Loop, f \in Fd : chan[l][f] # None => conn[chan[l][f]].open

MonitoredIsKnown ==
  \A l \in Loop, f \in Fd : interest[l][f] # None => chan[l][f] # None

EstablishedIsKnown ==
  \A c \in Conn : Established(c) =>
    /\ chan[conn[c].loop][conn[c].fd] = c
    /\ interest[conn[c].loop][conn[c].fd] = conn[c].events

ClosedIsDisconnected ==
  \A c \in Conn : Born(c) /\ ~conn[c].open => conn[c].state = "DISCONNECTED"

TableInv ==
  /\ OwnersDiffer /\ KnownIsOpen /\ MonitoredIsKnown /\ EstablishedIsKnown
  /\ ClosedIsDisconnected

(* What the last poll returned is open while it is handled: a Release is   *)
(* queued only then, for what is open, ...                                 *)
ActivesAreOpen ==
  \A l \in Loop : \A a \in actives[l] \ {Listen, OnTimer} : conn[a.chan].open

QueuedIsOpen ==
  \A l \in Loop : \A t \in Range(tasks[l]) : t.op = "release" =>
    pc[l] = "events" /\ conn[t.conn].open

(* ... so that a second Release in a batch finds nothing to remove under   *)
(* the descriptor, nor will until the end of the batch.                    *)
ClosedIsRemoved ==
  \A l \in Loop : \A t \in Range(batch[l]) :
    t.op = "release" /\ ~conn[t.conn].open => chan[l][conn[t.conn].fd] = None

BatchIsApart ==
  \A l \in Loop : \A t, u \in Range(batch[l]) :
    (/\ t.op = "release" /\ u.op = "established" /\ t.conn # u.conn
     /\ conn[u.conn].state = "CONNECTING")
      => conn[t.conn].fd # conn[u.conn].fd

(* Nobody but a thread of the user queues Shutdown.                        *)
NoShutdown == \A l \in Loop : \A t \in Pending(l) : t.op # "shutdown"

PollerInv ==
  /\ TimerInv /\ TableInv /\ NoShutdown
  /\ ActivesAreOpen /\ QueuedIsOpen /\ ClosedIsRemoved /\ BatchIsApart
-----------------------------------------------------------------------------
(* What a step may do to the tables. *)
SameConn(c) ==
  /\ Born(c)' <=> Born(c)
  /\ Born(c) => /\ conn'[c].open = conn[c].open /\ conn'[c].state = conn[c].state
                /\ conn'[c].events = conn[c].events

OnlyOf(c) == \A d \in Conn \ {c} : SameConn(d)

Monitors(c) ==
  /\ Established(c) \/ (conn[c].state = "CONNECTING" /\ Due(Do("established", c)))
  /\ Born(c) /\ conn[c].open /\ Born(c)' /\ conn'[c].open
  /\ conn'[c].state \in {"CONNECTED", "DISCONNECTING"}
  /\ \A l \in Loop, f \in Fd :
       IF l = conn[c].loop /\ f = conn[c].fd
       THEN chan'[l][f] = c /\ interest'[l][f] = conn'[c].events
       ELSE chan'[l][f] = chan[l][f] /\ interest'[l][f] = interest[l][f]

Closes(c) ==
  /\ Born(c) /\ conn[c].open /\ pc'[conn[c].loop] = "tasks"
  /\ Born(c)' /\ ~conn'[c].open /\ conn'[c].state = "DISCONNECTED"
  /\ Do("release", c) \in Range(batch[conn[c].loop])
  /\ \A l \in Loop, f \in Fd :
       /\ chan'[l][f] = IF l = conn[c].loop /\ f = conn[c].fd THEN None ELSE chan[l][f]
       /\ interest'[l][f] = IF f = conn[c].fd THEN None ELSE interest[l][f]

Arrives(c) == ~Born(c) /\ Comes(c) /\ UNCHANGED pollVars

TableStep ==
  \/ UNCHANGED pollVars /\ \A c \in Conn : SameConn(c)
  \/ \E c \in Conn : OnlyOf(c) /\ (Monitors(c) \/ Closes(c) \/ Arrives(c))
-----------------------------------------------------------------------------
(* UpdateEvent does what the connection asks for: epoll accepts it.        *)
LEMMA ApplyMonitors ==
  ASSUME PollerInv, NEW c \in Conn, Born(c), conn[c].open,
         NEW w \in WorkType, Apply(c, w),
         w.conn.open, w.conn.state \in {"CONNECTED", "DISCONNECTING"},
         \/ Established(c) /\ (w.updated \/ w.conn.events = conn[c].events)
         \/ conn[c].state = "CONNECTING" /\ Due(Do("established", c)) /\ w.updated
  PROVE  Monitors(c) /\ OnlyOf(c)
<1> DEFINE l == conn[c].loop
           f == conn[c].fd
<1>1. /\ TypeInv /\ LifeInv /\ ServerRefs /\ l \in Loop /\ f \in Fd
      /\ conn \in [Conn -> Connection \cup {None}]
      /\ chan \in [Loop -> [Fd -> Conn \cup {None}]]
      /\ interest \in [Loop -> [Fd -> (SUBSET {"IN", "OUT"}) \cup {None}]]
      /\ None \notin Connection /\ None \notin Conn
  BY WorkOfBorn, ServerAssumption DEF PollerInv, TimerInv, LifeInv, TypeInv, TypeOK, ServerTypes
<1>2. /\ conn' = [conn EXCEPT ![c] = w.conn]
      /\ IF w.updated THEN UpdateEvent(l, c, w.conn.events) ELSE UNCHANGED pollVars
  BY DEF Apply
<1>3. w.conn \in Connection /\ conn[c].events \in SUBSET {"IN", "OUT"}
  BY <1>1 DEF WorkType, Connection, Born
<1>4. /\ conn'[c] = w.conn /\ Born(c)'
      /\ \A d \in Conn \ {c} : conn'[d] = conn[d]
  BY <1>1, <1>2, <1>3 DEF Born
<1>5. OnlyOf(c)
  BY <1>4 DEF OnlyOf, SameConn, Born
<1> HIDE DEF l, f
<1>6. CASE Established(c)
  <2>1. chan[l][f] = c /\ interest[l][f] = conn[c].events
    BY <1>6 DEF PollerInv, TableInv, EstablishedIsKnown, l, f
  <2>2. interest[l][f] # None /\ chan[l][f] # None
    BY <1>1, <1>3, <2>1, ServerAssumption
  <2>3. CASE w.updated
    <3>1. /\ chan' = chan
          /\ interest' = [interest EXCEPT ![l] = [interest[l] EXCEPT ![f] = w.conn.events]]
      BY <1>2, <2>2, <2>3 DEF UpdateEvent, f
    <3> QED
      BY <1>1, <1>4, <1>5, <1>6, <2>1, <3>1 DEF Monitors, l, f
  <2>4. CASE ~w.updated
    <3>1. UNCHANGED pollVars /\ w.conn.events = conn[c].events
      BY <1>2, <1>6, <2>4 DEF Established
    <3> QED
      BY <1>1, <1>4, <1>5, <1>6, <2>1, <3>1 DEF Monitors, l, f, pollVars
  <2> QED
    BY <2>3, <2>4
<1>7. CASE conn[c].state = "CONNECTING" /\ Due(Do("established", c)) /\ w.updated
  <2>1. chan[l][f] = None
    <3> SUFFICES ASSUME chan[l][f] # None PROVE FALSE
      OBVIOUS
    <3> DEFINE d == chan[l][f]
    <3>1. d \in Conn /\ Born(d) /\ conn[d].fd = f
      BY <1>1 DEF ServerRefs
    <3>2. conn[d].open
      BY <1>1 DEF PollerInv, TableInv, KnownIsOpen
    <3>3. d = c
      BY <3>1, <3>2 DEF PollerInv, TableInv, OwnersDiffer, f
    <3>4. d # c
      BY <1>1, <1>7 DEF LifeInv, FreshIsUnknown
    <3> QED
      BY <3>3, <3>4
  <2>2. interest[l][f] = None
    BY <1>1, <2>1 DEF PollerInv, TableInv, MonitoredIsKnown
  <2>3. Owners(f) # {}
    BY DEF Owners, f
  <2>4. /\ chan' = [chan EXCEPT ![l] = [chan[l] EXCEPT ![f] = c]]
        /\ interest' = [interest EXCEPT ![l] = [interest[l] EXCEPT ![f] = w.conn.events]]
    BY <1>2, <1>7, <2>1, <2>2, <2>3 DEF UpdateEvent, f
  <2> QED
    BY <1>1, <1>4, <1>5, <1>7, <2>4 DEF Monitors, l, f
<1> QED
  BY <1>6, <1>7

(* A release removes the channel of its connection, or nothing.            *)
LEMMA ReleaseTable ==
  ASSUME PollerInv, NEW c \in Conn, Born(c), ReleaseInLoop(c),
         pc'[conn[c].loop] = "tasks", Do("release", c) \in Range(batch[conn[c].loop])
  PROVE  TableStep
<1> DEFINE l == conn[c].loop
           f == conn[c].fd
           k == [conn[c] EXCEPT !.state = "DISCONNECTED", !.open = FALSE,
                                !.enabled = @ /\ ~HasTimer(c)]
<1>1. /\ TypeInv /\ l \in Loop /\ f \in Fd /\ conn[c] \in Connection
      /\ conn \in [Conn -> Connection \cup {None}]
      /\ chan \in [Loop -> [Fd -> Conn \cup {None}]]
      /\ interest \in [Loop -> [Fd -> (SUBSET {"IN", "OUT"}) \cup {None}]]
      /\ None \notin Connection
  BY WorkOfBorn, ServerAssumption DEF PollerInv, TimerInv, LifeInv, TypeInv, TypeOK, ServerTypes
<1>2. k \in Connection /\ ~k.open /\ k.state = "DISCONNECTED" /\ k.events = conn[c].events
  BY <1>1 DEF Connection
<1>3. /\ conn' = [conn EXCEPT ![c] = k]
      /\ chan' = [chan EXCEPT ![l] = [chan[l] EXCEPT ![f] = None]]
      /\ interest' = [m \in Loop |-> IF m = l \/ conn[c].open
                                     THEN [interest[m] EXCEPT ![f] = None]
                                     ELSE interest[m]]
  BY DEF ReleaseInLoop, RemoveAndClose, CloseDescriptor
<1> HIDE DEF k, l, f
<1>4. conn'[c] = k /\ Born(c)' /\ \A d \in Conn \ {c} : conn'[d] = conn[d]
  BY <1>1, <1>2, <1>3 DEF Born
<1>5. OnlyOf(c)
  BY <1>4 DEF OnlyOf, SameConn, Born
<1>6. CASE conn[c].open
  <2>1. \A m \in Loop, g \in Fd :
          /\ chan'[m][g] = IF m = l /\ g = f THEN None ELSE chan[m][g]
          /\ interest'[m][g] = IF g = f THEN None ELSE interest[m][g]
    BY <1>1, <1>3, <1>6
  <2>2. Closes(c)
    BY <1>1, <1>2, <1>4, <1>6, <2>1 DEF Closes, l, f
  <2> QED
    BY <1>5, <2>2 DEF TableStep
<1>7. CASE ~conn[c].open
  <2>1. chan[l][f] = None /\ conn[c].state = "DISCONNECTED"
    BY <1>1, <1>7 DEF PollerInv, TableInv, ClosedIsRemoved, ClosedIsDisconnected, Do, l, f
  <2>2. interest[l][f] = None
    BY <1>1, <2>1 DEF PollerInv, TableInv, MonitoredIsKnown
  <2>3. [chan[l] EXCEPT ![f] = None] = chan[l] /\ [interest[l] EXCEPT ![f] = None] = interest[l]
    BY <1>1, <2>1, <2>2
  <2>4. chan' = chan
    BY <1>1, <1>3, <2>3
  <2>5. interest' = interest
    <3>1. \A m \in Loop : interest'[m] = interest[m]
      BY <1>1, <1>3, <1>7, <2>3
    <3>2. interest' = [m \in Loop |-> interest'[m]]
      BY <1>3
    <3>3. interest = [m \in Loop |-> interest[m]]
      BY <1>1
    <3> QED
      BY <3>1, <3>2, <3>3
  <2>6. \A d \in Conn : SameConn(d)
    BY <1>1, <1>2, <1>4, <1>5, <1>7, <2>1 DEF SameConn, OnlyOf, Connection
  <2> QED
    BY <2>4, <2>5, <2>6 DEF TableStep, pollVars
<1> QED
  BY <1>6, <1>7

(* A task of the queue, or NewConnection's call in place. *)
LEMMA ExecuteTable ==
  ASSUME PollerInv, NEW t \in Task, Born(t.conn), Execute(t), Due(t),
         t.op # "shutdown",
         t.op = "send" => conn[t.conn].state # "CONNECTING",
         t.op = "release" => /\ pc'[conn[t.conn].loop] = "tasks"
                             /\ t \in Range(batch[conn[t.conn].loop])
  PROVE  TableStep
<1> DEFINE c == t.conn
<1>1. /\ c \in Conn /\ Born(c) /\ t = Do(t.op, c) /\ TypeInv /\ LifeInv
      /\ conn[c] \in Connection /\ None \notin Connection
      /\ conn \in [Conn -> Connection \cup {None}]
      /\ Work(conn[c]) \in WorkType /\ Work(conn[c]).conn = conn[c]
  BY WorkOfBorn, ServerAssumption
     DEF PollerInv, TimerInv, LifeInv, TypeInv, TypeOK, ServerTypes, Task, Do
<1>2. \/ Crash
      \/ t.op = "established" /\ EstablishedInLoop(c)
      \/ t.op = "release" /\ ReleaseInLoop(c)
      \/ RemoveConnectionInLoop(c)
      \/ t.op = "send" /\ Effect(c, {SendInLoop(Work(conn[c]))})
      \/ EnableInactiveReleaseInLoop(c) \/ CancelInactiveReleaseInLoop(c)
  BY DEF Execute
<1> SUFFICES TableStep
  OBVIOUS
<1> HIDE DEF c
<1>3. ASSUME UNCHANGED <<conn, chan, interest>> PROVE TableStep
  BY <1>3 DEF TableStep, SameConn, Born, pollVars
<1>4. CASE Crash \/ RemoveConnectionInLoop(c)
  BY <1>3, <1>4 DEF Crash, RemoveConnectionInLoop, connVars, pollVars
<1>5. CASE t.op = "established" /\ EstablishedInLoop(c)
  <2>1. CASE conn[c].state # "CONNECTING"
    BY <1>3, <1>5, <2>1 DEF EstablishedInLoop, Crash, connVars, pollVars
  <2>2. CASE conn[c].state = "CONNECTING"
    <3>1. Apply(c, Opened(c)) /\ conn[c].open
      BY <1>1, <1>5, <2>2 DEF EstablishedInLoop, Opened, LifeInv, FreshIsUnknown
    <3>2. /\ Opened(c) \in WorkType /\ Opened(c).updated /\ Opened(c).conn.open
          /\ Opened(c).conn.state = "CONNECTED"
      <4>1. /\ Opened(c) \in WorkType /\ Opened(c).updated
            /\ Opened(c).conn = [conn[c] EXCEPT !.state = "CONNECTED",
                                                !.events = @ \cup {"IN"}]
        BY <1>1, OpenedWork
      <4> QED
        BY <1>1, <3>1, <4>1 DEF Connection
    <3> QED
      BY <1>1, <1>5, <2>2, <3>1, <3>2, ApplyMonitors DEF TableStep
  <2> QED
    BY <2>1, <2>2
<1>6. CASE t.op = "release" /\ ReleaseInLoop(c)
  BY <1>1, <1>6, ReleaseTable DEF c
<1>7. CASE t.op = "send" /\ Effect(c, {SendInLoop(Work(conn[c]))})
  <2> DEFINE w == SendInLoop(Work(conn[c]))
  <2>1. Apply(c, w)
    BY <1>7 DEF Effect
  <2>2. Continues(Work(conn[c]), w) /\ w \in WorkType
    BY <1>1, SendInLoopWorks DEF Continues
  <2>3. conn[c].state # "CONNECTING"
    BY <1>7 DEF c
  <2>4. CASE conn[c].state = "DISCONNECTED"
    <3>1. w = Work(conn[c]) /\ w.updated = FALSE /\ w.conn = conn[c]
      BY <1>1, <2>4 DEF SendInLoop, Work
    <3> HIDE DEF w
    <3>2. UNCHANGED <<chan, interest>> /\ conn' = [conn EXCEPT ![c] = conn[c]]
      BY <2>1, <3>1 DEF Apply, pollVars
    <3>3. conn' = conn
      BY <1>1, <3>2
    <3> QED
      BY <1>3, <3>2, <3>3
  <2>5. CASE conn[c].state # "DISCONNECTED"
    <3> HIDE DEF w
    <3>1. conn[c].open
      BY <1>1, <2>5 DEF PollerInv, TableInv, ClosedIsDisconnected
    <3>2. Established(c)
      BY <1>1, <2>3, <2>5, <3>1 DEF Established, Connection
    <3>3. /\ w.conn.open /\ w.conn.state \in {"CONNECTED", "DISCONNECTING"}
          /\ w.updated \/ w.conn.events = conn[c].events
      BY <1>1, <2>2, <3>1, <3>2 DEF Continues, Established
    <3> QED
      BY <1>1, <2>1, <2>2, <3>1, <3>2, <3>3, ApplyMonitors DEF TableStep
  <2> QED
    BY <2>4, <2>5
<1>8. CASE EnableInactiveReleaseInLoop(c) \/ CancelInactiveReleaseInLoop(c)
  <2>1. PICK b \in BOOLEAN : conn' = [conn EXCEPT ![c] = [conn[c] EXCEPT !.enabled = b]]
    BY <1>8 DEF EnableInactiveReleaseInLoop, CancelInactiveReleaseInLoop
  <2> DEFINE k == [conn[c] EXCEPT !.enabled = b]
  <2>2. /\ k \in Connection /\ k.open = conn[c].open /\ k.state = conn[c].state
        /\ k.events = conn[c].events
    BY <1>1 DEF Connection
  <2>3. conn' = [conn EXCEPT ![c] = k] /\ UNCHANGED pollVars
    BY <1>8, <2>1 DEF EnableInactiveReleaseInLoop, CancelInactiveReleaseInLoop
  <2> HIDE DEF k
  <2>4. \A d \in Conn : SameConn(d)
    BY <1>1, <2>2, <2>3 DEF SameConn, Born
  <2> QED
    BY <2>3, <2>4 DEF TableStep
<1> QED
  BY <1>2, <1>4, <1>5, <1>6, <1>7, <1>8

(* Every step is one of those. *)
LEMMA TableSteps ==
  ASSUME PollerInv, [Next]_vars
  PROVE  TableStep
<1>1. /\ TypeInv /\ LifeInv /\ ServerTypes /\ LoopTypes /\ ServerRefs /\ LoopRefs
      /\ Base \in Loop
  BY ServerAssumption DEF PollerInv, TimerInv, LifeInv, TypeInv, TypeOK
<1>2. \A l \in Loop : actives[l] \subseteq {Listen, OnTimer} \cup Active
  BY <1>1 DEF LoopTypes
<1>3. ASSUME UNCHANGED <<conn, chan, interest>> PROVE TableStep
  BY <1>3 DEF TableStep, SameConn, Born, pollVars
<1> USE DEF connVars, loopVars, pollVars
<1>4. ASSUME NEW l \in Loop, Poll(l) \/ SwapTasks(l) \/ FinishBatch(l) \/ OnTime(l)
      PROVE  TableStep
  BY <1>3, <1>4 DEF Poll, SwapTasks, FinishBatch, OnTime, Crash
<1>5. ASSUME NEW l \in Loop, NEW a \in actives[l], HandleChannel(l, a) PROVE TableStep
  <2> DEFINE c == a.chan
  <2>1. a \in actives[l] \ {Listen, OnTimer} /\ a \in Active
    BY <1>2, <1>5 DEF HandleChannel
  <2>2. c \in Conn /\ Born(c) /\ conn[c].state # "CONNECTING" /\ conn[c].open
    BY <1>1, <2>1 DEF Active, LoopRefs, LifeInv, FreshIsUnknown, PollerInv, ActivesAreOpen
  <2> HIDE DEF c
  <2>3. CASE Crash
    BY <1>3, <2>3 DEF Crash
  <2>4. CASE \E w \in HandleEvent(Work(conn[c]), a.revents, Received(l, c), Broken(c)) :
                Apply(c, w)
    <3>1. PICK w \in HandleEvent(Work(conn[c]), a.revents, Received(l, c), Broken(c)) :
               Apply(c, w)
      BY <2>4
    <3>2. Received(l, c) \in Nat \cup {-1}
      BY <1>1, <2>2 DEF Received, LoopTypes
    <3>3. /\ Work(conn[c]) \in WorkType /\ Work(conn[c]).conn = conn[c]
          /\ conn[c] \in Connection
      BY <1>1, <2>2, WorkOfBorn
    <3>4. Continues(Work(conn[c]), w)
      BY <3>2, <3>3, HandleEventWorks
    <3>5. Established(c)
      BY <1>1, <2>2, <3>3 DEF Established, Connection, LifeInv, OpenIsKept
    <3>6. /\ w \in WorkType /\ w.conn.open
          /\ w.conn.state \in {"CONNECTED", "DISCONNECTING"}
          /\ w.updated \/ w.conn.events = conn[c].events
      BY <2>2, <3>3, <3>4, <3>5 DEF Continues, Established
    <3> QED
      BY <2>2, <3>1, <3>5, <3>6, ApplyMonitors DEF TableStep
  <2> QED
    BY <1>5, <2>3, <2>4 DEF HandleChannel, c
<1>6. CASE Accept
  <2>1. UNCHANGED pollVars /\ accepting.conn = None
    BY <1>6 DEF Accept, OnThread
  <2>2. CASE UNCHANGED <<conn, accepting>>
    BY <1>3, <2>1, <2>2
  <2>3. CASE \E c \in Backlog, f \in {f \in Fd : Owners(f) = {}}, l \in workers :
               conn' = [conn EXCEPT ![c] = NewConn(f, l)] /\ accepting'.conn = c
    <3>1. PICK c \in Backlog, f \in Fd, l \in workers :
               /\ Owners(f) = {}
               /\ conn' = [conn EXCEPT ![c] = NewConn(f, l)] /\ accepting'.conn = c
      BY <2>3
    <3>2. c \in Conn /\ ~Born(c) /\ l \in Loop
      BY <1>1 DEF Backlog, ServerTypes
    <3>3. conn'[c] = NewConn(f, l) /\ \A d \in Conn \ {c} : conn'[d] = conn[d]
      BY <1>1, <3>1, <3>2 DEF ServerTypes
    <3>4. Arrives(c) /\ OnlyOf(c)
      BY <2>1, <3>1, <3>2, <3>3 DEF Arrives, Comes, OnlyOf, SameConn, Born
    <3> QED
      BY <3>2, <3>4 DEF TableStep
  <2> QED
    BY <1>6, <2>2, <2>3 DEF Accept
<1>7. ASSUME NEW step \in {"enable", "established"},
             NEW next \in {"established", "insert", "misfile"},
             step # next, NewConnectionCall(step, next)
      PROVE  TableStep
  <2> DEFINE c == accepting.conn
             t == Do(step, c)
  <2>1. /\ c \in Conn /\ Born(c) /\ t \in Task /\ t.conn = c /\ t.op = step
        /\ accepting = [conn |-> c, step |-> step]
    BY <1>1, <1>7 DEF NewConnectionCall, LoopTypes, LoopRefs, Do, Task
  <2>2. accepting' = [accepting EXCEPT !.step = next] /\ RunInLoop(Base, t)
    BY <1>7 DEF NewConnectionCall
  <2>3. accepting' # accepting
    BY <1>7, <2>1, <2>2
  <2> HIDE DEF t, c
  <2>4. CASE Execute(t) /\ conn[c].loop = Base
    <3>1. Due(t) /\ t.op \notin {"send", "shutdown", "release"}
      BY <1>7, <2>1, <2>3, <2>4 DEF Due
    <3> QED
      BY <2>1, <2>4, <3>1, ExecuteTable
  <2>5. CASE UNCHANGED <<conn, chan, interest>>
    BY <1>3, <2>5
  <2> QED
    BY <2>1, <2>2, <2>4, <2>5 DEF RunInLoop
<1>8. CASE InsertConnection
  BY <1>3, <1>8 DEF InsertConnection
<1>9. ASSUME NEW l \in Loop, RunTask(l) PROVE TableStep
  <2> DEFINE t == Head(batch[l])
  <2>1. /\ batch[l] # <<>> /\ batch[l] \in Seq(Task) /\ Execute(t)
        /\ pc[l] = "tasks" /\ UNCHANGED pc
    BY <1>1, <1>9 DEF RunTask, LoopTypes
  <2>2. t \in Task /\ t \in Range(batch[l]) /\ t \in Pending(l) /\ Due(t)
    BY <1>1, <1>9, <2>1, RangeHeadTail, QueueType DEF Due
  <2> HIDE DEF t
  <2>3. t.conn \in Conn /\ Born(t.conn) /\ (t.op # "remove" => conn[t.conn].loop = l)
    BY <1>1, <2>2 DEF Task, LoopRefs, Placed
  <2>4. t.op # "shutdown" /\ (t.op = "send" => conn[t.conn].state # "CONNECTING")
    BY <1>1, <2>2, <2>3 DEF LifeInv, FreshIsUnknown, PollerInv, NoShutdown
  <2> QED
    BY <2>1, <2>2, <2>3, <2>4, ExecuteTable
<1>10. ASSUME NEW c \in Conn, NEW op \in UserOps, UserCalls(op, c) PROVE TableStep
  BY <1>3, <1>10 DEF UserCalls
<1>11. ASSUME NEW c \in Conn,
              PeerConnects(c) \/ PeerSends(c) \/ PeerCloses(c) \/ PeerResets(c) \/ UserDrops(c)
       PROVE  TableStep
  BY <1>3, <1>11 DEF PeerConnects, PeerSends, PeerCloses, PeerResets, UserDrops
<1>12. ASSUME NEW l \in Loop, SecondPasses(l) \/ PollInterrupted(l) PROVE TableStep
  BY <1>3, <1>12 DEF SecondPasses, PollInterrupted
<1>13. CASE UNCHANGED vars
  BY <1>3, <1>13 DEF vars
<1>14. CASE RunAfter
  BY <1>7, <1>14 DEF RunAfter
<1> QED
  BY <1>4, <1>5, <1>6, <1>7, <1>8, <1>9, <1>10, <1>11, <1>12, <1>13, <1>14
     DEF Next, LoopStep, Environment
-----------------------------------------------------------------------------
(* The tables stay right. *)
LEMMA TablesStep ==
  ASSUME PollerInv, TableStep, ServerStep, TypeInv'
  PROVE  TableInv'
<1>1. /\ TypeInv /\ LifeInv /\ ServerTypes /\ ServerRefs /\ ServerTypes' /\ ServerRefs'
      /\ None \notin Conn
  BY ServerAssumption DEF PollerInv, TimerInv, LifeInv, TypeInv, TypeOK
<1>2. /\ \A c, d \in Conn :
           Born(c) /\ Born(d) /\ conn[c].open /\ conn[d].open /\ conn[c].fd = conn[d].fd
             => c = d
      /\ \A l \in Loop, f \in Fd :
           /\ chan[l][f] # None => conn[chan[l][f]].open
           /\ interest[l][f] # None => chan[l][f] # None
      /\ \A c \in Conn : Established(c) =>
           /\ chan[conn[c].loop][conn[c].fd] = c
           /\ interest[conn[c].loop][conn[c].fd] = conn[c].events
      /\ \A c \in Conn : Born(c) /\ ~conn[c].open => conn[c].state = "DISCONNECTED"
  BY DEF PollerInv, TableInv, OwnersDiffer, KnownIsOpen, MonitoredIsKnown, EstablishedIsKnown,
         ClosedIsDisconnected
<1>3. ASSUME NEW c \in Conn, Born(c)
      PROVE  Born(c)' /\ conn'[c].fd = conn[c].fd /\ conn'[c].loop = conn[c].loop
  BY <1>1, <1>3, MovesOn DEF ServerStep
<1>4. ASSUME NEW c \in Conn, Born(c)
      PROVE  conn[c].loop \in Loop /\ conn[c].fd \in Fd
  BY <1>1, <1>4, WorkOfBorn
<1>5. \A l \in Loop, f \in Fd : chan[l][f] # None =>
        /\ chan[l][f] \in Conn /\ Born(chan[l][f])
        /\ conn[chan[l][f]].loop = l /\ conn[chan[l][f]].fd = f
  BY <1>1 DEF ServerTypes, ServerRefs
<1>6. ASSUME UNCHANGED pollVars, \A c \in Conn : SameConn(c)
      PROVE  TableInv'
  BY <1>1, <1>2, <1>3, <1>5, <1>6 DEF pollVars, SameConn, TableInv, OwnersDiffer, KnownIsOpen,
     MonitoredIsKnown, EstablishedIsKnown, ClosedIsDisconnected, Established
<1>7. ASSUME NEW c \in Conn, OnlyOf(c), Monitors(c)
      PROVE  TableInv'
  <2>1. OwnersDiffer' /\ ClosedIsDisconnected'
    BY <1>2, <1>3, <1>7 DEF OnlyOf, SameConn, Monitors, OwnersDiffer, ClosedIsDisconnected
  <2>2. KnownIsOpen'
    BY <1>1, <1>2, <1>5, <1>7 DEF OnlyOf, SameConn, Monitors, KnownIsOpen
  <2>3. MonitoredIsKnown'
    BY <1>1, <1>2, <1>7 DEF Monitors, MonitoredIsKnown
  <2>4. ASSUME NEW d \in Conn, Established(d)'
        PROVE  /\ chan'[conn'[d].loop][conn'[d].fd] = d
               /\ interest'[conn'[d].loop][conn'[d].fd] = conn'[d].events
    <3>1. CASE d = c
      BY <1>3, <1>4, <1>7, <3>1 DEF Monitors
    <3>2. CASE d # c
      <4>1. Born(d) /\ Established(d) /\ conn'[d].events = conn[d].events
        BY <1>7, <2>4, <3>2 DEF OnlyOf, SameConn, Established
      <4>2. conn[d].fd # conn[c].fd
        BY <1>2, <1>7, <3>2, <4>1 DEF Monitors, Established
      <4> QED
        BY <1>2, <1>3, <1>4, <1>7, <4>1, <4>2 DEF Monitors
    <3> QED
      BY <3>1, <3>2
  <2> QED
    BY <2>1, <2>2, <2>3, <2>4 DEF TableInv, EstablishedIsKnown
<1>8. ASSUME NEW c \in Conn, OnlyOf(c), Closes(c)
      PROVE  TableInv'
  <2>1. OwnersDiffer' /\ ClosedIsDisconnected'
    BY <1>2, <1>3, <1>8 DEF OnlyOf, SameConn, Closes, OwnersDiffer, ClosedIsDisconnected
  <2>2. ASSUME NEW l \in Loop, NEW f \in Fd, chan'[l][f] # None
        PROVE  conn'[chan'[l][f]].open
    <3>1. chan'[l][f] = chan[l][f] /\ ~(l = conn[c].loop /\ f = conn[c].fd)
      BY <1>8, <2>2 DEF Closes
    <3>2. chan[l][f] # c /\ chan[l][f] \in Conn /\ conn[chan[l][f]].open
      BY <1>2, <1>5, <2>2, <3>1
    <3> QED
      BY <1>5, <1>8, <2>2, <3>1, <3>2 DEF OnlyOf, SameConn
  <2>3. MonitoredIsKnown'
    BY <1>2, <1>8 DEF Closes, MonitoredIsKnown
  <2>4. ASSUME NEW d \in Conn, Established(d)'
        PROVE  /\ chan'[conn'[d].loop][conn'[d].fd] = d
               /\ interest'[conn'[d].loop][conn'[d].fd] = conn'[d].events
    <3>1. d # c
      BY <1>8, <2>4 DEF Closes, Established
    <3>2. Born(d) /\ Established(d) /\ conn'[d].events = conn[d].events
      BY <1>8, <2>4, <3>1 DEF OnlyOf, SameConn, Established
    <3>3. conn[d].fd # conn[c].fd
      BY <1>2, <1>8, <3>1, <3>2 DEF Closes, Established
    <3> QED
      BY <1>2, <1>3, <1>4, <1>8, <3>2, <3>3 DEF Closes
  <2> QED
    BY <2>1, <2>2, <2>3, <2>4 DEF TableInv, KnownIsOpen, EstablishedIsKnown
<1>9. ASSUME NEW c \in Conn, OnlyOf(c), Arrives(c)
      PROVE  TableInv'
  <2>1. PICK f \in Fd, l \in Loop : Owners(f) = {} /\ conn'[c] = NewConn(f, l)
    BY <1>9 DEF Arrives, Comes
  <2>2. conn'[c].open /\ conn'[c].state = "CONNECTING" /\ conn'[c].fd = f
    BY <2>1 DEF NewConn
  <2>3. \A d \in Conn : Born(d) /\ conn[d].open => conn[d].fd # f
    BY <2>1 DEF Owners
  <2>4. OwnersDiffer'
    BY <1>2, <1>3, <1>9, <2>2, <2>3 DEF OnlyOf, SameConn, OwnersDiffer
  <2>5. ClosedIsDisconnected'
    BY <1>2, <1>9, <2>2 DEF OnlyOf, SameConn, ClosedIsDisconnected
  <2>6. KnownIsOpen' /\ MonitoredIsKnown'
    BY <1>2, <1>5, <1>9 DEF OnlyOf, SameConn, Arrives, pollVars, KnownIsOpen, MonitoredIsKnown
  <2>7. EstablishedIsKnown'
    BY <1>2, <1>3, <1>9, <2>2 DEF OnlyOf, SameConn, Arrives, pollVars, EstablishedIsKnown,
                                 Established
  <2> QED
    BY <2>4, <2>5, <2>6, <2>7 DEF TableInv
<1> QED
  BY <1>6, <1>7, <1>8, <1>9 DEF TableStep

(* Without the users' threads no Shutdown is queued. *)
LEMMA NoShutdownStep ==
  ASSUME PollerInv, ServerStep, "shutdown" \notin UserOps
  PROVE  NoShutdown'
<1> SUFFICES ASSUME NEW l \in Loop, NEW t \in Pending(l)', t.op = "shutdown" PROVE FALSE
  BY DEF NoShutdown
<1>1. TypeInv /\ LoopTypes /\ QueueMoves(l)
  BY DEF PollerInv, TimerInv, LifeInv, TypeInv, TypeOK, ServerStep
<1>2. t \in Pending(l) \/ Reason(t)
  BY <1>1, PendingMoves
<1> QED
  BY <1>1, <1>2 DEF PollerInv, NoShutdown, Reason, LoopTypes

(* What a poll returned stays open: a connection is closed by a task of    *)
(* its loop.                                                               *)
LEMMA ActivesAreOpenStep ==
  ASSUME PollerInv, TableStep, ServerStep, TypeInv'
  PROVE  ActivesAreOpen'
<1> SUFFICES ASSUME NEW l \in Loop, NEW a \in actives'[l], a # Listen, a # OnTimer
             PROVE  conn'[a.chan].open
  BY DEF ActivesAreOpen, Listen, OnTimer
<1>1. /\ TypeInv /\ ServerTypes /\ LoopTypes /\ LoopRefs /\ ServerRefs /\ Phases'
      /\ None \notin Conn
  BY ServerAssumption DEF PollerInv, TimerInv, LifeInv, TypeInv, TypeOK
<1>2. a \in actives[l] \/ \E f \in Fd : chan[l][f] = a.chan
  BY DEF ServerStep, ChannelMoves
<1>3. a \in Active /\ a.chan \in Conn
  BY DEF TypeInv, TypeOK, LoopTypes, Active
<1>4. Born(a.chan) /\ conn[a.chan].open /\ conn[a.chan].loop = l
  <2>1. CASE a \in actives[l]
    BY <1>1, <2>1 DEF PollerInv, ActivesAreOpen, LoopRefs
  <2>2. CASE \E f \in Fd : chan[l][f] = a.chan
    BY <1>1, <1>3, <2>2 DEF PollerInv, TableInv, KnownIsOpen, ServerRefs
  <2> QED
    BY <1>2, <2>1, <2>2
<1>5. pc'[l] = "events"
  BY <1>1 DEF Phases
<1> QED
  BY <1>3, <1>4, <1>5 DEF TableStep, OnlyOf, SameConn, Monitors, Closes, Arrives
-----------------------------------------------------------------------------
(* A push adds the pushed tasks to one pool. *)
LEMMA PushRange ==
  ASSUME tasks \in [Loop -> Seq(Task)], NEW l \in Loop, NEW s \in Seq(Task), Push(l, s)
  PROVE  \A k \in Loop : Range(tasks'[k]) = Range(tasks[k]) \cup (IF k = l THEN Range(s) ELSE {})
<1>1. \A k \in Loop : tasks'[k] = IF k = l THEN tasks[k] \o s ELSE tasks[k]
  BY DEF Push
<1>2. Range(tasks[l] \o s) = Range(tasks[l]) \cup Range(s)
  BY RangeConcat
<1> QED
  BY <1>1, <1>2

(* A task queues no Release, unless it is Shutdown: it leaves some loop's  *)
(* queue as it is, or longer by something else.                            *)
LEMMA ExecuteReleases ==
  ASSUME TypeInv, NEW t \in Task, Born(t.conn), Execute(t), t.op # "shutdown"
  PROVE  \A l \in Loop : \A u \in Range(tasks'[l]) :
           u.op = "release" => u \in Range(tasks[l])
<1> DEFINE c == t.conn
<1>1. /\ c \in Conn /\ Born(c) /\ conn[c].loop \in Loop /\ Base \in Loop
      /\ tasks \in [Loop -> Seq(Task)] /\ Work(conn[c]) \in WorkType
      /\ Work(conn[c]).releases = 0
  BY WorkOfBorn, ServerAssumption DEF TypeInv, TypeOK, ServerTypes, Task
<1>2. \/ UNCHANGED tasks
      \/ EstablishedInLoop(c)
      \/ ReleaseInLoop(c)
      \/ Effect(c, {SendInLoop(Work(conn[c]))})
  BY DEF Execute, Crash, RemoveConnectionInLoop, EnableInactiveReleaseInLoop,
         CancelInactiveReleaseInLoop
<1> HIDE DEF c
<1>3. ASSUME NEW l \in Loop, NEW s \in Seq(Task), Push(l, s),
             \A u \in Range(s) : u.op # "release"
      PROVE  \A k \in Loop : \A u \in Range(tasks'[k]) :
               u.op = "release" => u \in Range(tasks[k])
  BY <1>1, <1>3, PushRange
<1>4. ASSUME NEW w \in WorkType, w.releases = 0, Apply(c, w)
      PROVE  \A k \in Loop : \A u \in Range(tasks'[k]) :
               u.op = "release" => u \in Range(tasks[k])
  <2> DEFINE s == Times(Do("release", c), w.releases)
  <2>1. Push(conn[c].loop, s)
    BY <1>4 DEF Apply
  <2>2. s \in Seq(Task) /\ \A u \in Range(s) : u.op # "release"
    BY <1>1, <1>4, ReleaseTimes
  <2> QED
    BY <1>1, <1>3, <2>1, <2>2
<1>5. CASE EstablishedInLoop(c)
  <2>1. UNCHANGED tasks \/ Apply(c, Opened(c))
    BY <1>5 DEF EstablishedInLoop, Crash, Opened
  <2>2. Opened(c) \in WorkType /\ Opened(c).releases = 0
    BY <1>1, OpenedWork
  <2> QED
    BY <1>4, <2>1, <2>2
<1>6. CASE ReleaseInLoop(c)
  <2>1. UNCHANGED tasks \/ Push(Base, <<Do("remove", c)>>)
    BY <1>6 DEF ReleaseInLoop
  <2>2. /\ <<Do("remove", c)>> \in Seq(Task)
        /\ \A u \in Range(<<Do("remove", c)>>) : u.op # "release"
    <3>1. Do("remove", c) \in Task /\ Do("remove", c).op # "release"
      BY <1>1 DEF Do, Task
    <3>2. Range(<<Do("remove", c)>>) = {Do("remove", c)}
      BY DEF Range
    <3> QED
      BY <3>1, <3>2
  <2> QED
    BY <1>1, <1>3, <2>1, <2>2
<1>7. CASE Effect(c, {SendInLoop(Work(conn[c]))})
  <2>1. Apply(c, SendInLoop(Work(conn[c])))
    BY <1>7 DEF Effect
  <2>2. SendInLoop(Work(conn[c])) \in WorkType /\ SendInLoop(Work(conn[c])).releases = 0
    BY <1>1, SendInLoopWorks DEF Continues
  <2> QED
    BY <1>4, <2>1, <2>2
<1> QED
  BY <1>2, <1>5, <1>6, <1>7

(* A Release is queued while events are handled, for an open connection of *)
(* the loop, and run after them.                                           *)
ReleaseStep ==
  \A l \in Loop : \A t \in Range(tasks'[l]) : t.op = "release" =>
    /\ pc'[l] = "events"
    /\ t \in Range(tasks[l])
         \/ (t.conn \in Conn /\ Born(t.conn) /\ conn[t.conn].open /\ conn[t.conn].loop = l)

(* Each step releases as ReleaseStep says. *)
LEMMA ReleaseSteps ==
  ASSUME PollerInv, [Next]_vars
  PROVE  ReleaseStep
<1>1. /\ TypeInv /\ LifeInv /\ ServerTypes /\ LoopTypes /\ ServerRefs /\ LoopRefs /\ Phases
      /\ Base \in Loop /\ tasks \in [Loop -> Seq(Task)] /\ pc \in [Loop -> {"poll", "events", "tasks"}]
  BY ServerAssumption DEF PollerInv, TimerInv, LifeInv, TypeInv, TypeOK, ServerTypes, LoopTypes
<1>2. \A l \in Loop : actives[l] \subseteq {Listen, OnTimer} \cup Active
  BY <1>1 DEF LoopTypes
<1>3. \A l \in Loop : \A t \in Range(tasks[l]) : t.op = "release" => pc[l] = "events"
  BY DEF PollerInv, QueuedIsOpen
<1>4. ASSUME \A l \in Loop : pc[l] = "events" => pc'[l] = "events",
             \A l \in Loop : \A t \in Range(tasks'[l]) :
               t.op = "release" => t \in Range(tasks[l])
      PROVE  ReleaseStep
  BY <1>3, <1>4 DEF ReleaseStep
<1>5. ASSUME NEW l \in Loop, Poll(l) \/ FinishBatch(l) PROVE ReleaseStep
  BY <1>1, <1>4, <1>5 DEF Poll, FinishBatch
<1>6. ASSUME NEW l \in Loop, SwapTasks(l) PROVE ReleaseStep
  <2>1. /\ tasks' = [tasks EXCEPT ![l] = <<>>]
        /\ pc' = [pc EXCEPT ![l] = "tasks"]
    BY <1>6 DEF SwapTasks
  <2>2. Range(tasks'[l]) = {} /\ \A k \in Loop \ {l} : tasks'[k] = tasks[k] /\ pc'[k] = pc[k]
    BY <1>1, <2>1 DEF Range
  <2> QED
    BY <1>3, <2>2 DEF ReleaseStep
<1>7. ASSUME NEW l \in Loop, NEW a \in actives[l], HandleChannel(l, a) PROVE ReleaseStep
  <2> DEFINE c == a.chan
  <2>1. a \in actives[l] \ {Listen, OnTimer} /\ a \in Active
    BY <1>2, <1>7 DEF HandleChannel
  <2>2. c \in Conn /\ Born(c) /\ conn[c].open /\ conn[c].loop = l
    BY <1>1, <2>1 DEF Active, LoopRefs, PollerInv, ActivesAreOpen
  <2>3. UNCHANGED pc /\ pc[l] = "events"
    BY <1>7 DEF HandleChannel
  <2> HIDE DEF c
  <2>4. CASE Crash
    BY <1>4, <2>3, <2>4 DEF Crash
  <2>5. CASE \E w \in HandleEvent(Work(conn[c]), a.revents, Received(l, c), Broken(c)) :
                Apply(c, w)
    <3>1. PICK w \in HandleEvent(Work(conn[c]), a.revents, Received(l, c), Broken(c)) :
               Apply(c, w)
      BY <2>5
    <3>2. Received(l, c) \in Nat \cup {-1}
      BY <1>1, <2>2 DEF Received, LoopTypes
    <3>3. w \in WorkType /\ w.releases \in Nat
      BY <1>1, <2>2, <3>2, WorkOfBorn, HandleEventWorks DEF Continues, WorkType
    <3> DEFINE s == Times(Do("release", c), w.releases)
    <3>4. Push(l, s)
      BY <2>2, <3>1 DEF Apply
    <3>5. s \in Seq(Task) /\ \A u \in Range(s) : u = Do("release", c)
      BY <2>2, <3>3, ReleaseTimes
    <3> HIDE DEF s
    <3>6. \A k \in Loop : \A u \in Range(tasks'[k]) :
            u \in Range(tasks[k]) \/ (k = l /\ u = Do("release", c))
      BY <1>1, <3>4, <3>5, PushRange
    <3> QED
      BY <1>3, <2>2, <2>3, <3>6 DEF ReleaseStep, Do
  <2> QED
    BY <1>7, <2>4, <2>5 DEF HandleChannel, c
<1>8. ASSUME NEW l \in Loop, OnTime(l) PROVE ReleaseStep
  <2>1. PICK s \in Seq(Task) :
          /\ Push(l, s)
          /\ \A t \in Range(s) : \E d \in Conn :
               /\ t = Do("release", d) /\ conn[d].loop = l
               /\ HasTimer(d) /\ d \notin cancelled
    BY <1>1, <1>8, OnTimeQueues
  <2>2. UNCHANGED pc /\ pc[l] = "events"
    BY <1>8 DEF OnTime
  <2>3. \A t \in Range(s) : t.conn \in Conn /\ Born(t.conn) /\ conn[t.conn].open
                            /\ conn[t.conn].loop = l
    BY <1>1, <2>1 DEF PollerInv, TimerInv, TimerIsOpen, ServerRefs, Do
  <2>4. \A k \in Loop : \A u \in Range(tasks'[k]) :
          u \in Range(tasks[k]) \/ (k = l /\ u \in Range(s))
    BY <1>1, <2>1, PushRange
  <2> QED
    BY <1>3, <2>2, <2>3, <2>4 DEF ReleaseStep
<1>9. ASSUME NEW l \in Loop, NEW s \in Seq(Task), Push(l, s), UNCHANGED pc,
             \A u \in Range(s) : u.op # "release"
      PROVE  ReleaseStep
  <2>1. \A k \in Loop : \A u \in Range(tasks'[k]) :
          u.op = "release" => u \in Range(tasks[k])
    BY <1>1, <1>9, PushRange
  <2> QED
    BY <1>4, <1>9, <2>1
<1>10. ASSUME NEW step \in {"enable", "established"},
              NEW next \in {"established", "insert", "misfile"},
              NewConnectionCall(step, next)
       PROVE  ReleaseStep
  <2> DEFINE c == accepting.conn
             t == Do(step, c)
  <2>1. /\ c \in Conn /\ Born(c) /\ t \in Task /\ t.conn = c /\ t.op = step
        /\ t.op \notin {"release", "shutdown"}
    BY <1>1, <1>10 DEF NewConnectionCall, LoopTypes, LoopRefs, Do, Task
  <2>2. RunInLoop(Base, t) /\ UNCHANGED pc
    BY <1>10 DEF NewConnectionCall
  <2> HIDE DEF t, c
  <2>3. CASE Execute(t)
    BY <1>1, <1>4, <2>1, <2>2, <2>3, ExecuteReleases
  <2>4. CASE Push(conn[t.conn].loop, <<t>>)
    <3>1. <<t>> \in Seq(Task) /\ Range(<<t>>) = {t} /\ conn[t.conn].loop \in Loop
      BY <1>1, <2>1, WorkOfBorn DEF Range
    <3> QED
      BY <1>9, <2>1, <2>2, <2>4, <3>1
  <2> QED
    BY <2>2, <2>3, <2>4 DEF RunInLoop
<1>11. ASSUME NEW l \in Loop, RunTask(l) PROVE ReleaseStep
  <2> DEFINE t == Head(batch[l])
  <2>1. /\ batch[l] # <<>> /\ batch[l] \in Seq(Task) /\ Execute(t) /\ UNCHANGED pc
    BY <1>1, <1>11 DEF RunTask, LoopTypes
  <2>2. t \in Task /\ t \in Range(batch[l]) /\ t \in Pending(l)
    BY <1>1, <2>1, RangeHeadTail, QueueType
  <2> HIDE DEF t
  <2>3. Born(t.conn) /\ t.op # "shutdown"
    BY <1>1, <2>2 DEF LoopRefs, Placed, PollerInv, NoShutdown
  <2> QED
    BY <1>1, <1>4, <2>1, <2>2, <2>3, ExecuteReleases
<1>12. ASSUME NEW c \in Conn, NEW op \in UserOps, UserCalls(op, c) PROVE ReleaseStep
  <2> DEFINE t == Do(op, c)
  <2>1. t \in Task /\ t.op # "release" /\ conn[c].loop \in Loop
    BY <1>1, <1>12, WorkOfBorn, ServerAssumption DEF UserCalls, Do, Task, ServerRefs
  <2>2. Push(conn[c].loop, <<t>>) /\ UNCHANGED pc
    BY <1>12 DEF UserCalls
  <2> HIDE DEF t
  <2>3. <<t>> \in Seq(Task) /\ Range(<<t>>) = {t}
    BY <2>1 DEF Range
  <2> QED
    BY <1>9, <2>1, <2>2, <2>3
<1> USE DEF loopVars
<1>13. ASSUME UNCHANGED <<tasks, pc>> PROVE ReleaseStep
  BY <1>4, <1>13
<1>14. CASE Accept \/ InsertConnection \/ UNCHANGED vars
  BY <1>13, <1>14 DEF Accept, InsertConnection, vars
<1>15. ASSUME NEW c \in Conn,
              PeerConnects(c) \/ PeerSends(c) \/ PeerCloses(c) \/ PeerResets(c) \/ UserDrops(c)
       PROVE  ReleaseStep
  BY <1>13, <1>15 DEF PeerConnects, PeerSends, PeerCloses, PeerResets, UserDrops
<1>16. ASSUME NEW l \in Loop, SecondPasses(l) \/ PollInterrupted(l) PROVE ReleaseStep
  BY <1>13, <1>16 DEF SecondPasses, PollInterrupted
<1>17. CASE RunAfter
  BY <1>10, <1>17 DEF RunAfter
<1> QED
  BY <1>5, <1>6, <1>7, <1>8, <1>10, <1>11, <1>12, <1>14, <1>15, <1>16, <1>17
     DEF Next, LoopStep, Environment

(* What is released by a task in a pool is open until the batch begins. *)
LEMMA QueuedIsOpenStep ==
  ASSUME PollerInv, TableStep, ServerStep, ReleaseStep
  PROVE  QueuedIsOpen'
<1> SUFFICES ASSUME NEW l \in Loop, NEW t \in Range(tasks'[l]), t.op = "release"
             PROVE  pc'[l] = "events" /\ conn'[t.conn].open
  BY DEF QueuedIsOpen
<1>1. TypeInv /\ ServerRefs
  BY DEF PollerInv, TimerInv, LifeInv, TypeInv
<1>2. pc'[l] = "events"
  BY DEF ReleaseStep
<1>3. t.conn \in Conn /\ Born(t.conn) /\ conn[t.conn].open /\ conn[t.conn].loop = l
  <2>1. CASE t \in Range(tasks[l])
    <3>1. t \in Task
      BY <1>1, <2>1, QueueType
    <3> QED
      BY <1>1, <2>1, <3>1 DEF PollerInv, QueuedIsOpen, ServerRefs, Placed, Task
  <2> QED
    BY <2>1 DEF ReleaseStep
<1> QED
  BY <1>2, <1>3 DEF TableStep, OnlyOf, SameConn, Monitors, Closes, Arrives

(* A batch gets shorter, or is all that was queued. *)
BatchStep ==
  \A l \in Loop :
    \/ Range(batch'[l]) \subseteq Range(batch[l])
    \/ batch'[l] = tasks[l] /\ UNCHANGED <<conn, chan>>

(* Each step treats the batches as BatchStep says. *)
LEMMA BatchSteps ==
  ASSUME TypeInv, [Next]_vars
  PROVE  BatchStep
<1>1. /\ batch \in [Loop -> Seq(Task)] /\ ServerTypes
  BY DEF TypeInv, TypeOK, LoopTypes
<1>2. ASSUME UNCHANGED batch PROVE BatchStep
  BY <1>2 DEF BatchStep
<1>3. ASSUME NEW l \in Loop, SwapTasks(l) PROVE BatchStep
  BY <1>1, <1>3 DEF SwapTasks, BatchStep, connVars, pollVars
<1>4. ASSUME NEW l \in Loop, RunTask(l) PROVE BatchStep
  <2>1. batch' = [batch EXCEPT ![l] = Tail(batch[l])] /\ batch[l] # <<>>
    BY <1>4 DEF RunTask
  <2>2. Range(Tail(batch[l])) \subseteq Range(batch[l])
    BY <1>1, <2>1, RangeHeadTail
  <2> QED
    BY <1>1, <2>1, <2>2 DEF BatchStep
<1> USE DEF loopVars
<1>5. ASSUME NEW l \in Loop,
             \/ Poll(l) \/ OnTime(l) \/ FinishBatch(l) \/ SecondPasses(l) \/ PollInterrupted(l)
             \/ \E a \in actives[l] : HandleChannel(l, a)
      PROVE  BatchStep
  BY <1>2, <1>5 DEF Poll, OnTime, FinishBatch, SecondPasses, PollInterrupted, HandleChannel
<1>6. ASSUME NEW step, NEW next, NewConnectionCall(step, next) PROVE BatchStep
  BY <1>2, <1>6 DEF NewConnectionCall
<1>7. CASE Accept \/ RunAfter \/ InsertConnection \/ UNCHANGED vars
  BY <1>2, <1>6, <1>7 DEF Accept, RunAfter, InsertConnection, vars
<1>8. ASSUME NEW c \in Conn,
             \/ PeerConnects(c) \/ PeerSends(c) \/ PeerCloses(c) \/ PeerResets(c)
             \/ UserDrops(c) \/ \E op \in UserOps : UserCalls(op, c)
      PROVE  BatchStep
  BY <1>2, <1>8 DEF PeerConnects, PeerSends, PeerCloses, PeerResets, UserDrops, UserCalls
<1> QED
  BY <1>3, <1>4, <1>5, <1>6, <1>7, <1>8 DEF Next, LoopStep, Environment

(* A release and an EstablishedInLoop of one batch are of two descriptors: *)
(* both connections were open when the batch began.                        *)
LEMMA BatchIsApartStep ==
  ASSUME PollerInv, ServerStep, BatchStep
  PROVE  BatchIsApart'
<1> SUFFICES ASSUME NEW l \in Loop, NEW t \in Range(batch'[l]), NEW u \in Range(batch'[l]),
                    t.op = "release", u.op = "established", t.conn # u.conn,
                    conn'[u.conn].state = "CONNECTING"
             PROVE  conn'[t.conn].fd # conn'[u.conn].fd
  BY DEF BatchIsApart
<1>1. /\ TypeInv /\ LifeInv /\ ServerRefs /\ LoopRefs
      /\ batch \in [Loop -> Seq(Task)] /\ tasks \in [Loop -> Seq(Task)]
  BY DEF PollerInv, TimerInv, LifeInv, TypeInv, TypeOK, ServerTypes, LoopTypes
<1>2. CASE Range(batch'[l]) \subseteq Range(batch[l])
  <2>1. t \in Range(batch[l]) /\ u \in Range(batch[l])
    BY <1>2
  <2>2. t \in Task /\ u \in Task
    BY <1>1, <2>1, QueueType
  <2>3. t.conn \in Conn /\ u.conn \in Conn /\ Born(t.conn) /\ Born(u.conn)
    BY <1>1, <2>1, <2>2 DEF LoopRefs, Placed, Task
  <2>4. /\ conn'[t.conn].fd = conn[t.conn].fd /\ conn'[u.conn].fd = conn[u.conn].fd
        /\ conn[u.conn].state = "CONNECTING"
    BY <1>1, <2>3, MovesOn DEF ServerStep
  <2> QED
    BY <2>1, <2>4 DEF PollerInv, BatchIsApart
<1>3. CASE batch'[l] = tasks[l] /\ UNCHANGED <<conn, chan>>
  <2>1. t \in Range(tasks[l]) /\ u \in Range(tasks[l])
    BY <1>3
  <2>2. t \in Task /\ u \in Task
    BY <1>1, <2>1, QueueType
  <2>3. t.conn \in Conn /\ u.conn \in Conn /\ Born(t.conn) /\ Born(u.conn)
    BY <1>1, <2>1, <2>2 DEF ServerRefs, Placed, Task
  <2>4. conn[t.conn].open /\ conn[u.conn].open
    BY <1>1, <1>3, <2>1, <2>3 DEF PollerInv, QueuedIsOpen, LifeInv, FreshIsUnknown
  <2> QED
    BY <1>3, <2>3, <2>4 DEF PollerInv, TableInv, OwnersDiffer
<1> QED
  BY <1>2, <1>3 DEF BatchStep

(* A closed connection's descriptor stays unknown until the batch is over. *)
LEMMA ClosedIsRemovedStep ==
  ASSUME PollerInv, TableStep, ServerStep, BatchStep
  PROVE  ClosedIsRemoved'
<1> SUFFICES ASSUME NEW l \in Loop, NEW t \in Range(batch'[l]), t.op = "release",
                    ~conn'[t.conn].open
             PROVE  chan'[l][conn'[t.conn].fd] = None
  BY DEF ClosedIsRemoved
<1> DEFINE c == t.conn
           f == conn[c].fd
<1>1. /\ TypeInv /\ LifeInv /\ ServerRefs /\ LoopRefs /\ Phases /\ None \notin Conn
      /\ batch \in [Loop -> Seq(Task)] /\ tasks \in [Loop -> Seq(Task)]
  BY ServerAssumption
     DEF PollerInv, TimerInv, LifeInv, TypeInv, TypeOK, ServerTypes, LoopTypes
<1>2. Range(batch'[l]) \subseteq Range(batch[l])
  <2>1. CASE batch'[l] = tasks[l] /\ UNCHANGED <<conn, chan>>
    BY <2>1 DEF PollerInv, QueuedIsOpen
  <2> QED
    BY <2>1 DEF BatchStep
<1>3. t \in Range(batch[l])
  BY <1>2
<1>4. t \in Task /\ batch[l] # <<>>
  BY <1>1, <1>3, QueueType DEF Range
<1>5. c \in Conn /\ Born(c) /\ conn[c].loop = l
  BY <1>1, <1>3, <1>4 DEF LoopRefs, Placed, Task
<1>6. f \in Fd /\ conn'[c].fd = f
  BY <1>1, <1>5, MovesOn, WorkOfBorn DEF ServerStep
<1> SUFFICES chan'[l][f] = None
  BY <1>6
<1> HIDE DEF f
<1>7. CASE conn[c].open
  <2>1. Closes(c)
    BY <1>5, <1>7 DEF TableStep, OnlyOf, SameConn, Monitors, Arrives
  <2> QED
    BY <1>5, <1>6, <2>1 DEF Closes, f
<1>8. CASE ~conn[c].open
  <2>1. chan[l][f] = None
    BY <1>3, <1>8 DEF PollerInv, ClosedIsRemoved, f
  <2>2. ASSUME NEW u \in Conn, Monitors(u), conn[u].loop = l, conn[u].fd = f
        PROVE  FALSE
    <3>1. Born(u) /\ u # c
      BY <1>8, <2>2 DEF Monitors
    <3>2. ~Established(u)
      BY <1>1, <2>1, <2>2 DEF PollerInv, TableInv, EstablishedIsKnown
    <3>3. conn[u].state = "CONNECTING" /\ Due(Do("established", u))
      BY <2>2, <3>2 DEF Monitors
    <3>4. CASE \E k \in Loop : RunTask(k) /\ Do("established", u) = Head(batch[k])
      <4>1. PICK k \in Loop : RunTask(k) /\ Do("established", u) = Head(batch[k])
        BY <3>4
      <4>2. Do("established", u) \in Range(batch[k])
        BY <1>1, <4>1, RangeHeadTail DEF RunTask
      <4>3. k = l
        BY <1>1, <2>2, <4>2 DEF LoopRefs, Placed, Do
      <4> QED
        BY <1>3, <2>2, <3>1, <3>3, <4>2, <4>3 DEF PollerInv, BatchIsApart, Do, f
    <3>5. CASE accepting = [conn |-> u, step |-> "established"] /\ conn[u].loop = Base
      <4>1. accepting.conn # None /\ l = Base
        BY <1>1, <2>2, <3>5
      <4> QED
        BY <1>1, <1>4, <4>1 DEF Phases
    <3> QED
      BY <3>3, <3>4, <3>5 DEF Due, Do
  <2> QED
    BY <1>6, <2>1, <2>2 DEF TableStep, Monitors, Closes, Arrives, pollVars
<1> QED
  BY <1>7, <1>8
-----------------------------------------------------------------------------
(* PollerInv holds at first ... *)
LEMMA PollerInit == Init => PollerInv
<1> SUFFICES ASSUME Init PROVE PollerInv
  OBVIOUS
<1>1. /\ \A c \in Conn : ~Born(c)
      /\ \A l \in Loop : batch[l] = <<>> /\ tasks[l] = <<>> /\ actives[l] = {}
      /\ \A l \in Loop, f \in Fd : chan[l][f] = None /\ interest[l][f] = None
  BY DEF Init, Born
<1>2. Range(<<>>) = {} /\ <<>> \o <<>> = <<>>
  BY DEF Range
<1>3. \A l \in Loop : Pending(l) = {}
  BY <1>1, <1>2 DEF Pending, Queue
<1>4. TableInv
  BY <1>1 DEF TableInv, OwnersDiffer, KnownIsOpen, MonitoredIsKnown, EstablishedIsKnown,
              ClosedIsDisconnected, Established
<1>5. NoShutdown /\ ActivesAreOpen /\ QueuedIsOpen /\ ClosedIsRemoved /\ BatchIsApart
  BY <1>1, <1>2, <1>3 DEF NoShutdown, ActivesAreOpen, QueuedIsOpen, ClosedIsRemoved,
                          BatchIsApart
<1> QED
  BY <1>4, <1>5, TimerInit DEF PollerInv

(* ... and each step keeps it. *)
LEMMA PollerInvStep ==
  ASSUME UserOps \cap {"shutdown", "enable"} = {}
  PROVE  PollerInv /\ [Next]_vars => PollerInv'
<1> SUFFICES ASSUME PollerInv, [Next]_vars PROVE PollerInv'
  OBVIOUS
<1>1. TimerInv /\ TimerInv' /\ LifeInv /\ TypeInv /\ TypeInv'
  BY TimerInvStep DEF PollerInv, TimerInv, LifeInv
<1>2. ServerStep /\ TableStep /\ ReleaseStep /\ BatchStep
  BY <1>1, ServerSteps, TableSteps, ReleaseSteps, BatchSteps
<1>3. "shutdown" \notin UserOps
  OBVIOUS
<1> QED
  BY <1>1, <1>2, <1>3, TablesStep, NoShutdownStep, ActivesAreOpenStep, QueuedIsOpenStep,
     ClosedIsRemovedStep, BatchIsApartStep DEF PollerInv

(* What a poller and epoll know of a descriptor is its one open            *)
(* connection, which exists and belongs to that loop, although a           *)
(* connection is closed by a queued task and its descriptor is given to    *)
(* the next one by another thread, ...                                     *)
THEOREM TableIsRight ==
  UserOps \cap {"shutdown", "enable"} = {} => (Spec => []PollerMapsOwner)
<1> SUFFICES ASSUME UserOps \cap {"shutdown", "enable"} = {}
             PROVE  Spec => []PollerMapsOwner
  OBVIOUS
<1>1. PollerInv => PollerMapsOwner
  <2> SUFFICES ASSUME PollerInv, NEW l \in Loop, NEW f \in Fd
               PROVE  /\ interest[l][f] # None => chan[l][f] # None
                      /\ chan[l][f] # None => /\ Alive(chan[l][f])
                                              /\ Owners(f) = {chan[l][f]}
                                              /\ conn[chan[l][f]].loop = l
    BY DEF PollerMapsOwner
  <2>1. TypeInv /\ LifeInv /\ ServerTypes /\ ServerRefs
    BY DEF PollerInv, TimerInv, LifeInv, TypeInv, TypeOK
  <2>2. interest[l][f] # None => chan[l][f] # None
    BY DEF PollerInv, TableInv, MonitoredIsKnown
  <2>3. ASSUME chan[l][f] # None
        PROVE  /\ Alive(chan[l][f])
               /\ Owners(f) = {chan[l][f]}
               /\ conn[chan[l][f]].loop = l
    <3> DEFINE c == chan[l][f]
    <3>1. c \in Conn /\ Born(c) /\ conn[c].loop = l /\ conn[c].fd = f /\ conn[c].open
      BY <2>1, <2>3 DEF ServerTypes, ServerRefs, PollerInv, TableInv, KnownIsOpen
    <3> HIDE DEF c
    <3>2. Alive(c)
      BY <2>1, <3>1 DEF LifeInv, OpenIsKept, Alive, Kept
    <3>3. Owners(f) = {c}
      BY <3>1 DEF Owners, PollerInv, TableInv, OwnersDiffer
    <3> QED
      BY <3>1, <3>2, <3>3 DEF c
  <2> QED
    BY <2>2, <2>3
<1> QED
  BY <1>1, PollerInit, PollerInvStep, PTL DEF Spec

(* ... no connection that a poll has returned is closed or destroyed while *)
(* the loop handles what it returned, ...                                  *)
THEOREM HandledIsAlive ==
  UserOps \cap {"shutdown", "enable"} = {} => (Spec => []ActivesAlive)
<1> SUFFICES ASSUME UserOps \cap {"shutdown", "enable"} = {}
             PROVE  Spec => []ActivesAlive
  OBVIOUS
<1>1. PollerInv => ActivesAlive
  <2> SUFFICES ASSUME PollerInv, NEW l \in Loop, NEW a \in actives[l],
                      a \notin {Listen, OnTimer}
               PROVE  Alive(a.chan) /\ conn[a.chan].open
    BY DEF ActivesAlive
  <2>1. LifeInv /\ LoopTypes /\ LoopRefs
    BY DEF PollerInv, TimerInv, LifeInv, TypeInv, TypeOK
  <2>2. a \in Active /\ a.chan \in Conn /\ Born(a.chan)
    BY <2>1 DEF LoopTypes, LoopRefs, Active
  <2>3. conn[a.chan].open
    BY DEF PollerInv, ActivesAreOpen
  <2> QED
    BY <2>1, <2>2, <2>3 DEF LifeInv, OpenIsKept, Alive, Kept
<1> QED
  BY <1>1, PollerInit, PollerInvStep, PTL DEF Spec

(* ... and an established connection is monitored for reading, and for     *)
(* writing as its channel asks, until it is released.                      *)
THEOREM EstablishedIsMonitored ==
  UserOps \cap {"shutdown", "enable"} = {} => (Spec => []ConnectedIsMonitored)
<1> SUFFICES ASSUME UserOps \cap {"shutdown", "enable"} = {}
             PROVE  Spec => []ConnectedIsMonitored
  OBVIOUS
<1>1. PollerInv => ConnectedIsMonitored
  BY DEF PollerInv, TimerInv, LifeInv, EventsAgree, TableInv, EstablishedIsKnown,
         ConnectedIsMonitored
<1> QED
  BY <1>1, PollerInit, PollerInvStep, PTL DEF Spec

(* One step in the life of a connection. *)
LEMMA StageStep ==
  ASSUME LifeInv, LifeInv', ServerStep, ClosedIsDisconnected, ClosedIsDisconnected',
         NEW c \in Conn
  PROVE  [Life(c)!Next]_(Stage(c))
<1> SUFFICES \/ Stage(c)' = Stage(c)
             \/ Stage(c)' \in [none       |-> {"connecting"},
                               connecting |-> {"connected", "closed", "gone"},
                               connected  |-> {"closing", "closed", "gone"},
                               closing    |-> {"closed", "gone"},
                               closed     |-> {"gone"},
                               gone       |-> {}][Stage(c)]
  BY DEF Life!Next, Life!Following
<1>1. TypeInv /\ TypeInv'
  BY DEF LifeInv
<1>2. CASE ~Born(c)
  <2>1. Stage(c) = "none"
    BY <1>2 DEF Stage
  <2>2. CASE UNCHANGED conn[c]
    <3>1. Stage(c)' = "none"
      BY <1>2, <2>2 DEF Stage, Born
    <3> QED
      BY <2>1, <3>1
  <2>3. CASE Comes(c) /\ conn'[c] # None
    <3>1. Stage(c)' = "connecting"
      BY <2>3, ComesFresh DEF Stage, Born, Alive, Kept
    <3> QED
      BY <2>1, <3>1
  <2> QED
    BY <1>2, <2>2, <2>3 DEF ServerStep, Born
<1>3. CASE Born(c)
  <2>1. conn[c] \in Connection /\ Moves(c) /\ Born(c)'
    BY <1>1, <1>3, WorkOfBorn, MovesOn DEF ServerStep
  <2>2. /\ conn'[c].open => conn[c].open
        /\ conn'[c].open => conn'[c].state \in {conn[c].state, "CONNECTED", "DISCONNECTING"}
        /\ conn'[c].state = "CONNECTING" => conn[c].state = "CONNECTING"
    BY <1>1, <1>3, <2>1, MovesOn
  <2>3. conn'[c].open => Alive(c)' /\ conn'[c].state # "DISCONNECTED"
    BY <2>1 DEF LifeInv, OpenIsKept, Alive, Kept
  <2>4. conn[c].open => Alive(c) /\ conn[c].state # "DISCONNECTED"
    BY <1>3 DEF LifeInv, OpenIsKept, Alive, Kept
  <2>5. CASE ~conn[c].open
    <3>1. Stage(c) = IF Alive(c) THEN "closed" ELSE "gone"
      BY <1>3, <2>5 DEF Stage, ClosedIsDisconnected
    <3>2. Stage(c)' = IF Alive(c)' THEN "closed" ELSE "gone"
      BY <2>1, <2>2, <2>5 DEF Stage, ClosedIsDisconnected
    <3>3. Alive(c)' => Alive(c)
      BY <1>1, <1>3, NotRevived
    <3> QED
      BY <3>1, <3>2, <3>3
  <2>6. CASE conn[c].open
    <3>1. /\ conn[c].state = "CONNECTING" => Stage(c) = "connecting"
          /\ conn[c].state = "CONNECTED" => Stage(c) = "connected"
          /\ conn[c].state = "DISCONNECTING" => Stage(c) = "closing"
          /\ conn[c].state \in {"CONNECTING", "CONNECTED", "DISCONNECTING"}
      BY <1>3, <2>1, <2>4, <2>6 DEF Stage, Connection
    <3>2. CASE ~conn'[c].open
      <4>1. Stage(c)' \in {"closed", "gone"}
        BY <2>1, <3>2 DEF Stage, ClosedIsDisconnected
      <4> QED
        BY <3>1, <4>1
    <3>3. CASE conn'[c].open
      <4>1. /\ conn'[c].state = "CONNECTING" => Stage(c)' = "connecting"
            /\ conn'[c].state = "CONNECTED" => Stage(c)' = "connected"
            /\ conn'[c].state = "DISCONNECTING" => Stage(c)' = "closing"
        BY <2>1, <2>3, <3>3 DEF Stage
      <4>2. \/ conn'[c].state = conn[c].state
            \/ conn[c].state = "CONNECTING" /\ conn'[c].state = "CONNECTED"
            \/ conn[c].state = "CONNECTED" /\ conn'[c].state = "DISCONNECTING"
        BY <2>1, <2>4, <2>6, <3>3, MovesForward
      <4> QED
        BY <3>1, <4>1, <4>2
    <3> QED
      BY <3>2, <3>3
  <2> QED
    BY <2>5, <2>6
<1> QED
  BY <1>2, <1>3

(* TcpServer implements ConnectionLife, for each connection: it is not     *)
(* destroyed while it is open, and _statu goes through its values in order *)
(* and does not come back, also when the descriptor has a new owner.       *)
THEOREM EachLivesOnce ==
  UserOps \cap {"shutdown", "enable"} = {} => (Spec => ConnectionsLiveOnce)
<1> SUFFICES ASSUME UserOps \cap {"shutdown", "enable"} = {}
             PROVE  Spec => ConnectionsLiveOnce
  OBVIOUS
<1>1. Init => \A c \in Conn : Life(c)!Init
  BY DEF Init, Life!Init, Stage, Born
<1>2. PollerInv /\ [Next]_vars => PollerInv'
  BY PollerInvStep
<1>3. PollerInv => LifeInv /\ ClosedIsDisconnected
  BY DEF PollerInv, TimerInv, TableInv
<1>4. PollerInv /\ PollerInv' /\ [Next]_vars => \A c \in Conn : [Life(c)!Next]_(Stage(c))
  <2> SUFFICES ASSUME PollerInv, PollerInv', [Next]_vars, NEW c \in Conn
               PROVE  [Life(c)!Next]_(Stage(c))
    OBVIOUS
  <2>1. LifeInv /\ LifeInv' /\ ClosedIsDisconnected /\ ClosedIsDisconnected'
    BY <1>3 DEF PollerInv, TimerInv, TableInv
  <2>2. ServerStep
    BY <2>1, ServerSteps
  <2> QED
    BY <2>1, <2>2, StageStep
<1> QED
  BY <1>1, <1>2, <1>4, PollerInit, PTL DEF Spec, ConnectionsLiveOnce
-----------------------------------------------------------------------------
(* The output buffers.  With no timeout, a Release is queued by the        *)
(* handlers alone, when all is sent or the peer has broken the connection. *)
Flushed(w) == w.releases > 0 => w.conn.out = 0

(* EnableWrite changes neither output nor releases. *)
LEMMA EnableWriteFlushes ==
  ASSUME NEW w \in WorkType
  PROVE  EnableWrite(w).conn.out = w.conn.out /\ EnableWrite(w).releases = w.releases
  BY DEF EnableWrite, WorkType, Connection

(* FinishShutdown releases only what is flushed. *)
LEMMA FinishShutdownFlushes ==
  ASSUME NEW w \in WorkType, Flushed(w)
  PROVE  Flushed(FinishShutdown(w))
<1>1. CASE w.conn.out > 0
  BY <1>1, EnableWriteFlushes DEF FinishShutdown, Flushed
<1>2. CASE ~(w.conn.out > 0)
  <2>1. w.conn.out = 0
    BY <1>2 DEF WorkType, Connection
  <2> QED
    BY <1>2, <2>1 DEF FinishShutdown, Flushed, Release, WorkType
<1> QED
  BY <1>1, <1>2

(* So does the message callback. *)
LEMMA OnInputFlushes ==
  ASSUME NEW w \in WorkType, w.releases = 0, NEW v \in OnInput(w)
  PROVE  v \in WorkType /\ Flushed(v)
<1> DEFINE some == Leaving(w, 0 .. w.conn.in)
           fewer == Leaving(w, 0 .. w.conn.in - 1)
           answered == {SendInLoop(x) : x \in fewer}
<1>1. ASSUME NEW x \in some \cup fewer
      PROVE  x \in WorkType /\ x.releases = 0
  BY <1>1 DEF Leaving, WorkType, Connection
<1>2. ASSUME NEW x \in answered
      PROVE  x \in WorkType /\ x.releases = 0
  BY <1>1, SendInLoopWorks DEF Continues
<1>3. ASSUME NEW x \in answered
      PROVE  FinishShutdown(HalfClose(x)) \in WorkType /\ Flushed(FinishShutdown(HalfClose(x)))
  <2>1. HalfClose(x) \in WorkType /\ HalfClose(x).releases = 0
    BY <1>2 DEF HalfClose, WorkType, Connection
  <2> QED
    BY <2>1, FinishShutdownWorks, FinishShutdownFlushes DEF Flushed, Continues
<1>4. v \in {w} \cup some \cup answered \cup {FinishShutdown(HalfClose(x)) : x \in answered}
  BY DEF OnInput, MessageCallback
<1> QED
  BY <1>1, <1>2, <1>3, <1>4 DEF Flushed

(* So does HandleRead. *)
LEMMA HandleReadFlushes ==
  ASSUME NEW w \in WorkType, w.releases = 0, NEW received \in Nat \cup {-1},
         NEW v \in HandleRead(w, received)
  PROVE  v \in WorkType /\ Flushed(v)
<1>1. CASE received = -1
  <2>1. PICK x \in OnInput(HalfClose(w)) : v = FinishShutdown(x)
    BY <1>1 DEF HandleRead, ShutdownInLoop
  <2>2. HalfClose(w) \in WorkType /\ HalfClose(w).releases = 0
    BY DEF HalfClose, WorkType, Connection
  <2>3. x \in WorkType /\ Flushed(x)
    BY <2>2, OnInputFlushes
  <2> QED
    BY <2>1, <2>3, FinishShutdownWorks, FinishShutdownFlushes DEF Continues
<1>2. CASE received \in Nat
  <2> DEFINE x == [w EXCEPT !.conn.in = @ + received]
  <2>1. x \in WorkType /\ x.releases = 0
    BY <1>2 DEF WorkType, Connection
  <2>2. v \in OnInput(x)
    BY <1>2 DEF HandleRead
  <2> HIDE DEF x
  <2> QED
    BY <2>1, <2>2, OnInputFlushes
<1> QED
  BY <1>1, <1>2

(* So does HandleWrite. *)
LEMMA HandleWriteFlushes ==
  ASSUME NEW w \in WorkType, Flushed(w), NEW n \in SendResults(w, FALSE),
         NEW v \in HandleWrite(w, n)
  PROVE  Flushed(v)
<1> DEFINE x == [w EXCEPT !.conn.out = @ - n]
<1>1. n \in 0 .. w.conn.out
  BY DEF SendResults, WorkType, Connection
<1>2. /\ x \in WorkType /\ x.conn.out = w.conn.out - n /\ x.releases = w.releases
      /\ v = IF x.conn.out > 0 THEN x
             ELSE IF x.conn.state = "DISCONNECTING"
             THEN Release(DisableWrite(x)) ELSE DisableWrite(x)
  BY <1>1 DEF WorkType, Connection, HandleWrite
<1> HIDE DEF x
<1>3. CASE x.conn.out > 0
  BY <1>1, <1>2, <1>3 DEF Flushed, WorkType, Connection
<1>4. CASE ~(x.conn.out > 0)
  <2>1. x.conn.out = 0
    BY <1>2, <1>4 DEF WorkType, Connection
  <2>2. DisableWrite(x).conn.out = 0 /\ Release(DisableWrite(x)).conn.out = 0
    BY <1>2, <2>1 DEF DisableWrite, Release, WorkType, Connection
  <2> QED
    BY <1>2, <1>4, <2>2 DEF Flushed
<1> QED
  BY <1>3, <1>4

(* A handler asks for a Release with something left to send only if it saw *)
(* the connection broken.                                                  *)
LEMMA HandleEventFlushes ==
  ASSUME NEW w \in WorkType, w.releases = 0, NEW revents,
         NEW received \in Nat \cup {-1}, NEW broken, ~broken,
         revents \cap {"ERR", "HUP"} = {},
         NEW v \in HandleEvent(w, revents, received, broken)
  PROVE  Flushed(v)
<1> DEFINE afterRead == IF "IN" \in revents THEN HandleRead(w, received) ELSE {w}
<1>1. PICK x \in afterRead :
        (\E n \in SendResults(x, broken) : v \in HandleWrite(x, n)) \/ v = x
  BY DEF HandleEvent
<1>2. x \in WorkType /\ Flushed(x)
  BY HandleReadFlushes DEF Flushed
<1>3. SendResults(x, broken) = SendResults(x, FALSE)
  BY DEF SendResults
<1> QED
  BY <1>1, <1>2, <1>3, HandleWriteFlushes

(* Without a timeout: what is to be released has nothing left to send, or  *)
(* is broken, ...                                                          *)
QueuedIsFlushed ==
  \A l \in Loop : \A t \in Pending(l) : t.op = "release" =>
    conn[t.conn].out = 0 \/ peer[t.conn] = "rst"

(* ... and is not handled any more, ...                                    *)
QueuedIsHandled ==
  \A l \in Loop : \A t \in Range(tasks[l]) : t.op = "release" =>
    \A a \in actives[l] \ {Listen, OnTimer} : a.chan # t.conn

(* ... because a poll returns each connection once, ...                    *)
ActivesDiffer ==
  \A l \in Loop : \A a, b \in actives[l] \ {Listen, OnTimer} :
    a.chan = b.chan => a = b

(* ... and an error for a broken one only.                                 *)
ErrorIsBroken ==
  \A l \in Loop : \A a \in actives[l] \ {Listen, OnTimer} :
    a.revents \cap {"ERR", "HUP"} # {} => peer[a.chan] = "rst"

ClosedIsFlushed ==
  \A c \in Conn : Born(c) /\ ~conn[c].open => conn[c].out = 0 \/ peer[c] = "rst"

(* Nobody but a thread of the user queues Send.                            *)
NoSend == \A l \in Loop : \A t \in Pending(l) : t.op # "send"

FlushInv ==
  /\ PollerInv /\ NoSend
  /\ timeout = 0 => /\ QueuedIsFlushed /\ QueuedIsHandled /\ ActivesDiffer
                    /\ ErrorIsBroken /\ ClosedIsFlushed

(* What a step may do to the output buffers, and to what is to be          *)
(* released: nothing, ...                                                  *)
FlushKept ==
  /\ \A c \in Conn : Born(c) => conn'[c].out = conn[c].out
  /\ \A l \in Loop : \A t \in Range(tasks'[l]) : t.op = "release" => t \in Range(tasks[l])
  /\ \A l \in Loop :
       \/ actives'[l] \subseteq actives[l]
       \/ pc[l] = "poll" /\ actives'[l] = Ready(l) /\ UNCHANGED <<peer, tasks>>

(* ... or what the handlers of one connection do.                          *)
FlushHandled(l, a) ==
  /\ \A d \in Conn \ {a.chan} : conn'[d] = conn[d]
  /\ UNCHANGED <<peer, batch>>
  /\ actives' = [actives EXCEPT ![l] = @ \ {a}]
  /\ \A k \in Loop : \A t \in Range(tasks'[k]) : t.op = "release" =>
       \/ t \in Range(tasks[k])
       \/ /\ k = l /\ t = Do("release", a.chan)
          /\ conn'[a.chan].out = 0 \/ peer[a.chan] = "rst"

FlushStep ==
  /\ \A c \in Conn : peer[c] = "rst" => peer'[c] = "rst"
  /\ UNCHANGED timeout
  /\ \/ FlushKept
     \/ \E l \in Loop : \E a \in actives[l] \ {Listen, OnTimer} : FlushHandled(l, a)
-----------------------------------------------------------------------------
(* A task leaves the output buffers alone, unless it is Send or Shutdown.  *)
LEMMA ExecuteFlushes ==
  ASSUME TypeInv, NEW t \in Task, Born(t.conn), Execute(t), t.op \notin {"send", "shutdown"}
  PROVE  \A d \in Conn : Born(d) => conn'[d].out = conn[d].out
<1> DEFINE c == t.conn
<1>1. /\ c \in Conn /\ Born(c) /\ conn[c] \in Connection
      /\ conn \in [Conn -> Connection \cup {None}]
  BY WorkOfBorn DEF TypeInv, TypeOK, ServerTypes, Task
<1>2. \/ UNCHANGED conn
      \/ conn' = [conn EXCEPT ![c] = Opened(c).conn]
      \/ \E b \in BOOLEAN :
           \/ conn' = [conn EXCEPT ![c] = [conn[c] EXCEPT !.enabled = b]]
           \/ conn' = [conn EXCEPT ![c] = [conn[c] EXCEPT !.state = "DISCONNECTED",
                                                    !.open = FALSE, !.enabled = b]]
  <2>1. CASE \/ Crash \/ RemoveConnectionInLoop(c) \/ EstablishedInLoop(c)
    BY <2>1 DEF Crash, RemoveConnectionInLoop, EstablishedInLoop, Apply, Opened, connVars
  <2>2. CASE EnableInactiveReleaseInLoop(c) \/ CancelInactiveReleaseInLoop(c)
    BY <2>2 DEF EnableInactiveReleaseInLoop, CancelInactiveReleaseInLoop
  <2>3. CASE ReleaseInLoop(c)
    <3>1. (conn[c].enabled /\ ~HasTimer(c)) \in BOOLEAN
      BY <1>1 DEF Connection
    <3>2. conn' = [conn EXCEPT ![c] = [conn[c] EXCEPT !.state = "DISCONNECTED",
                     !.open = FALSE, !.enabled = conn[c].enabled /\ ~HasTimer(c)]]
      BY <2>3 DEF ReleaseInLoop
    <3> QED
      BY <3>1, <3>2
  <2> QED
    BY <2>1, <2>2, <2>3 DEF Execute
<1>3. Opened(c).conn.out = conn[c].out
  <2>1. Opened(c).conn = [conn[c] EXCEPT !.state = "CONNECTED", !.events = @ \cup {"IN"}]
    BY <1>1, OpenedWork
  <2> QED
    BY <1>1, <2>1 DEF Connection
<1>4. \A k \in Connection : k.out = conn[c].out /\ conn' = [conn EXCEPT ![c] = k]
        => \A d \in Conn : Born(d) => conn'[d].out = conn[d].out
  BY <1>1
<1>5. \A b \in BOOLEAN :
        /\ [conn[c] EXCEPT !.enabled = b] \in Connection
        /\ [conn[c] EXCEPT !.enabled = b].out = conn[c].out
        /\ [conn[c] EXCEPT !.state = "DISCONNECTED", !.open = FALSE, !.enabled = b]
             \in Connection
        /\ [conn[c] EXCEPT !.state = "DISCONNECTED", !.open = FALSE, !.enabled = b].out
             = conn[c].out
  BY <1>1 DEF Connection
<1>6. Opened(c).conn \in Connection
  BY <1>1, OpenedWork DEF WorkType
<1> HIDE DEF c
<1> QED
  BY <1>2, <1>3, <1>4, <1>5, <1>6

(* Every step is one of those. *)
LEMMA FlushSteps ==
  ASSUME FlushInv, timeout = 0, [Next]_vars
  PROVE  FlushStep
<1>1. /\ TypeInv /\ LifeInv /\ ServerTypes /\ LoopTypes /\ ServerRefs /\ LoopRefs /\ Phases
      /\ Base \in Loop /\ tasks \in [Loop -> Seq(Task)]
      /\ conn \in [Conn -> Connection \cup {None}]
      /\ peer \in [Conn -> {"none", "open", "fin", "rst"}]
  BY ServerAssumption
     DEF FlushInv, PollerInv, TimerInv, LifeInv, TypeInv, TypeOK, ServerTypes, LoopTypes
<1>2. \A l \in Loop : actives[l] \subseteq {Listen, OnTimer} \cup Active
  BY <1>1 DEF LoopTypes
<1> USE DEF serverVars, connVars, loopVars, netVars
<1>3. ASSUME \A c \in Conn : Born(c) => conn'[c].out = conn[c].out,
             \A l \in Loop : \A t \in Range(tasks'[l]) :
               t.op = "release" => t \in Range(tasks[l]),
             UNCHANGED <<peer, timeout>>,
             \A l \in Loop : actives'[l] \subseteq actives[l]
      PROVE  FlushStep
  BY <1>3 DEF FlushStep, FlushKept
<1>4. ASSUME UNCHANGED <<conn, tasks, timeout, actives>>,
             \A c \in Conn : peer[c] = "rst" => peer'[c] = "rst"
      PROVE  FlushStep
  BY <1>4 DEF FlushStep, FlushKept
<1>5. ASSUME NEW l \in Loop, Poll(l) PROVE FlushStep
  <2>1. /\ UNCHANGED <<conn, tasks, timeout, peer>> /\ pc[l] = "poll"
        /\ actives' = actives \/ actives' = [actives EXCEPT ![l] = Ready(l)]
    BY <1>5 DEF Poll
  <2>2. \A k \in Loop : \/ actives'[k] \subseteq actives[k]
                        \/ pc[k] = "poll" /\ actives'[k] = Ready(k) /\ UNCHANGED <<peer, tasks>>
    <3>1. DOMAIN actives = Loop
      BY <1>1 DEF LoopTypes
    <3> QED
      BY <2>1, <3>1
  <2> QED
    BY <2>1, <2>2 DEF FlushStep, FlushKept
<1>6. ASSUME NEW l \in Loop, SwapTasks(l) PROVE FlushStep
  <2>1. tasks' = [tasks EXCEPT ![l] = <<>>] /\ UNCHANGED <<conn, peer, timeout, actives>>
    BY <1>6 DEF SwapTasks
  <2>2. Range(tasks'[l]) = {} /\ \A k \in Loop \ {l} : tasks'[k] = tasks[k]
    BY <1>1, <2>1 DEF Range
  <2>3. \A k \in Loop : \A t \in Range(tasks'[k]) : t.op = "release" => t \in Range(tasks[k])
    BY <2>2
  <2> QED
    BY <1>3, <2>1, <2>3
<1>7. ASSUME NEW l \in Loop, NEW a \in actives[l], HandleChannel(l, a) PROVE FlushStep
  <2> DEFINE c == a.chan
  <2>1. a \in actives[l] \ {Listen, OnTimer} /\ a \in Active
    BY <1>2, <1>7 DEF HandleChannel
  <2>2. c \in Conn /\ Born(c) /\ conn[c].open /\ conn[c].loop = l
    BY <1>1, <2>1 DEF Active, LoopRefs, FlushInv, PollerInv, ActivesAreOpen
  <2>3. /\ actives' = [actives EXCEPT ![l] = @ \ {a}]
        /\ UNCHANGED <<batch, timeout, peer>>
    BY <1>7 DEF HandleChannel
  <2> HIDE DEF c
  <2>4. CASE Crash
    <3>1. UNCHANGED <<conn, tasks>> /\ \A k \in Loop : actives'[k] \subseteq actives[k]
      BY <1>1, <2>3, <2>4 DEF Crash, LoopTypes
    <3> QED
      BY <1>3, <2>3, <3>1
  <2>5. CASE \E w \in HandleEvent(Work(conn[c]), a.revents, Received(l, c), Broken(c)) :
                Apply(c, w)
    <3>1. PICK w \in HandleEvent(Work(conn[c]), a.revents, Received(l, c), Broken(c)) :
               Apply(c, w)
      BY <2>5
    <3>2. Received(l, c) \in Nat \cup {-1}
      BY <1>1, <2>2 DEF Received, LoopTypes
    <3>3. Work(conn[c]) \in WorkType /\ Work(conn[c]).releases = 0
      BY <1>1, <2>2, WorkOfBorn
    <3>4. w \in WorkType /\ w.releases \in Nat /\ w.conn \in Connection
      BY <3>2, <3>3, HandleEventWorks DEF Continues, WorkType
    <3>5. w.releases > 0 => w.conn.out = 0 \/ peer[c] = "rst"
      <4>1. CASE peer[c] # "rst" /\ a.revents \cap {"ERR", "HUP"} = {}
        <5>1. ~Broken(c)
          BY <2>2, <4>1 DEF Broken
        <5> QED
          BY <3>1, <3>2, <3>3, <4>1, <5>1, HandleEventFlushes DEF Flushed
      <4>2. CASE a.revents \cap {"ERR", "HUP"} # {}
        BY <2>1, <4>2 DEF FlushInv, ErrorIsBroken, c
      <4> QED
        BY <4>1, <4>2
    <3>6. conn'[c] = w.conn /\ \A d \in Conn \ {c} : conn'[d] = conn[d]
      BY <1>1, <2>2, <3>1, <3>4 DEF Apply
    <3> DEFINE s == Times(Do("release", c), w.releases)
    <3>7. Push(l, s)
      BY <2>2, <3>1 DEF Apply
    <3>8. s \in Seq(Task) /\ \A u \in Range(s) : u = Do("release", c) /\ w.releases > 0
      BY <2>2, <3>4, ReleaseTimes
    <3> HIDE DEF s
    <3>9. \A k \in Loop : \A u \in Range(tasks'[k]) :
            u \in Range(tasks[k]) \/ (k = l /\ u = Do("release", c) /\ w.releases > 0)
      BY <1>1, <3>7, <3>8, PushRange
    <3>10. FlushHandled(l, a)
      BY <2>3, <3>5, <3>6, <3>9 DEF FlushHandled, c
    <3> QED
      BY <2>1, <2>3, <3>10 DEF FlushStep
  <2> QED
    BY <1>7, <2>4, <2>5 DEF HandleChannel, c
<1>8. ASSUME NEW l \in Loop, OnTime(l) PROVE FlushStep
  <2>1. PICK s \in Seq(Task) :
          /\ Push(l, s)
          /\ \A t \in Range(s) : \E d \in Conn :
               /\ t = Do("release", d) /\ conn[d].loop = l
               /\ HasTimer(d) /\ d \notin cancelled
    BY <1>1, <1>8, OnTimeQueues
  <2>2. \A d \in Conn : ~HasTimer(d)
    BY <1>1 DEF ServerTypes, HasTimer
  <2>3. Range(s) = {}
    BY <2>1, <2>2
  <2>4. \A k \in Loop : Range(tasks'[k]) = Range(tasks[k]) \cup (IF k = l THEN Range(s) ELSE {})
    BY <1>1, <2>1, PushRange DEF ServerTypes
  <2>5. \A k \in Loop : Range(tasks'[k]) = Range(tasks[k])
    BY <2>3, <2>4
  <2>6. /\ UNCHANGED <<conn, peer, timeout>>
        /\ actives' = [actives EXCEPT ![l] = @ \ {OnTimer}]
    BY <1>1, <1>8, OnTimeQueues DEF OnTime
  <2>7. \A k \in Loop : actives'[k] \subseteq actives[k]
    BY <1>1, <2>6 DEF LoopTypes
  <2> QED
    BY <1>3, <2>5, <2>6, <2>7
<1>9. ASSUME NEW t \in Task, Born(t.conn), Execute(t), t.op \notin {"send", "shutdown"},
             UNCHANGED <<peer, timeout, actives>>
      PROVE  FlushStep
  <2>1. \A l \in Loop : \A u \in Range(tasks'[l]) : u.op = "release" => u \in Range(tasks[l])
    BY <1>1, <1>9, ExecuteReleases
  <2>2. \A d \in Conn : Born(d) => conn'[d].out = conn[d].out
    BY <1>1, <1>9, ExecuteFlushes
  <2> QED
    BY <1>3, <1>9, <2>1, <2>2
<1>10. ASSUME NEW l \in Loop, NEW t \in Task, Push(l, <<t>>), t.op # "release",
              UNCHANGED <<conn, peer, timeout, actives>>
       PROVE  FlushStep
  <2>1. <<t>> \in Seq(Task) /\ Range(<<t>>) = {t}
    BY DEF Range
  <2>2. \A k \in Loop : \A u \in Range(tasks'[k]) : u.op = "release" => u \in Range(tasks[k])
    BY <1>1, <1>10, <2>1, PushRange
  <2> QED
    BY <1>3, <1>10, <2>2
<1>11. ASSUME NEW step \in {"enable", "established"},
              NEW next \in {"established", "insert", "misfile"},
              NewConnectionCall(step, next)
       PROVE  FlushStep
  <2> DEFINE c == accepting.conn
             t == Do(step, c)
  <2>1. /\ c \in Conn /\ Born(c) /\ t \in Task /\ t.conn = c
        /\ t.op \notin {"release", "shutdown", "send"} /\ conn[c].loop \in Loop
    BY <1>1, <1>11, WorkOfBorn DEF NewConnectionCall, LoopTypes, LoopRefs, Do, Task
  <2>2. RunInLoop(Base, t) /\ UNCHANGED <<peer, timeout, actives>>
    BY <1>11 DEF NewConnectionCall
  <2> HIDE DEF t, c
  <2>3. CASE Execute(t)
    BY <1>9, <2>1, <2>2, <2>3
  <2>4. CASE Push(conn[t.conn].loop, <<t>>) /\ UNCHANGED connVars
    BY <1>10, <2>1, <2>2, <2>4
  <2> QED
    BY <2>2, <2>3, <2>4 DEF RunInLoop
<1>12. ASSUME NEW l \in Loop, RunTask(l) PROVE FlushStep
  <2> DEFINE t == Head(batch[l])
  <2>1. /\ batch[l] # <<>> /\ batch[l] \in Seq(Task) /\ Execute(t)
        /\ UNCHANGED <<peer, timeout, actives>>
    BY <1>1, <1>12 DEF RunTask, LoopTypes
  <2>2. t \in Task /\ t \in Range(batch[l]) /\ t \in Pending(l)
    BY <1>1, <2>1, RangeHeadTail, QueueType
  <2> HIDE DEF t
  <2>3. Born(t.conn) /\ t.op \notin {"send", "shutdown"}
    BY <1>1, <2>2 DEF LoopRefs, Placed, FlushInv, PollerInv, NoShutdown, NoSend
  <2> QED
    BY <1>9, <2>1, <2>2, <2>3
<1>13. ASSUME NEW c \in Conn, NEW op \in UserOps, UserCalls(op, c) PROVE FlushStep
  <2> DEFINE t == Do(op, c)
  <2>1. t \in Task /\ t.op # "release" /\ conn[c].loop \in Loop
    BY <1>1, <1>13, WorkOfBorn, ServerAssumption DEF UserCalls, Do, Task, ServerRefs
  <2>2. Push(conn[c].loop, <<t>>) /\ UNCHANGED <<conn, peer, timeout, actives>>
    BY <1>13 DEF UserCalls
  <2> HIDE DEF t
  <2> QED
    BY <1>10, <2>1, <2>2
<1>14. CASE Accept
  <2>1. /\ UNCHANGED <<tasks, peer, timeout>>
        /\ actives' = [actives EXCEPT ![Base] = @ \ {Listen}]
        /\ \/ UNCHANGED conn
           \/ \E c \in Conn : ~Born(c) /\ \E k : conn' = [conn EXCEPT ![c] = k]
    BY <1>14 DEF Accept, Backlog
  <2>2. \A l \in Loop : actives'[l] \subseteq actives[l]
    BY <1>1, <2>1 DEF LoopTypes
  <2>3. \A d \in Conn : Born(d) => conn'[d].out = conn[d].out
    BY <1>1, <2>1
  <2> QED
    BY <1>3, <2>1, <2>2, <2>3
<1>15. ASSUME NEW l \in Loop, FinishBatch(l) \/ SecondPasses(l) \/ PollInterrupted(l)
       PROVE  FlushStep
  BY <1>4, <1>15 DEF FinishBatch, SecondPasses, PollInterrupted
<1>16. CASE InsertConnection \/ UNCHANGED vars
  BY <1>4, <1>16 DEF InsertConnection, vars
<1>17. CASE RunAfter
  BY <1>11, <1>17 DEF RunAfter
<1>18. ASSUME NEW c \in Conn,
              PeerConnects(c) \/ PeerSends(c) \/ PeerCloses(c) \/ PeerResets(c) \/ UserDrops(c)
       PROVE  FlushStep
  <2>1. /\ UNCHANGED <<conn, tasks, timeout, actives>>
        /\ \/ UNCHANGED peer
           \/ peer[c] \in {"none", "open"} /\ \E p : peer' = [peer EXCEPT ![c] = p]
           \/ peer' = [peer EXCEPT ![c] = "rst"]
    BY <1>18 DEF PeerConnects, PeerSends, PeerCloses, PeerResets, UserDrops
  <2>2. \A d \in Conn : peer[d] = "rst" => peer'[d] = "rst"
    BY <1>1, <2>1
  <2> QED
    BY <1>4, <2>1, <2>2
<1> QED
  BY <1>5, <1>6, <1>7, <1>8, <1>11, <1>12, <1>13, <1>14, <1>15, <1>16, <1>17, <1>18
     DEF Next, LoopStep, Environment

(* What a poll returns of a connection, which has no other descriptor and  *)
(* shares it with none.                                                    *)
LEMMA PolledEvents ==
  ASSUME PollerInv, NEW l \in Loop, NEW a \in Ready(l), a \notin {Listen, OnTimer}
  PROVE  LET events == interest[l][conn[a.chan].fd]
         IN  /\ events \in SUBSET {"IN", "OUT"}
             /\ a = [chan |-> a.chan, revents |-> Revents(a.chan, events)]
<1>1. /\ ServerRefs /\ None \notin Conn
      /\ chan \in [Loop -> [Fd -> Conn \cup {None}]]
      /\ interest \in [Loop -> [Fd -> (SUBSET {"IN", "OUT"}) \cup {None}]]
  BY ServerAssumption DEF PollerInv, TimerInv, LifeInv, TypeInv, TypeOK, ServerTypes
<1>2. PICK fr \in ReadyFds(l) : a = [chan |-> chan[l][fr[1]], revents |-> fr[2]]
  BY DEF Ready
<1> DEFINE f == fr[1]
<1>3. f \in Fd /\ interest[l][f] # None
  BY <1>2 DEF ReadyFds
<1>4. PICK c \in Owners(f) : fr[2] = Revents(c, interest[l][f])
  BY <1>2 DEF ReadyFds
<1>5. c \in Conn /\ Born(c) /\ conn[c].open /\ conn[c].fd = f
  BY <1>4 DEF Owners
<1> HIDE DEF f
<1>6. chan[l][f] # None
  BY <1>3 DEF PollerInv, TableInv, MonitoredIsKnown
<1>7. /\ chan[l][f] \in Conn /\ Born(chan[l][f]) /\ conn[chan[l][f]].open
      /\ conn[chan[l][f]].fd = f
  BY <1>1, <1>3, <1>6 DEF ServerRefs, PollerInv, TableInv, KnownIsOpen
<1>8. chan[l][f] = c
  BY <1>5, <1>7 DEF PollerInv, TableInv, OwnersDiffer
<1>9. a = [chan |-> c, revents |-> Revents(c, interest[l][f])]
  BY <1>2, <1>4, <1>8 DEF f
<1>10. a.chan = c /\ interest[l][f] \in SUBSET {"IN", "OUT"}
  BY <1>1, <1>3, <1>9
<1> QED
  BY <1>5, <1>9, <1>10

(* Without the users' threads no Send is queued. *)
LEMMA NoSendStep ==
  ASSUME FlushInv, ServerStep, "send" \notin UserOps
  PROVE  NoSend'
<1> SUFFICES ASSUME NEW l \in Loop, NEW t \in Pending(l)', t.op = "send" PROVE FALSE
  BY DEF NoSend
<1>1. TypeInv /\ LoopTypes /\ QueueMoves(l)
  BY DEF FlushInv, PollerInv, TimerInv, LifeInv, TypeInv, TypeOK, ServerStep
<1>2. t \in Pending(l) \/ Reason(t)
  BY <1>1, PendingMoves
<1> QED
  BY <1>1, <1>2 DEF FlushInv, NoSend, Reason, LoopTypes

(* The loop that handles a connection has nothing left of its batch.       *)
LEMMA HandledLoop ==
  ASSUME FlushInv, NEW l \in Loop, NEW a \in actives[l] \ {Listen, OnTimer}
  PROVE  /\ a.chan \in Conn /\ Born(a.chan) /\ conn[a.chan].loop = l
         /\ conn[a.chan].open /\ batch[l] = <<>>
<1>1. LoopTypes /\ LoopRefs /\ Phases /\ ActivesAreOpen
  BY DEF FlushInv, PollerInv, TimerInv, LifeInv, TypeInv, TypeOK
<1>2. a \in Active
  BY <1>1 DEF LoopTypes
<1>3. pc[l] = "events"
  BY <1>1 DEF Phases
<1> QED
  BY <1>1, <1>2, <1>3 DEF Active, LoopRefs, Phases, ActivesAreOpen

(* What a poll returned, and what is queued meanwhile. *)
LEMMA ActivesFlushed ==
  ASSUME FlushInv, timeout = 0, FlushStep
  PROVE  QueuedIsHandled' /\ ActivesDiffer' /\ ErrorIsBroken'
<1>1. /\ PollerInv /\ QueuedIsOpen /\ QueuedIsHandled /\ ActivesDiffer /\ ErrorIsBroken
      /\ DOMAIN actives = Loop
      /\ \A l \in Loop : \A a \in actives[l] \ {Listen, OnTimer} : a.chan \in Conn
  BY HandledLoop DEF FlushInv, PollerInv, TimerInv, LifeInv, TypeInv, TypeOK, LoopTypes
<1>2. \A c \in Conn : peer[c] = "rst" => peer'[c] = "rst"
  BY DEF FlushStep
<1> SUFFICES ASSUME NEW l \in Loop
             PROVE  /\ \A t \in Range(tasks'[l]) : t.op = "release" =>
                         \A a \in actives'[l] \ {Listen, OnTimer} : a.chan # t.conn
                    /\ \A a, b \in actives'[l] \ {Listen, OnTimer} :
                         a.chan = b.chan => a = b
                    /\ \A a \in actives'[l] \ {Listen, OnTimer} :
                         a.revents \cap {"ERR", "HUP"} # {} => peer'[a.chan] = "rst"
  BY DEF QueuedIsHandled, ActivesDiffer, ErrorIsBroken, Listen, OnTimer
<1>3. ASSUME actives'[l] \subseteq actives[l]
      PROVE  /\ \A a, b \in actives'[l] \ {Listen, OnTimer} : a.chan = b.chan => a = b
             /\ \A a \in actives'[l] \ {Listen, OnTimer} :
                  a.revents \cap {"ERR", "HUP"} # {} => peer'[a.chan] = "rst"
  BY <1>1, <1>2, <1>3 DEF ActivesDiffer, ErrorIsBroken
<1>4. CASE FlushKept
  <2>1. CASE actives'[l] \subseteq actives[l]
    BY <1>1, <1>3, <1>4, <2>1 DEF FlushKept, QueuedIsHandled
  <2>2. CASE pc[l] = "poll" /\ actives'[l] = Ready(l) /\ UNCHANGED <<peer, tasks>>
    <3>1. \A t \in Range(tasks'[l]) : t.op # "release"
      BY <1>1, <2>2 DEF QueuedIsOpen
    <3>2. \A a, b \in Ready(l) \ {Listen, OnTimer} : a.chan = b.chan => a = b
      <4> DEFINE Polled(c) ==
                   [chan |-> c, revents |-> Revents(c, interest[l][conn[c].fd])]
      <4> HIDE DEF Polled
      <4>1. ASSUME NEW a \in Ready(l) \ {Listen, OnTimer} PROVE a = Polled(a.chan)
        BY <1>1, PolledEvents DEF Polled
      <4> QED
        BY <4>1
    <3>3. ASSUME NEW a \in Ready(l) \ {Listen, OnTimer}, a.revents \cap {"ERR", "HUP"} # {}
          PROVE  peer[a.chan] = "rst"
      <4> DEFINE events == interest[l][conn[a.chan].fd]
      <4>1. /\ events \in SUBSET {"IN", "OUT"}
            /\ a = [chan |-> a.chan, revents |-> Revents(a.chan, events)]
        BY <1>1, PolledEvents
      <4>2. a.revents = Revents(a.chan, events)
        BY <4>1
      <4> HIDE DEF events
      <4> QED
        BY <3>3, <4>1, <4>2 DEF Revents
    <3> QED
      BY <2>2, <3>1, <3>2, <3>3
  <2> QED
    BY <1>4, <2>1, <2>2 DEF FlushKept
<1>5. ASSUME NEW k \in Loop, NEW a \in actives[k] \ {Listen, OnTimer}, FlushHandled(k, a)
      PROVE  /\ actives'[l] \subseteq actives[l]
             /\ \A t \in Range(tasks'[l]) : t.op = "release" =>
                  \A b \in actives'[l] \ {Listen, OnTimer} : b.chan # t.conn
  <2>1. /\ actives'[l] \subseteq actives[l] /\ (l = k => a \notin actives'[l])
        /\ \A t \in Range(tasks'[l]) : t.op = "release" =>
             t \in Range(tasks[l]) \/ (l = k /\ t.conn = a.chan)
    BY <1>1, <1>5 DEF FlushHandled, Do
  <2> QED
    BY <1>1, <2>1 DEF QueuedIsHandled, ActivesDiffer
<1> QED
  BY <1>3, <1>4, <1>5 DEF FlushStep

(* What is to be released, and what was. *)
LEMMA ReleasesFlushed ==
  ASSUME FlushInv, timeout = 0, FlushStep, ServerStep, TableStep, BatchStep, TypeInv'
  PROVE  QueuedIsFlushed' /\ ClosedIsFlushed'
<1>1. /\ TypeInv /\ LifeInv /\ PollerInv /\ LoopRefs /\ ServerRefs
      /\ QueuedIsFlushed /\ QueuedIsHandled /\ ClosedIsFlushed
  BY DEF FlushInv, PollerInv, TimerInv, LifeInv, TypeInv
<1>2. \A c \in Conn : peer[c] = "rst" => peer'[c] = "rst"
  BY DEF FlushStep
<1>3. \A l \in Loop : \A t \in Pending(l) : t \in Task /\ t.conn \in Conn
                       /\ (t.op = "release" => Born(t.conn) /\ conn[t.conn].loop = l)
  BY <1>1, QueueType, RangeConcat DEF Pending, Queue, LoopRefs, ServerRefs, Placed, Task
<1>4. \A l \in Loop : Pending(l) = Range(batch[l]) \cup Range(tasks[l])
  BY <1>1, QueueType, RangeConcat DEF Pending, Queue
<1>5. \A l \in Loop : Pending(l)' = Range(batch'[l]) \cup Range(tasks'[l])
  <2>1. \A l \in Loop : batch'[l] \in Seq(Task) /\ tasks'[l] \in Seq(Task)
    BY DEF TypeInv, TypeOK, ServerTypes, LoopTypes
  <2>2. \A p, q \in Seq(Task) : Range(p \o q) = Range(p) \cup Range(q)
    BY RangeConcat
  <2> QED
    BY <2>1, <2>2 DEF Pending, Queue
<1>6. \A l \in Loop : Range(batch'[l]) \subseteq Pending(l)
  BY <1>4 DEF BatchStep
<1>7. \A c \in Conn, l \in Loop : Born(c) /\ Do("release", c) \in Pending(l)
         => conn[c].out = 0 \/ peer[c] = "rst"
  BY <1>1 DEF QueuedIsFlushed, Do
<1>8. ASSUME NEW c \in Conn, Born(c), Closes(c)
      PROVE  Do("release", c) \in Range(batch[conn[c].loop]) /\ conn[c].loop \in Loop
  BY <1>1, <1>8, WorkOfBorn DEF Closes
<1>9. \A c \in Conn : conn'[c] # None /\ ~conn'[c].open =>
        Born(c) /\ (~conn[c].open \/ Closes(c))
  <2> SUFFICES ASSUME NEW c \in Conn, conn'[c] # None, ~conn'[c].open
               PROVE  Born(c) /\ (~conn[c].open \/ Closes(c))
    OBVIOUS
  <2>1. CASE SameConn(c)
    BY <2>1 DEF SameConn, Born
  <2>2. CASE Monitors(c)
    BY <2>2 DEF Monitors
  <2>3. CASE Arrives(c)
    <3>1. conn'[c].open
      BY <2>3 DEF Arrives, Comes, NewConn
    <3> QED
      BY <3>1
  <2>4. CASE Closes(c)
    BY <2>4 DEF Closes
  <2> QED
    BY <2>1, <2>2, <2>3, <2>4 DEF TableStep, OnlyOf
<1>10. CASE FlushKept
  <2>1. \A l \in Loop : \A t \in Pending(l)' : t.op = "release" => t \in Pending(l)
    BY <1>4, <1>5, <1>6, <1>10 DEF FlushKept
  <2>2. QueuedIsFlushed'
    BY <1>1, <1>2, <1>3, <1>10, <2>1 DEF QueuedIsFlushed, FlushKept
  <2>3. ASSUME NEW c \in Conn, conn'[c] # None, ~conn'[c].open
        PROVE  conn'[c].out = 0 \/ peer'[c] = "rst"
    <3>1. Born(c) /\ conn'[c].out = conn[c].out
      BY <1>9, <1>10, <2>3 DEF FlushKept
    <3>2. conn[c].out = 0 \/ peer[c] = "rst"
      BY <1>1, <1>4, <1>7, <1>8, <1>9, <2>3, <3>1 DEF ClosedIsFlushed
    <3> QED
      BY <1>2, <3>1, <3>2
  <2> QED
    BY <2>2, <2>3 DEF ClosedIsFlushed, Born
<1>11. ASSUME NEW k \in Loop, NEW a \in actives[k] \ {Listen, OnTimer}, FlushHandled(k, a)
       PROVE  QueuedIsFlushed' /\ ClosedIsFlushed'
  <2> DEFINE c == a.chan
  <2>1. /\ c \in Conn /\ Born(c) /\ conn[c].loop = k /\ conn[c].open /\ batch[k] = <<>>
    BY HandledLoop
  <2>2. Range(batch[k]) = {} /\ batch' = batch
    BY <1>11, <2>1 DEF FlushHandled, Range
  <2>3. \A t \in Range(tasks[k]) : t.op = "release" => t.conn # c
    BY <1>1 DEF QueuedIsHandled
  <2>4. ASSUME NEW l \in Loop, NEW t \in Pending(l)', t.op = "release"
        PROVE  conn'[t.conn].out = 0 \/ peer'[t.conn] = "rst"
    <3>1. CASE t = Do("release", c) /\ (conn'[c].out = 0 \/ peer[c] = "rst")
      BY <1>2, <2>1, <3>1 DEF Do
    <3>2. CASE t \in Pending(l) /\ (l = k => t \in Range(tasks[l]))
      <4>1. t.conn \in Conn \ {c}
        BY <1>3, <2>1, <2>3, <2>4, <3>2
      <4>2. conn'[t.conn] = conn[t.conn]
        BY <1>11, <4>1 DEF FlushHandled
      <4> QED
        BY <1>1, <1>2, <2>4, <3>2, <4>1, <4>2 DEF QueuedIsFlushed
    <3> QED
      BY <1>4, <1>5, <1>11, <2>2, <2>4, <3>1, <3>2 DEF FlushHandled
  <2>5. ASSUME NEW d \in Conn, conn'[d] # None, ~conn'[d].open
        PROVE  conn'[d].out = 0 \/ peer'[d] = "rst"
    <3>1. CASE d = c
      BY <1>8, <1>9, <2>1, <2>2, <2>5, <3>1
    <3>2. CASE d # c
      <4>1. conn'[d] = conn[d]
        BY <1>11, <3>2 DEF FlushHandled
      <4> QED
        BY <1>1, <1>2, <2>5, <4>1 DEF ClosedIsFlushed, Born
    <3> QED
      BY <3>1, <3>2
  <2> QED
    BY <2>4, <2>5 DEF QueuedIsFlushed, ClosedIsFlushed, Born
<1> QED
  BY <1>10, <1>11 DEF FlushStep

(* FlushInv holds at first ... *)
LEMMA FlushInit == Init => FlushInv
<1> SUFFICES ASSUME Init PROVE FlushInv
  OBVIOUS
<1>1. /\ \A c \in Conn : ~Born(c)
      /\ \A l \in Loop : batch[l] = <<>> /\ tasks[l] = <<>> /\ actives[l] = {}
  BY DEF Init, Born
<1>2. Range(<<>>) = {} /\ <<>> \o <<>> = <<>>
  BY DEF Range
<1>3. \A l \in Loop : Pending(l) = {}
  BY <1>1, <1>2 DEF Pending, Queue
<1> QED
  BY <1>1, <1>2, <1>3, PollerInit
     DEF FlushInv, NoSend, QueuedIsFlushed, QueuedIsHandled, ActivesDiffer, ErrorIsBroken,
         ClosedIsFlushed

(* ... and each step keeps it. *)
LEMMA FlushInvStep ==
  ASSUME UserOps \cap {"send", "shutdown", "enable"} = {}
  PROVE  FlushInv /\ [Next]_vars => FlushInv'
<1> SUFFICES ASSUME FlushInv, [Next]_vars PROVE FlushInv'
  OBVIOUS
<1>1. PollerInv /\ PollerInv' /\ LifeInv /\ TypeInv /\ TypeInv'
  BY PollerInvStep DEF FlushInv, PollerInv, TimerInv, LifeInv
<1>2. ServerStep /\ TableStep /\ BatchStep
  BY <1>1, ServerSteps, TableSteps, BatchSteps
<1>3. NoSend'
  BY <1>2, NoSendStep
<1>4. timeout' = timeout
  BY DEF Next, LoopStep, Environment, vars, serverVars, Poll, HandleChannel, OnTime, Accept,
         NewConnectionCall, RunAfter, InsertConnection, SwapTasks, RunTask, FinishBatch,
         PeerConnects, PeerSends, PeerCloses, PeerResets, UserCalls, UserDrops, SecondPasses,
         PollInterrupted
<1>5. ASSUME timeout = 0
      PROVE  /\ QueuedIsFlushed' /\ QueuedIsHandled' /\ ActivesDiffer'
             /\ ErrorIsBroken' /\ ClosedIsFlushed'
  BY <1>1, <1>2, <1>5, FlushSteps, ActivesFlushed, ReleasesFlushed
<1> QED
  BY <1>1, <1>3, <1>4, <1>5 DEF FlushInv

(* Where no timeout releases connections, a connection is closed with      *)
(* nothing left to send, unless the peer broke it: a Release is queued     *)
(* when the buffer is empty, and nothing is added before it runs.  (What   *)
(* the users' threads may add is excluded: the code closes the connection  *)
(* with it.)                                                               *)
THEOREM RepliesAreFlushed ==
  UserOps \cap {"send", "shutdown", "enable"} = {} => (Spec => []FlushBeforeClose)
<1> SUFFICES ASSUME UserOps \cap {"send", "shutdown", "enable"} = {}
             PROVE  Spec => []FlushBeforeClose
  OBVIOUS
<1>1. FlushInv => FlushBeforeClose
  BY DEF FlushInv, ClosedIsFlushed, FlushBeforeClose
<1> QED
  BY <1>1, FlushInit, FlushInvStep, PTL DEF Spec
=============================================================================
