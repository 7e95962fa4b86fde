----------------------------- MODULE TcpServer -----------------------------
(***************************************************************************)
(* TcpServer with its Connections, Poller and Acceptor (source/server.hpp) *)
(* on several EventLoops: a loop's thread handles the events of its        *)
(* connections and runs its task pool, the base loop accepts connections   *)
(* and owns _conns, and the peers, the clock and the user's own threads    *)
(* act between any two steps.                                              *)
(*                                                                         *)
(* Of the loop itself only what EventLoop shows is kept: a poll returns    *)
(* when a descriptor is ready or when there is a task.  Of the timer wheel *)
(* only what TimerService says is kept: one countdown for each timer.      *)
(*                                                                         *)
(* A Connection is named by its id, and exists while something refers to   *)
(* it.  Most tasks refer to it by a bare this.  Using one that no longer   *)
(* exists, or failing an assertion, sets crashed and stops the server.     *)
(***************************************************************************)
EXTENDS Connection, Sequences, FiniteSets, SequencesExt

CONSTANTS
  Conn,     \* the connections, in the order of their ids
  Loop,     \* the event loops
  Base,     \* _baseloop
  Fd,       \* the descriptors the process may have open for connections
  None,     \* none of these
  Timeouts, \* what EnableInactiveRelease may be called with; 0: not called
  Faults,   \* a subset of {"reset", "signal"}: what may go wrong outside
  UserOps,  \* what the user's code may do: see UserCalls, UserDrops, RunAfter
  MaxSend,  \* bound on the messages of a peer
  MaxUser   \* bound on the calls of the user's threads

(* A Connection, as far as it is modelled. *)
Connection ==
  [state : {"CONNECTING", "CONNECTED", "DISCONNECTING", "DISCONNECTED"},
   fd : Fd, loop : Loop, events : SUBSET {"IN", "OUT"}, in : Nat, out : Nat,
   open : BOOLEAN, enabled : BOOLEAN]

ASSUME ServerAssumption ==
  /\ Base \in Loop
  /\ None \notin Conn \cup Fd \cup Connection
  /\ \A events \in SUBSET {"IN", "OUT"} : events # None
  /\ Timeouts \subseteq Nat /\ Timeouts # {}
  /\ Faults \subseteq {"reset", "signal"}
  /\ UserOps \subseteq {"send", "shutdown", "enable", "cancel", "drop",
                   "after"}
  /\ MaxSend \in Nat /\ MaxUser \in Nat

VARIABLES
  timeout,    \* _timeout of inactive connections in seconds, 0: never
  workers,    \* the loops of the pool, or the base loop if the pool is empty
  conn,       \* each connection, or None before it is constructed
  conns,      \* the connections in _conns
  misfiled,   \* those of them that are there under another key than their id
  accepting,  \* the connection NewConnection is busy with and its next step
  shared,     \* the connections the user's threads hold a pointer to
  tasks,      \* of each loop: its task pool
  batch,      \* RunAllTask's local vector, what is left of it
  held,       \* the connections the tasks already run in the batch refer to
  pc,         \* "poll", "events" or "tasks"
  actives,    \* the channels the last poll returned
  chan,       \* Poller's _channels: the channel of each descriptor
  interest,   \* the events epoll monitors for each descriptor, or None
  errno,      \* "retry": EINTR or EAGAIN was the thread's last error
  timer,      \* seconds to go of each connection's timer, 0 if it has none
  cancelled,  \* the connections whose timer is cancelled
  expired,    \* the loops whose timerfd is readable
  peer,       \* of each connection: "none", "open", "fin" or "rst"
  rx,         \* messages in each socket's receive buffer
  sent,       \* messages each peer has sent
  calls,      \* the calls of the user's threads so far
  crashed     \* the process has aborted or its behaviour is undefined

serverVars == <<timeout, workers, misfiled>>
connVars == <<conn, conns, shared>>
loopVars == <<tasks, batch, held, pc, actives, errno>>
pollVars == <<chan, interest>>
timerVars == <<timer, cancelled>>
netVars == <<peer, rx, sent, calls>>
vars == <<serverVars, connVars, accepting, loopVars, pollVars, timerVars, expired,
          netVars, crashed>>

Task == [op : {"established", "release", "remove", "send", "shutdown",
               "enable", "cancel"}, conn : Conn]

Listen == [chan |-> "listen"]
OnTimer == [chan |-> "timer"]
Event == {"IN", "OUT", "ERR", "HUP"}
Active == [chan : Conn, revents : SUBSET Event]

(* What the tasks and handlers of the connections work on. *)
ServerTypes ==
  /\ timeout \in Timeouts /\ workers \in (SUBSET Loop) \ {{}}
  /\ conn \in [Conn -> Connection \cup {None}]
  /\ \A c \in Conn : conn[c] # None => conn[c].loop \in workers
  /\ conns \subseteq Conn /\ shared \subseteq Conn /\ misfiled \subseteq conns
  /\ tasks \in [Loop -> Seq(Task)]
  /\ chan \in [Loop -> [Fd -> Conn \cup {None}]]
  /\ interest \in [Loop -> [Fd -> (SUBSET {"IN", "OUT"}) \cup {None}]]
  /\ timer \in [Conn -> 0 .. timeout] /\ cancelled \subseteq Conn
  /\ crashed \in BOOLEAN

(* Where the threads are, and what is outside. *)
LoopTypes ==
  /\ accepting \in [conn : Conn \cup {None},
                    step : {"enable", "established", "insert", "misfile"}]
  /\ batch \in [Loop -> Seq(Task)]
  /\ held \in [Loop -> SUBSET Conn]
  /\ pc \in [Loop -> {"poll", "events", "tasks"}]
  /\ actives \in [Loop -> SUBSET ({Listen, OnTimer} \cup Active)]
  /\ errno \in [Loop -> {"other", "retry"}]
  /\ expired \subseteq Loop
  /\ peer \in [Conn -> {"none", "open", "fin", "rst"}]
  /\ rx \in [Conn -> Nat] /\ sent \in [Conn -> Nat]
  /\ calls \in 0 .. MaxUser

TypeOK == ServerTypes /\ LoopTypes

(* What was asked for before Start(): both are fixed from then on. *)
Init ==
  /\ timeout \in Timeouts
  /\ workers \in {{Base}, Loop \ {Base}} \ {{}}
  /\ conn = [c \in Conn |-> None]
  /\ conns = {} /\ misfiled = {} /\ shared = {}
  /\ accepting = [conn |-> None, step |-> "insert"]
  /\ tasks = [l \in Loop |-> <<>>] /\ batch = [l \in Loop |-> <<>>]
  /\ held = [l \in Loop |-> {}]
  /\ pc = [l \in Loop |-> "poll"] /\ actives = [l \in Loop |-> {}]
  /\ chan = [l \in Loop |-> [f \in Fd |-> None]]
  /\ interest = [l \in Loop |-> [f \in Fd |-> None]]
  /\ errno = [l \in Loop |-> "other"]
  /\ timer = [c \in Conn |-> 0] /\ cancelled = {} /\ expired = {}
  /\ peer = [c \in Conn |-> "none"]
  /\ rx = [c \in Conn |-> 0] /\ sent = [c \in Conn |-> 0] /\ calls = 0
  /\ crashed = FALSE
-----------------------------------------------------------------------------
Born(c) == conn[c] # None

Owners(f) == {c \in Conn : Born(c) /\ conn[c].open /\ conn[c].fd = f}

(* A task's functor, in the pool or in the batch, done or not, holds a     *)
(* shared_ptr if it was bound to one: RemoveConnectionInLoop alone is.     *)
RefersTo(s, c) == \E i \in DOMAIN s : s[i] = [op |-> "remove", conn |-> c]

(* The server's own references, as far as it still has any. *)
Kept(c) ==
  \/ c \in conns \/ accepting.conn = c
  \/ \E l \in Loop :
       c \in held[l] \/ RefersTo(tasks[l], c) \/ RefersTo(batch[l], c)

Alive(c) == Kept(c) \/ c \in shared

Times(task, n) == [i \in 1 .. n |-> task]

Do(op, c) == [op |-> op, conn |-> c]

Push(l, s) == tasks' = [tasks EXCEPT ![l] = @ \o s]

(* The process stops inside a task or handler. *)
Crash ==
  /\ crashed' = TRUE
  /\ UNCHANGED <<connVars, pollVars, timerVars, tasks>>

(* Poller::UpdateEvent: MOD what _channels has, ADD the rest.  epoll_ctl   *)
(* refuses to MOD what it does not monitor and to ADD what is not open;    *)
(* the Poller only logs it.                                                *)
UpdateEvent(l, c, events) ==
  LET f == conn[c].fd
      accepted == IF chan[l][f] = None
                  THEN interest[l][f] = None /\ Owners(f) # {}
                  ELSE interest[l][f] # None
  IN  /\ chan' = IF chan[l][f] = None THEN [chan EXCEPT ![l][f] = c] ELSE chan
      /\ interest' = IF accepted THEN [interest EXCEPT ![l][f] = events]
                                 ELSE interest

(* The effects of a handler of c on its loop and its poller. *)
Apply(c, w) ==
  /\ conn' = [conn EXCEPT ![c] = w.conn]
  /\ Push(conn[c].loop, Times(Do("release", c), w.releases))
  /\ IF w.updated THEN UpdateEvent(conn[c].loop, c, w.conn.events)
                  ELSE UNCHANGED pollVars
-----------------------------------------------------------------------------
(* The tasks of a connection, run by its loop. *)
HasTimer(c) == timer[c] > 0

(* Bug: the refreshed timer leaves its slot and is put into no other. *)
TimerRefreshDrop(c) == timer' = [timer EXCEPT ![c] = 0]

TimerRefresh(c) ==
  timer' = IF HasTimer(c) THEN [timer EXCEPT ![c] = timeout] ELSE timer

(* Adds the timer, or refreshes it if HasTimer: cancelled or not. *)
EnableInactiveReleaseInLoop(c) ==
  /\ conn' = [conn EXCEPT ![c].enabled = TRUE]
  /\ timer' = [timer EXCEPT ![c] = timeout]
  /\ UNCHANGED <<conns, shared, cancelled, pollVars, tasks, crashed>>

(* The connected callback gives the connection to the user's threads. *)
EstablishedInLoop(c) ==
  IF conn[c].state # "CONNECTING"
  THEN Crash
  ELSE /\ Apply(c, EnableRead(Work([conn[c] EXCEPT !.state = "CONNECTED"])))
       /\ shared' = IF UserOps = {} THEN shared ELSE shared \cup {c}
       /\ UNCHANGED <<conns, timerVars, crashed>>

(* Channel::Remove and Socket::Close name the descriptor by its number:    *)
(* they reach whoever has it now.  Once closed it is monitored by nobody.  *)
CloseDescriptor(c) ==
  LET l == conn[c].loop
      f == conn[c].fd
  IN  interest' = [k \in Loop |-> IF k = l \/ conn[c].open
                                 THEN [interest[k] EXCEPT ![f] = None]
                                 ELSE interest[k]]

(* Bug: the channel is not removed from the poller. *)
RemoveAndCloseOnly(c) ==
  CloseDescriptor(c) /\ UNCHANGED chan

RemoveAndClose(c) ==
  CloseDescriptor(c) /\ chan' = [chan EXCEPT ![conn[c].loop][conn[c].fd] = None]

(* Bug: the timer goes on. *)
CancelTimerNot(c) == UNCHANGED cancelled

CancelTimer(c) ==
  cancelled' = IF HasTimer(c) THEN cancelled \cup {c} ELSE cancelled

CancelInactiveReleaseInLoop(c) ==
  /\ conn' = [conn EXCEPT ![c].enabled = FALSE]
  /\ CancelTimer(c)
  /\ UNCHANGED <<conns, shared, timer, pollVars, tasks, crashed>>

(* Bug: what the base loop is told to remove stays there. *)
EraseConnectionOfBase(c) ==
  conns' = IF conn[c].loop = Base THEN conns \ {c} ELSE conns

(* _conns is searched for the connection's id. *)
EraseConnection(c) == conns' = conns \ ({c} \ misfiled)

(* RemoveConnection runs in place on the base loop, and is queued there by *)
(* any other.                                                              *)
ReleaseInLoop(c) ==
  /\ conn' = [conn EXCEPT ![c].state = "DISCONNECTED", ![c].open = FALSE,
                          ![c].enabled = @ /\ ~HasTimer(c)]
  /\ RemoveAndClose(c)
  /\ CancelTimer(c)
  /\ IF conn[c].loop = Base
     THEN EraseConnection(c) /\ UNCHANGED tasks
     ELSE Push(Base, <<Do("remove", c)>>) /\ UNCHANGED conns
  /\ UNCHANGED <<shared, timer, crashed>>

RemoveConnectionInLoop(c) ==
  /\ EraseConnection(c)
  /\ UNCHANGED <<conn, shared, pollVars, timerVars, tasks, crashed>>

Effect(c, works) ==
  /\ \E w \in works : Apply(c, w)
  /\ UNCHANGED <<conns, shared, timerVars, crashed>>

(* Every functor but RemoveConnectionInLoop's holds a bare this. *)
Execute(t) ==
  LET c == t.conn
  IN  IF ~Alive(c)
      THEN Crash
      ELSE \/ t.op = "established" /\ EstablishedInLoop(c)
           \/ t.op = "release" /\ ReleaseInLoop(c)
           \/ t.op = "remove" /\ RemoveConnectionInLoop(c)
           \/ t.op = "send" /\ Effect(c, {SendInLoop(Work(conn[c]))})
           \/ t.op = "shutdown" /\ Effect(c, ShutdownInLoop(Work(conn[c])))
           \/ t.op = "enable" /\ EnableInactiveReleaseInLoop(c)
           \/ t.op = "cancel" /\ CancelInactiveReleaseInLoop(c)

(* RunInLoop, called by the thread of loop l. *)
RunInLoop(l, t) ==
  IF conn[t.conn].loop = l
  THEN Execute(t)
  ELSE /\ Push(conn[t.conn].loop, <<t>>)
       /\ UNCHANGED <<connVars, pollVars, timerVars, crashed>>
-----------------------------------------------------------------------------
(* What epoll sees on a descriptor: it is level-triggered, and a write     *)
(* never has to wait for long.                                             *)
Revents(c, events) ==
     (IF "IN" \in events /\ (rx[c] > 0 \/ peer[c] \in {"fin", "rst"})
      THEN {"IN"} ELSE {})
  \cup (events \cap {"OUT"})
  \cup (IF peer[c] = "rst" THEN {"ERR", "HUP"} ELSE {})

Backlog == {c \in Conn : peer[c] # "none" /\ ~Born(c)}

(* The descriptors epoll_wait reports to loop l, with their events. *)
ReadyFds(l) ==
  {fr \in Fd \X ((SUBSET Event) \ {{}}) :
     /\ interest[l][fr[1]] # None
     /\ \E c \in Owners(fr[1]) : fr[2] = Revents(c, interest[l][fr[1]])}

Ready(l) ==
       {[chan |-> chan[l][fr[1]], revents |-> fr[2]] : fr \in ReadyFds(l)}
  \cup (IF l = Base /\ Backlog # {} THEN {Listen} ELSE {})
  \cup (IF l \in expired THEN {OnTimer} ELSE {})

(* Loop l's thread is at the top of Start(), not inside NewConnection. *)
OnThread(l) == ~crashed /\ (l = Base => accepting.conn = None)

(* A loop with a task is always going to be woken: NoLostWakeup.  The      *)
(* assertion of Poll is that _channels knows what epoll reports.           *)
Poll(l) ==
  /\ pc[l] = "poll" /\ OnThread(l)
  /\ Ready(l) # {} \/ tasks[l] # <<>>
  /\ IF \E fr \in ReadyFds(l) : chan[l][fr[1]] = None
     THEN crashed' = TRUE /\ UNCHANGED <<actives, pc>>
     ELSE /\ actives' = [actives EXCEPT ![l] = Ready(l)]
          /\ pc' = [pc EXCEPT ![l] = "events"]
          /\ UNCHANGED crashed
  /\ UNCHANGED <<serverVars, connVars, accepting, tasks, batch, held, errno,
                 pollVars, timerVars, expired, netVars>>

(* A signal interrupts a poll that has nothing to report.  The rest of the *)
(* iteration then has nothing to do; what is left behind is errno, which   *)
(* only a loop with connections looks at.                                  *)
PollInterrupted(l) ==
  /\ "signal" \in Faults /\ l \in workers
  /\ pc[l] = "poll" /\ OnThread(l)
  /\ Ready(l) = {} /\ tasks[l] = <<>>
  /\ errno' = [errno EXCEPT ![l] = "retry"]
  /\ UNCHANGED <<serverVars, connVars, accepting, tasks, batch, held, pc, actives,
                 pollVars, timerVars, expired, netVars, crashed>>

Broken(c) == ~conn[c].open \/ peer[c] = "rst"

(* Bug: an end of file is taken for an empty read. *)
ReceivedNoEof(l, c) == IF Broken(c) THEN -1 ELSE rx[c]

(* Socket::Recv.  An end of file is recv's 0, which does not set errno:    *)
(* what an earlier call left there decides between 0 and -1.               *)
Received(l, c) ==
  CASE Broken(c)                           -> -1
    [] ~Broken(c) /\ rx[c] > 0             -> rx[c]
    [] ~Broken(c) /\ rx[c] = 0 /\ peer[c] = "fin" ->
         IF errno[l] = "retry" THEN 0 ELSE -1
    [] OTHER                               -> 0

ErrnoAfter(l, c) ==
  CASE Broken(c)                           -> "other"
    [] rx[c] = 0 /\ peer[c] = "open"       -> "retry"
    [] OTHER                               -> errno[l]

(* Channel::HandleEvent of a connection: its handlers, then the any-event  *)
(* handler, Connection::HandleEvent.                                       *)
HandleChannel(l, a) ==
  LET c == a.chan
      reads == "IN" \in a.revents
  IN  /\ pc[l] = "events" /\ OnThread(l)
      /\ a \in actives[l] \ {Listen, OnTimer}
      /\ actives' = [actives EXCEPT ![l] = @ \ {a}]
      /\ IF ~Alive(c)
         THEN Crash /\ UNCHANGED <<rx, errno>>
         ELSE /\ \E w \in HandleEvent(Work(conn[c]), a.revents,
                                      Received(l, c), Broken(c)) :
                    Apply(c, w)
              /\ rx' = IF reads /\ conn[c].open THEN [rx EXCEPT ![c] = 0] ELSE rx
              /\ errno' = IF reads THEN [errno EXCEPT ![l] = ErrnoAfter(l, c)]
                                   ELSE errno
              /\ IF conn[c].enabled THEN TimerRefresh(c) ELSE UNCHANGED timer
              /\ UNCHANGED <<conns, shared, cancelled, crashed>>
      /\ UNCHANGED <<serverVars, accepting, batch, held, pc, expired, peer, sent, calls>>

(* TimerWheel's OnTime: a timer that runs out queues Release. *)
OnTime(l) ==
  LET Mine(c) == HasTimer(c) /\ conn[c].loop = l
      over == {c \in Conn : Mine(c) /\ timer[c] = 1}
  IN  /\ pc[l] = "events" /\ OnThread(l)
      /\ OnTimer \in actives[l]
      /\ actives' = [actives EXCEPT ![l] = @ \ {OnTimer}]
      /\ expired' = expired \ {l}
      /\ IF \E c \in over \ cancelled : ~Alive(c)
         THEN Crash
         ELSE /\ timer' = [c \in Conn |-> IF Mine(c) THEN timer[c] - 1
                                                     ELSE timer[c]]
              /\ cancelled' = cancelled \ over
              /\ \E s \in SetToSeqs(over \ cancelled) :
                   Push(l, [i \in DOMAIN s |-> Do("release", s[i])])
              /\ UNCHANGED <<connVars, pollVars, crashed>>
      /\ UNCHANGED <<serverVars, accepting, batch, held, pc, errno, netVars>>

(* Acceptor::HandleRead and the first half of NewConnection.  Accept fails *)
(* when the process has no descriptor left.                                *)
Accept ==
  LET free == {f \in Fd : Owners(f) = {}}
  IN  /\ pc[Base] = "events" /\ OnThread(Base)
      /\ Listen \in actives[Base]
      /\ actives' = [actives EXCEPT ![Base] = @ \ {Listen}]
      /\ IF free = {} \/ Backlog = {}
         THEN UNCHANGED <<conn, accepting>>
         ELSE \E c \in Backlog, f \in free, l \in workers :
                /\ conn' = [conn EXCEPT ![c] = NewConn(f, l)]
                /\ accepting' = [conn |-> c,
                     step |-> IF timeout > 0 THEN "enable" ELSE "established"]
      /\ UNCHANGED <<serverVars, conns, shared, tasks, batch, held, pc, errno,
                     pollVars, timerVars, expired, netVars, crashed>>

(* The rest of NewConnection, one call at a time: the connection's own     *)
(* loop works on it meanwhile.                                             *)
NewConnectionCall(step, next) ==
  /\ ~crashed /\ accepting.conn # None /\ accepting.step = step
  /\ accepting' = [accepting EXCEPT !.step = next]
  /\ RunInLoop(Base, Do(step, accepting.conn))
  /\ UNCHANGED <<serverVars, batch, held, pc, actives, errno, expired, netVars>>

(* The connected callback, called in place, calls RunAfter: it takes the    *)
(* next value of _next_id for its timer, also in place.  (Called anywhere  *)
(* else it comes before or after NewConnection, and no harm is done.)      *)
RunAfter ==
  /\ "after" \in UserOps
  /\ accepting.conn # None /\ conn[accepting.conn].loop = Base
  /\ NewConnectionCall("established", "misfile")

(* Bug: the connection is not put into _conns. *)
InsertConnectionNot ==
  /\ ~crashed /\ accepting.conn # None /\ accepting.step \in {"insert", "misfile"}
  /\ accepting' = [accepting EXCEPT !.conn = None]
  /\ UNCHANGED <<serverVars, connVars, loopVars, pollVars, timerVars, expired,
                 netVars, crashed>>

(* The key is what _next_id is now. *)
InsertConnection ==
  /\ ~crashed /\ accepting.conn # None /\ accepting.step \in {"insert", "misfile"}
  /\ conns' = conns \cup {accepting.conn}
  /\ misfiled' = IF accepting.step = "misfile"
                 THEN misfiled \cup {accepting.conn} ELSE misfiled
  /\ accepting' = [accepting EXCEPT !.conn = None]
  /\ UNCHANGED <<timeout, workers, conn, shared, loopVars, pollVars, timerVars,
                 expired, netVars, crashed>>

(* Bug: the tasks are run between two events of a poll. *)
SwapTasksEarly(l) ==
  /\ pc[l] = "events" /\ OnThread(l)
  /\ batch' = [batch EXCEPT ![l] = tasks[l]]
  /\ tasks' = [tasks EXCEPT ![l] = <<>>]
  /\ pc' = [pc EXCEPT ![l] = "tasks"]
  /\ UNCHANGED <<serverVars, connVars, accepting, held, actives, errno, pollVars,
                 timerVars, expired, netVars, crashed>>

SwapTasks(l) ==
  /\ pc[l] = "events" /\ OnThread(l)
  /\ actives[l] = {}
  /\ batch' = [batch EXCEPT ![l] = tasks[l]]
  /\ tasks' = [tasks EXCEPT ![l] = <<>>]
  /\ pc' = [pc EXCEPT ![l] = "tasks"]
  /\ UNCHANGED <<serverVars, connVars, accepting, held, actives, errno, pollVars,
                 timerVars, expired, netVars, crashed>>

RunTask(l) ==
  /\ pc[l] = "tasks" /\ OnThread(l)
  /\ batch[l] # <<>>
  /\ LET t == Head(batch[l])
     IN  /\ Execute(t)
         /\ held' = IF t.op = "remove" THEN [held EXCEPT ![l] = @ \cup {t.conn}]
                                       ELSE held
  /\ batch' = [batch EXCEPT ![l] = Tail(@)]
  /\ UNCHANGED <<serverVars, accepting, pc, actives, errno, expired, netVars>>

(* RunAllTask returns: its functors, and what they are bound to, go. *)
FinishBatch(l) ==
  /\ pc[l] = "tasks" /\ OnThread(l)
  /\ batch[l] = <<>>
  /\ held' = [held EXCEPT ![l] = {}]
  /\ pc' = [pc EXCEPT ![l] = "poll"]
  /\ UNCHANGED <<serverVars, connVars, accepting, tasks, batch, actives, errno,
                 pollVars, timerVars, expired, netVars, crashed>>
-----------------------------------------------------------------------------
(* The peers, the clock and the user's threads. *)
PeerConnects(c) ==
  /\ peer[c] = "none"
  /\ peer' = [peer EXCEPT ![c] = "open"]
  /\ UNCHANGED <<serverVars, connVars, accepting, loopVars, pollVars, timerVars,
                 expired, rx, sent, calls, crashed>>

(* Bound: a peer sends at most MaxSend messages. *)
PeerSends(c) ==
  /\ peer[c] = "open" /\ sent[c] < MaxSend
  /\ Born(c) => conn[c].open
  /\ rx' = [rx EXCEPT ![c] = @ + 1]
  /\ sent' = [sent EXCEPT ![c] = @ + 1]
  /\ UNCHANGED <<serverVars, connVars, accepting, loopVars, pollVars, timerVars,
                 expired, peer, calls, crashed>>

PeerCloses(c) ==
  /\ peer[c] = "open"
  /\ peer' = [peer EXCEPT ![c] = "fin"]
  /\ UNCHANGED <<serverVars, connVars, accepting, loopVars, pollVars, timerVars,
                 expired, rx, sent, calls, crashed>>

(* A reset discards what was not received. *)
PeerResets(c) ==
  /\ "reset" \in Faults
  /\ peer[c] \in {"open", "fin"}
  /\ Born(c) => conn[c].open
  /\ peer' = [peer EXCEPT ![c] = "rst"]
  /\ rx' = [rx EXCEPT ![c] = 0]
  /\ UNCHANGED <<serverVars, connVars, accepting, loopVars, pollVars, timerVars,
                 expired, sent, calls, crashed>>

(* The timerfd of a loop with no connections is left out. *)
SecondPasses(l) ==
  /\ timeout > 0 /\ l \in workers \ expired
  /\ expired' = expired \cup {l}
  /\ UNCHANGED <<serverVars, connVars, accepting, loopVars, pollVars, timerVars,
                 netVars, crashed>>

(* A call on a connection by a thread that is not its loop's.  Bound:      *)
(* MaxUser calls.                                                          *)
UserCalls(op, c) ==
  /\ ~crashed /\ op \in UserOps \ {"drop", "after"} /\ c \in shared
  /\ calls < MaxUser
  /\ calls' = calls + 1
  /\ Push(conn[c].loop, <<Do(op, c)>>)
  /\ UNCHANGED <<serverVars, connVars, accepting, batch, held, pc, actives, errno,
                 pollVars, timerVars, expired, peer, rx, sent, crashed>>

(* The user's threads let go of their shared_ptr, calls queued or not. *)
UserDrops(c) ==
  /\ ~crashed /\ "drop" \in UserOps /\ c \in shared
  /\ shared' = shared \ {c}
  /\ UNCHANGED <<serverVars, conn, conns, accepting, loopVars, pollVars, timerVars,
                 expired, netVars, crashed>>
-----------------------------------------------------------------------------
LoopStep(l) ==
  \/ Poll(l)
  \/ \E a \in actives[l] : HandleChannel(l, a)
  \/ OnTime(l)
  \/ l = Base /\ Accept
  \/ l = Base /\ NewConnectionCall("enable", "established")
  \/ l = Base /\ NewConnectionCall("established", "insert")
  \/ l = Base /\ RunAfter
  \/ l = Base /\ InsertConnection
  \/ SwapTasks(l)
  \/ RunTask(l)
  \/ FinishBatch(l)

Environment ==
  \/ \E c \in Conn : \/ PeerConnects(c) \/ PeerSends(c)
                    \/ PeerCloses(c) \/ PeerResets(c)
                    \/ \E op \in UserOps : UserCalls(op, c)
                    \/ UserDrops(c)
  \/ \E l \in Loop : SecondPasses(l) \/ PollInterrupted(l)

Next == (\E l \in Loop : LoopStep(l)) \/ Environment

Spec == Init /\ [][Next]_vars

(* Each loop's thread goes on running, and time goes on. *)
FairSpec ==
  Spec /\ \A l \in Loop : WF_vars(LoopStep(l)) /\ WF_vars(SecondPasses(l))
-----------------------------------------------------------------------------
Established(c) ==
  /\ Born(c) /\ conn[c].open
  /\ conn[c].state \in {"CONNECTED", "DISCONNECTING"}

(* Where a connection is in its life, as _statu tells while it exists. *)
Stage(c) ==
  LET named == [CONNECTING    |-> "connecting", CONNECTED    |-> "connected",
                DISCONNECTING |-> "closing",    DISCONNECTED |-> "closed"]
  IN  IF ~Born(c) THEN "none"
      ELSE IF Alive(c) THEN named[conn[c].state]
      ELSE IF conn[c].open THEN "lost" ELSE "gone"

Life(c) == INSTANCE ConnectionLife WITH stage <- Stage(c)

(* Each connection lives as ConnectionLife says: it is not destroyed while *)
(* it is open, and _statu does not come back once it is closed, also while *)
(* NewConnection and the connection's own loop work on it at once.  (The   *)
(* Shutdown of a user's thread can bring it back: StatuIsRight.)           *)
ConnectionsLiveOnce ==
  /\ \A c \in Conn : Life(c)!Init
  /\ [][\A c \in Conn : [Life(c)!Next]_(Stage(c))]_vars

(* "DISCONNECTED: closed" and "DISCONNECTING: waiting to be closed" (the   *)
(* comment on ConnStatu): _statu tells whether the connection is closed.   *)
StatuIsRight ==
  \A c \in Conn : Born(c) => (conn[c].state = "DISCONNECTED" <=> ~conn[c].open)

(* Whatever the users' threads call and let go of, an open connection is   *)
(* in _conns, or on its way there, and not marked as released: it is       *)
(* closed by ReleaseInLoop and never by its destructor.                    *)
OpenIsKept ==
  \A c \in Conn : Born(c) /\ conn[c].open =>
    /\ c \in conns \/ accepting.conn = c
    /\ conn[c].state # "DISCONNECTED"

(* "Removes the connection's information from _conns" (the comment on      *)
(* RemoveConnection): a closed connection is there only as long as its     *)
(* removal is queued, although NewConnection may insert it after that.     *)
ClosedIsForgotten ==
  \A c \in conns : ~conn[c].open =>
    RefersTo(tasks[Base], c) \/ RefersTo(batch[Base], c)

(* Between a poll and the handling of what it returned, no connection of   *)
(* the list is destroyed or closed: this is what queueing Release is for.  *)
ActivesAlive ==
  \A l \in Loop : \A a \in actives[l] \ {Listen, OnTimer} :
    Alive(a.chan) /\ conn[a.chan].open

(* The poller's table, epoll's and the connections agree: a descriptor     *)
(* that is monitored, or known, belongs to a live connection of the loop.  *)
PollerMapsOwner ==
  \A l \in Loop, f \in Fd :
    /\ interest[l][f] # None => chan[l][f] # None
    /\ chan[l][f] # None => /\ Alive(chan[l][f])
                            /\ Owners(f) = {chan[l][f]}
                            /\ conn[chan[l][f]].loop = l

(* A connection that is established and not released is monitored, for     *)
(* reading and for whatever else its channel asks.                         *)
ConnectedIsMonitored ==
  \A c \in Conn : Established(c) =>
    /\ "IN" \in conn[c].events
    /\ interest[conn[c].loop][conn[c].fd] = conn[c].events

(* The write event is monitored exactly while there is something to write: *)
(* or replies would be stuck, or the loop would spin.                      *)
WriteInterest ==
  \A c \in Conn : Established(c) =>
    (conn[c].out > 0 <=> "OUT" \in conn[c].events)

(* A timer that can still fire belongs to a connection that exists and is  *)
(* not released: its callback holds a bare this.                           *)
TimerImpliesLive ==
  \A c \in Conn : HasTimer(c) /\ c \notin cancelled =>
    Alive(c) /\ conn[c].state # "DISCONNECTED"

(* Where no timeout releases connections, one is closed only after all     *)
(* that was written to it was sent, unless the peer broke it.              *)
FlushBeforeClose ==
  \A c \in Conn : timeout = 0 /\ Born(c) /\ ~conn[c].open =>
    conn[c].out = 0 \/ peer[c] = "rst"

(* EstablishedInLoop finds the connection as NewConnection left it. *)
EstablishedFromConnecting ==
  \A l \in Loop : batch[l] # <<>> /\ Head(batch[l]).op = "established" =>
    conn[Head(batch[l]).conn].state = "CONNECTING"

(* No task or handler runs on a connection that is destroyed. *)
NoUseAfterFree ==
  \A l \in Loop :
    /\ batch[l] # <<>> => Alive(Head(batch[l]).conn)
    /\ \A a \in actives[l] \ {Listen, OnTimer} : Alive(a.chan)

(* The releases of a connection that are queued. *)
Releases(c) ==
  LET s == IF Born(c) THEN tasks[conn[c].loop] \o batch[conn[c].loop] ELSE <<>>
  IN  {i \in DOMAIN s : s[i] = Do("release", c)}

(* A half-closed connection is on its way: either it still has something   *)
(* to send, or its release is queued.                                      *)
ShutdownEnds ==
  \A c \in Conn : Established(c) /\ conn[c].state = "DISCONNECTING" =>
    conn[c].out > 0 \/ Releases(c) # {}

(* An established connection with inactivity release enabled has a timer   *)
(* that will release it.                                                   *)
InactiveIsArmed ==
  \A c \in Conn : Established(c) /\ conn[c].enabled =>
    (HasTimer(c) /\ c \notin cancelled) \/ Releases(c) # {}

(* The server has closed the connection and let go of it. *)
Over(c) == Born(c) /\ ~conn[c].open /\ ~Kept(c)

(* It has closed the connection, but does not find it by its id: RunAfter. *)
Leaked(c) == Born(c) /\ ~conn[c].open /\ c \in misfiled

(* Recv goes by the errno that a signal left behind, and takes the end of  *)
(* file for an empty read, again and again; each time it refreshes the     *)
(* inactivity timer.                                                       *)
Deaf(c) == Born(c) /\ peer[c] = "fin" /\ errno[conn[c].loop] = "retry"

Gone(c) == timeout = 0 /\ Born(c) /\ peer[c] # "open"

(* When the peer has gone, the server closes the connection and lets go of *)
(* it, also without inactivity release.                                    *)
PeerCloseIsNoticed == \A c \in Conn : Gone(c) ~> Over(c) \/ crashed

(* It does, unless a signal has interrupted a poll of its loop or the      *)
(* connected callback has called RunAfter.                                 *)
PeerCloseIsSeen ==
  \A c \in Conn : Gone(c) ~> Over(c) \/ Leaked(c) \/ crashed \/ Deaf(c)

(* With inactivity release, no connection lives for ever: not even one     *)
(* whose peer has vanished without a word, and whatever else is called on  *)
(* it, unless the user cancels that, a signal has interrupted a poll and   *)
(* the peer closes, or the connected callback has called RunAfter.  (A     *)
(* timer that runs out before the connection is established makes          *)
(* EstablishedInLoop's assertion fail: EstablishedFromConnecting.)         *)
InactiveIsReleased ==
  \A c \in Conn :
    timeout > 0 /\ Born(c) ~>
      \/ Over(c) \/ Leaked(c) \/ crashed \/ Deaf(c)
      \/ Established(c) /\ ~conn[c].enabled
=============================================================================
