# A verification of the muduo-style server

This directory holds TLA+ models of the C++ server in `src/source`: a reactor
library (`server.hpp`, 1417 lines), an HTTP server on top of it
(`http/http.hpp`, 983 lines) and an echo server (`echo/echo.hpp`). TLC checks
the models on small instances; TLAPS proves theorems about seven of them for
all values of their constants, among them every safety property and refinement
that the passing runs check but one (`ClosedIsForgotten`). `PROJECT.json` lists components, runs, the code
each definition stands for, the known hazards and the theorems.

Contents: [the system](#the-system) · [the modules](#the-modules) ·
[the runs](#the-runs) · [bounds](#bounds) · [fairness](#fairness) ·
[proofs](#proofs) · [where code and comments part](#where-code-and-comments-part) ·
[not modelled](#not-modelled) · [plan](#plan)

## The system

One **base loop** runs on the main thread; a pool of **sub loops** runs on
threads of their own. Each `EventLoop` has a `Poller` (epoll), an eventfd that
wakes it, a task pool that any thread may append to, and a `TimerWheel` driven
by a timerfd that ticks each second. `Acceptor` accepts on the base loop;
`TcpServer::NewConnection` gives the connection to the pool's `NextLoop` and
keeps the owning pointer in `_conns`. From then on the connection's handlers
run on its own loop.

| component | state | operations | must be right |
|---|---|---|---|
| `EventLoop` | `_tasks`, the eventfd's count, `RunAllTask`'s batch | `Start`, `RunInLoop`, `QueueInLoop`, `RunAllTask`, `ReadEventfd`, `WeakUpEventFd` | no lost wake-up; tasks once and in order; tasks do not starve I/O |
| `TimerWheel`, `TimerTask` | `_wheel`, `_tick`, `_timers` (weak references) | add, refresh, cancel, `OnTime`, the destructor's callback | a timer fires when due, once, and not when cancelled |
| `Buffer` | `_buffer`, `_reader_idx`, `_writer_idx` | write, read, pop, `GetLine`, `Clear` | a queue of bytes; bounded memory |
| `Channel`, `Poller` | `_events`, `_revents`, `_channels`, epoll's own set | enable, disable, `Remove`, `HandleEvent`, `Poll` | tables agree; each number belongs to its present owner |
| `Connection` | `_statu`, the two buffers, the inactivity flag | the five handlers; `Established`, `Send`, `Shutdown`, `Release`, `EnableInactiveRelease`, `CancelInactiveRelease` | flush before close; release once; nothing runs after destruction; ends when the peer ends |
| `Acceptor`, `TcpServer` | `_conns`, `_next_id`, `_timeout` | `HandleRead`, `NewConnection`, `RemoveConnection`, `RunAfter` | connections live once, as long as they are used, and no longer |
| `LoopThread`, `LoopThreadPool` | `_loop`, `_mutex`, `_cond`, `_loops`, `_next_idx` | `Create`, `GetLoop`, `ThreadEntry`, `NextLoop` | a loop is published before it is used; even sharing |
| `HttpContext` | `_recv_statu`, `_resp_statu`, `_request` | `RecvHttpRequest` and its parts, `ReSet` | the same requests, however the input is cut |
| `HttpServer`, `HttpResponse` | the route tables, `_basedir`; one response at a time | `OnMessage`, `Route`, `FileHandler`, `Dispatcher`, `WriteReponse` | one reply per request, in order, by the right handler; closes when it should |
| `Util` | none | `Split`, `UrlEncode`, `UrlDecode`, `ValidPath` | a target is understood as it was meant; a path stays below the root |

The components meet in four ways: calls on one thread; tasks in another
thread's pool (`RunInLoop`); callbacks that run *inside* a caller that has not
finished (the message callback inside `HandleRead` and again inside
`ShutdownInLoop`, timer callbacks inside `clear()` of a slot); and shared
numbers (descriptors, which the kernel hands out again at once). The hard
behaviour is in the last three. The `hazards` of `PROJECT.json` list it, each
at its line.

## The modules

| module | models | composed with |
|---|---|---|
| `TaskPool` | abstract: a first-in first-out pool of which one task runs at a time | |
| `EventLoop` | `EventLoop` with callers and descriptors | implements `TaskPool` |
| `TimerService` | abstract: a set of countdowns | |
| `TimerWheel` | `TimerWheel`, `TimerTask` and the timerfd | implements `TimerService` |
| `ByteQueue` | abstract: a queue of bytes | |
| `Buffer` | `Buffer` | implements `ByteQueue` |
| `Connection` | the handlers of `Connection` and `Channel` as operators | used by `TcpServer` |
| `ConnectionLife` | abstract: the stages of a connection | |
| `TcpServer` | connections, pollers, acceptor, loops, peers, users' threads | extends `Connection`, implements `ConnectionLife` |
| `LoopThreadPool` | start-up and `NextLoop` | |
| `HttpContext` | the parser as operators | used by `HttpServer` |
| `HttpServer` | `OnMessage`, routing and replies on one connection | extends `HttpContext` |
| `Util` | the text functions, and what `ParseHttpLine` does with a target | |
| `*Proofs` | the theorems | extend the module they are about; `UtilProofs` extends `MCUtil` |
| `SequenceLemmas` | least elements, induction over a set of numbers, `FlattenSeq` | used by the proofs of `TimerWheel`, `HttpServer` and `Util` |
| `MC*` | values for the constants, scripts of requests | extend the module they check |

**EventLoop.** `PushTask` and `WeakUpEventFd` are the two halves of
`QueueInLoop`: the push is under the mutex, the write to the eventfd is not.
`Poll`, `ReadEventfd`, `HandleEvent`, `SwapTasks`, `RunTask` and `FinishBatch`
are the steps of `Start` and `RunAllTask`. While a callback runs (`current`),
the loop's own thread may queue tasks too; a task run in place by `RunInLoop`
is a part of its caller.

**TimerWheel.** A slot is the set of the tasks it refers to. `OnTime` reads how
often the timer expired and then `RunTimerTask` moves the hand once for each.
While a slot is being cleared, tasks of which no other slot holds a reference
are destroyed one by one, and their callbacks may add, refresh and cancel other
timers: `clearing`, `firing`. A push into the vector under `clear()` is
undefined in C++; `PushBack` states what the library's implementation does.

**Connection and TcpServer.** A handler runs from beginning to end on its loop,
so `Connection` describes it as a function from what it finds to the set of
what it may leave, plus the releases it queues and whether it updates the
poller; `TcpServer` applies that. Between any two steps of a loop other loops,
peers, the clock and users' threads act. References are explicit:
`Kept(c)` says that `_conns`, a pending `RemoveConnection` or `NewConnection`'s
local owns `c`, and `Alive(c)` that one of these or a user's thread does; all
other tasks hold a bare `this`. Using a connection that is not alive, or
failing an assertion, sets `crashed`. `TcpServer` keeps of the loop and of the
wheel only what their abstract specifications say. `timeout` and `workers` are
what the user chose before `Start()`. Buffers are message counts. The message
callback may keep the input, answer and keep the connection, or answer and shut
down: what `HttpServer` and `EchoServer` do. `NewConnection` is modelled call by
call, because the connection's own loop works on it meanwhile.

What the user's code may do besides is chosen by `UserOps`: the connected
callback hands out the connection (`shared`), threads of the user call `Send`,
`Shutdown`, `EnableInactiveRelease` or `CancelInactiveRelease` on it, and drop
their pointer ("drop") with calls queued or not. With "after" the callback
calls `RunAfter`. On the base loop that runs in place and takes the next
`_next_id`, which is what `NewConnection` then files the connection under:
`misfiled` holds the connections that `RemoveConnectionInLoop` will not find.

`Stage(c)` maps a connection to `ConnectionLife`, the abstract specification of
its life: the values of `ConnStatu` in order, none of them twice, destroyed
after it is closed and never before. It goes by `_statu` as long as the
connection exists. A `Shutdown` by a user's thread that runs after the release
sets `_statu` back from `DISCONNECTED` to `DISCONNECTING`, so the refinement is
claimed without that call only (with it, `StatuIsRight` fails:
[below](#where-code-and-comments-part)).
What holds with every call is `OpenIsKept`: an open connection is owned by the
server, so no dropped pointer closes it.

**LoopThreadPool.** Lock, test, wait, publish and notify are separate steps;
the condition variable may wake up spuriously. A pointer is `Garbage` until
the member is initialized, which makes the order of the members matter.

**HttpContext and HttpServer.** Input is a sequence of symbols: the text of a
request line or of a header, other data, line ends. A read takes any number of
them. `frames` is the stack of `OnMessage` and `ShutdownInLoop` calls, which
is several deep when short requests are pipelined. `Route` gives the responses
that are possible: a file, or nothing when it cannot be opened, or a body of its
size with other content when reading it fails, or what the first
handler of a table whose paths match makes of it; `Complete` is the part of
`WriteReponse` that fills in headers. `Respond` closes by the *reply's*
Connection header, which a handler may have set. `Answers` says the same of a
request as a whole, without a parser. The constructor of `HttpServer` enables
inactivity release for every connection (10 seconds by default): `left` is what
the timer has to go, `OnTime` a tick, `HandleEvent` the refresh after each event,
and `ReleaseInLoop` closes the connection once the timer has run out, kept or not
and with output or without. Between the two the events that the same poll
returned are still handled. Left out are sends that fail and a reset by the
peer, which `TcpServer` has: the close of the peer is always seen as an end of file.

**Util.** Texts are sequences of bytes, chars are signed as on the platform the
server is built for. Loops are recursive functions over positions or folds.
`ParseTarget` puts them together the way `ParseHttpLine` does.

## The runs

| run | shows | states |
|---|---|---|
| `event_loop` | `NoLostWakeup`; `TasksRunInOrder` and `EveryTaskRuns` (implements `TaskPool`, with its fairness); `InputIsHandled` while tasks queue tasks for ever | 24 thousand |
| `timer_wheel` | `TimersMatchTasks`; `TimersCountDown` and `TimersExpire` (implements `TimerService`) | 29 thousand |
| `server` | two connections on one or two loops, with and without inactivity release, peers that reset: `ActivesAlive`, `PollerMapsOwner`, `ConnectedIsMonitored`, `WriteInterest`, `FlushBeforeClose`, `ShutdownEnds`, `TimerImpliesLive`, `ClosedIsForgotten`; `ConnectionsLiveOnce` (implements `ConnectionLife`) | 1.8 million |
| `server_users` | one connection, fair loops, resets, interrupted polls, and a user that calls, drops its pointer and uses `RunAfter`: `OpenIsKept`, `ShutdownEnds`, `TimerImpliesLive`, `InactiveIsArmed`; `PeerCloseIsSeen`, `InactiveIsReleased` | 352 thousand |
| `buffer` | `BufferIsQueue` (implements `ByteQueue`), `SpaceBounded` | 40 thousand |
| `loop_pool` | `LoopsAreBuilt`, `ConnectionsAreBalanced`, `CreateReturns` | 158 |
| `http` | `RepliesInOrder`, `NothingLeftUnanswered`, `KeepAliveStaysOpen`, `FinalReplyCloses`, with ticks of the inactivity timer at any time | 420 thousand |
| `url_text` | `SplitAgrees`, `TargetIsUnderstood`, `PathStaysBelow` | 17 thousand |
| `timer_late`, `reset_releases_twice`, `close_after_signal`, `http_short` | what a comment says and the code does not do: see below | |

Each property of a passing run has a mutant in `PROJECT.json`: a plausible bug
in one mapped definition (named in the module, with "Bug:" in its comment) with
which TLC finds that property violated.

Deadlock is checked for `EventLoop`, `TimerWheel` and `Buffer`. It is not for
`TcpServer`, `HttpServer` and `LoopThreadPool`: there every connection may have
come and gone, the peer's script may be over, or the bound on connections be
reached, and the program then waits. Nor is it for `MCUtil`, whose texts stop
growing.

## Bounds

- *EventLoop*: two calling threads and the loop, three tasks of which none is
  queued twice at a time, two descriptors with the eventfd and polls that
  return two. Two callers suffice for one to be between its push and its write
  while the other pushes; three tasks for one to run, one to be in the batch
  and one in the pool; three descriptors for a poll that does not return all.
  `MaxCounter` bounds the eventfd's count, of which only zero matters.
- *TimerWheel*: three slots, two timers, delays of one and two seconds, at most
  two expirations outstanding (`MaxExpirations`). A second timer is what the
  first one's callback works on; `idle` stops at the capacity.
- *TcpServer*: two connections and two descriptors, so that a number is used
  again while another connection is active; one message per peer (`MaxSend`);
  timeouts of 0 and 1 in `server`, and of 0 and 2 in `server_users`, where a
  refresh after a tick makes a difference. `MaxUser` bounds the calls of a user's threads in a
  behaviour: one in `server_users`, which may come at any moment of the
  connection's life, on top of dropping the pointer and of `RunAfter`. A second
  connection there would only add the reuse of its number. A write event is reported whenever it
  is monitored: a peer that stops reading is not distinguished.
- *Buffer*: `DefaultSize` 3, writes of up to 3 bytes, at most 5 readable, two
  values of bytes: the memory moves and grows several times over.
- *LoopThreadPool*: zero to four threads, four connections for each loop.
- *HttpServer*: scripts of one or two requests of nine kinds and of three
  requests of three kinds; `MAX_LINE` is two symbols, which makes three-symbol
  lines too long. Three pipelined short requests nest `OnMessage` as deep as it
  gets in principle: each level does the same. The tables have a path that two
  handlers match, and handlers that set the Connection header to each value
  against the request's, and one that leaves it. `Timeout` is 2, so that a tick
  may come without the timer running out and a refresh makes a difference; a
  connection starts with any part of it left.
- *Util*: texts of up to four bytes out of nine (`MaxText`), each of which is
  tried in every division into path, key and value and in four styles; paths of
  up to eight bytes out of three (`MaxPath`), enough to go down, up beyond the
  root and down again.

## Fairness

Loops run: `Start` is an endless loop, so each has weak fairness on its steps.
A thread inside `QueueInLoop` finishes it. Time passes. Where more descriptors
are ready than a poll returns, epoll serves them round robin (its manual page
says so), which is strong fairness of each descriptor in `EventLoop`. In
`LoopThreadPool` a thread that can take the mutex again and again takes it in
the end: without that a main thread waking up spuriously for ever could starve
it. Nothing is assumed of peers, users or signals: nobody has to queue, send,
connect, close, call or drop a pointer. `InactiveIsReleased` rests on each peer
sending finitely many messages, since every event refreshes the timer. Both
liveness properties of the server end in `Over`, that the *server* has let go of
the connection: a user that keeps its pointer keeps the object. They name what
they leave out: the entry that `RunAfter` leaves behind (`Leaked`: with
it `ClosedIsForgotten` fails, see below), a crash, a user that has cancelled the inactivity release, and
`Deaf`: the peer has closed, and an `errno` that a signal left behind makes `Recv`
take the end of file for an empty read (`close_after_signal`). With a timeout of 2
or more each of these empty reads refreshes the timer as well, so that it does not
help: without `Deaf`, TLC finds `InactiveIsReleased` violated. In `HttpServer` a
task that is queued is run (`ReleaseInLoop`) and output is taken by the kernel;
nothing is assumed of the clock.

## Proofs

All proofs are checked by TLAPS, for every value of the constants that meets
the named assumptions (`LoopAssumption`, `WheelAssumption`, `BufferAssumption`,
`PoolAssumption`, `ServerAssumption`: names of threads, tasks, connections and
descriptors are told apart, capacities are positive, delays are shorter than
the wheel where that is said; `LineAssumption`, `TimeoutAssumption`, `ScriptsAssumption`,
`HandlersAssumption`: see [HTTP](#http)). TLC evaluates each of them in the runs.

- `EventLoopProofs`: `TypeCorrect`, `WakeupSafe`, `TaskPoolRefinement`.
  `NoLostWakeup` is inductive given the types: it names every place where the
  news of a queued task can be, the count, a caller that has yet to write it,
  or a phase of `Start` that reaches `RunAllTask` before the next poll. The
  refinement maps the pool to the batch followed by `_tasks`, so that the swap
  is a stutter.
- `TimerWheelProofs`: `WheelTypeCorrect`, `TimersMatch`, `WheelCountsDown`. The
  invariant relates `_timers` with the tasks that slots hold *and* the one
  being destroyed, so that a callback never finds a weak reference it cannot
  lock. `WheelCountsDown`, the refinement of `TimerService`, needs delays shorter
  than the wheel (`ShortDelays`): with these nothing is ever pushed into the slot
  at the hand, so no timer is destroyed with it (the lemma `NothingLost`); with
  the whole wheel as a delay one is (see below). A refresh
  pushes one more reference and leaves the old ones in their slots, so the
  abstract countdown is the distance to the *furthest* of them. That a refresh
  sets it to the whole delay is true only because no reference is further ahead
  than the delay (`NotBeyond`); that a task in the slot at the hand is dropped
  exactly at 0 needs the other three invariants as well.
- `BufferProofs`: `BufferTypeCorrect`, `SpaceIsBounded`, `BufferRefinesQueue`.
  The refinement maps the buffer to the bytes between the two positions; its
  core are lemmas about what those bytes are after a write that moves them to
  the front, one that grows, and one that does neither. `GetLineAndPop` needs
  that there is a first line end, for which the least-element theorem of the
  library is used.
- `LoopThreadPoolProofs`: `PoolTypeCorrect`, `LoopsBuilt`, `Balanced`. That a
  stored pointer is the thread's own loop is not inductive: the invariant
  follows each thread from its spawning to the publication, with `_loop` NULL
  or already right in between, and lets only the main thread wait. Without the
  initializer of `_loop` it fails at once. Even shares follow from the loops
  that the present round has served having one connection more than the rest.

### The server

Any number of connections, loops and descriptors, and every choice of the
timeout and of the pool. Five invariants, each a part of the next:

1. `TypeInv`: types, and what refers to what. Each task in a
   loop's queue is about a connection of that loop that exists; the phases of
   a loop agree with what it still has to handle. The first lemmas of
   `TcpServerProofs` are about `Connection`'s operators, one for each part of a handler: they
   share `Continues`, which says what every part keeps of the work it is given
   (the descriptor, the read interest, that an update is due when the events
   change) and is transitive, as handlers are compositions of parts.
2. `LifeInv`: the stages. What is open is owned by `_conns`
   or by `NewConnection`; until `EstablishedInLoop` has run, nothing but
   `NewConnection` and the timer has heard of a connection; write interest and
   output agree; a connection being closed has output, or its release is in
   the queue. `OpenIsKept`, `WriteInterest` and `ShutdownEnds` are parts of it.
   `ServerStep` states what a step may do to the state that the
   invariant speaks of, to a connection, a queue, the owners and the tables;
   the case distinction over the actions is made once, for `ServerStep`, and
   each part of the invariant follows from that.
3. `TimerInv`: `EnableInactiveReleaseInLoop` is the first
   thing that runs for a connection. Without that a timer could be armed for a
   closed connection: the code relies on the order in which `NewConnection`
   queues its two tasks. `TimerImpliesLive` and `InactiveIsArmed` follow.
4. `PollerInv`: the tables. Each number has at most one open owner; what the
   channel table and epoll know is open; what the last poll returned stays open
   while it is handled, because a release is only queued and runs after it. A
   second `Release` in the same batch closes a number that is free by then and
   that no connection of the same batch has been given (`ClosedIsRemoved`,
   `BatchIsApart`): this is why the reset that releases twice does no harm.
   `PollerMapsOwner`, `ActivesAlive` and `ConnectedIsMonitored` follow. So does
   `EachLivesOnce`, the refinement of `ConnectionLife`: no handler runs on a closed
   connection, so that `_statu` stays what `ReleaseInLoop` made it
   (`ClosedIsDisconnected`).
5. `FlushInv`: from the moment at which a release is queued for a healthy
   connection to the moment at which it runs, its output is empty and stays so.
   `FlushBeforeClose` follows.

1 and 2 hold whatever the user's threads call. The rest names the calls that it
excludes, and has to: TLC finds a counterexample for each property and each
excluded call (with `UserOps` set to it), four cases apart.

| theorem | excludes | because in the code |
|---|---|---|
| `TimersHoldOnlyLive`, `InactiveHasTimer` | `enable` | it arms a timer after the release, and a cancelled timer is refreshed but stays cancelled |
| `TableIsRight`, `HandledIsAlive`, `EstablishedIsMonitored` | `shutdown`, `enable` | a `Shutdown` that runs after the release makes the poller monitor, or queues the release of, a descriptor number that is no longer its own; a timer armed after the release queues another one |
| `EachLivesOnce` | `shutdown`, `enable` | a `Shutdown` that runs after the release sets `_statu` back |
| `RepliesAreFlushed` | `send`, `shutdown`, `enable` | a `Send` between the queueing of a release and the release adds output that is closed with the connection |

The four: `InactiveIsArmed` fails with "enable" only where "cancel" may come
first; `PollerMapsOwner`, `ActivesAlive` and `ConnectionsLiveOnce` have not been
seen to fail with "enable", but their invariant contains `TimerInv`, which does.
The run `server` has `UserOps = {}`; `server_users` allows all of them but
"enable", and checks what then holds.

### HTTP

`HttpServerProofs`: any set of scripts of any number of requests, any lines and
bodies, any limit on a line, any files and route tables, and every way of
cutting the input into pieces. `ScriptsAssumption` says only where a request
ends, which is what makes it one: it has lines, none but the first is empty, and
if it is without fault then its body is as long as the first Content-Length says
(absent means empty). A request with a fault may contain anything after it.
A Connection header has a value, since the model tells none from an empty one.
`HandlersAssumption` says that each method has a table and that the handlers
make responses.

`RepliesInOrder` compares a reply with a whole request, and the code never sees
one: it sees a buffer and a context. The invariant `HttpInv` relates the two.

- `FromInput`: the buffer is the part of the input that ends where the server
  has read to, so the parser stands at `delivered - Len(buffer)`.
- `Position`: with `k` replies written, that place is the begin of request
  `k + 1` and the context is `Fresh`; or it is behind `m` of its lines and the
  context holds what those lines say (`InHead`, `ReadUpTo`: the *first* of two
  equal headers counts, as `SetHeader` inserts); or as many symbols of the body
  have been taken as `_body` has (`InBody`); or the next line is a faulty one and the
  context says so (`Refused`).
- `InSync`: the position, and every reply so far is right (`RightReplies`); and
  while `OnMessage` has nothing to do, request `k + 1` has not arrived
  completely. This is what `NothingLeftUnanswered` says, and it is not inductive
  without the position.
- `Lost`: after the reply to a refused request the rest of the input is taken
  from an arbitrary place, since the code drops the buffer but not what is
  still to come. Then nothing is claimed of later replies, and `Understood` in the
  properties ends there.
- `Stacked`, `Phase`: only the top of the stack of calls is parsing or about to
  reply, each `ShutdownInLoop` below it belongs to a connection no longer
  connected, and a call that returns leaves the parser within a request. So a
  nested `OnMessage` finds the context as a call of its own would.
- a connection not connected has seen the peer's end or a final reply
  (`FinalSeen`), or its timer has run out, which is `KeepAliveStaysOpen`. The
  timer is at 0 only when it has run out: it is armed with at least one second
  (`TimeoutAssumption`) and every refresh sets the whole of it.

The proof goes from sequences to steps. `FlattenSeq` is recursive inside, so
first (in `SequenceLemmas`) it is shown that the function it chooses exists and
is unique as far as needed: `JoinedStep` and `JoinedParts` say where a part is
in the whole. Then come the parts of a request (`WireParts`), what `GetLineAndPop` returns at
such a place (`LineArrives`), each parser function (`LineStep`, `HeadStep`,
`BodyPosition`) and the replies (`Answered`, `AnswerRight`, `ErrorRight`); last, one
lemma for each action. `ServerTypes`, `ServerReplies`, `ServerAnswers` and
`ServerKeepsOpen` follow from `HttpInv`.

### Text functions

`UtilProofs`: texts of any length over any bytes; what the run checks of texts
over its two alphabets follows (`SplitAlwaysAgrees`, `PathAlwaysBelow`,
`TargetAlwaysUnderstood`), now without a bound on their length.

The functions loop over positions: `LET fields[offset \in ...]` in `Split`, `from`
in `UrlDecode`, and the functions inside `FoldLeft` and `FlattenSeq`. TLA+ says
only that such a function is *some* function with that equation, if there is
one. So for each the proof first shows that one exists, from the end of the text
backwards (`FieldsExist`, `DecodedExists`) or from the empty set up
(`IterExists`), with `SetInduction`: the set of numbers up to which there
is one contains 0 and with each number the next. This replaces the library's
induction theorems, whose parameter is an operator. From then on only the
equation is used.

- `SplitIsRight`: the number of fields is the number of maximal runs of bytes
  that are no separators, and each run is the field at the place that counts
  the runs up to it. The runs behind a place are the one that begins there, if
  any, followed by those behind its end (`RunInFront`, `NextRun`, `LastRun`),
  which is the step of the loop.
- `PathIsRight`: what the fold computes is the number of directories minus
  twice the ways up, as long as that has not been below 0 (`LevelsCount`); once
  below, the code's early return keeps it there. What leaves the root is defined
  apart from that, as a file system takes a path: ".." goes up, "." stays, other
  names go down (`LeavesRoot`). Counting these (`WaysCount`) shows that only paths
  that leave are refused, and that without "." all of them are; with "." some are
  not (see below).
- `WrittenIsDecoded`: each byte becomes a part of one or three bytes
  (`PartOf`), each part is decoded to its byte wherever it is, to the last
  one (`PartIsDecoded`), and no part contains `&`, `=` or `?`. For `UrlEncode`
  this holds of bytes up to 127 only, and is claimed of these only
  (`Writable`); the other styles, in which clients write, cover all 256.
- `TargetIsRight`: because of the latter the first `?`, `&` and `=` that `Find`
  returns are those that were put there (`CutIsFound`), so the pieces are the
  written ones (`SplitInTwo`, `FieldIsAdded`). Of two parameters with the same
  key the first counts.

### Only model-checked

The liveness properties: `EveryTaskRuns`, `InputIsHandled`, `TimersExpire`,
`PeerCloseIsSeen`, `InactiveIsReleased`, `CreateReturns` and `FinalReplyCloses`.
They need fairness and `ENABLED`, which are outside the prover's reach.

One safety property, `ClosedIsForgotten`: the invariants proved so far say what a
queued task or a connection in `_conns` implies about the state, and not that a
closed connection still in `_conns` has its removal queued.

## Where code and comments part

Four runs expect a violation; each is a finding of `PROJECT.json`.

- `timer_late`: a loop that was busy for some seconds catches up on the wheel
  all at once, so a connection that has just received something is released.
- `reset_releases_twice`: a reset queues `Release` twice in one `HandleEvent`.
- `close_after_signal`: `Recv` looks at an `errno` that `recv` did not set.
- `http_short`: requests behind a short one are still answered.

Four more contradict a comment as well. Each can be seen with the definition named
here as INVARIANT of the `.cfg`, in place of its own properties, and the values given:

- `PathNeverLeaves`, in `MCUtil.cfg`: an accepted path leaves the root.
  `ValidPath` counts "." as a way down, so as many ".." behind it are accepted.
  The comments at `http.hpp:331-334` and `345` say that only what is below the
  root may be requested.
- `NoTimerLost`, in `MCTimerWheel.cfg` with `Delay <- DelaysUpToTurn`: a timer
  added by a callback of the slot being cleared, with the whole wheel as its
  delay, lands in that slot and is destroyed with it. The comment at
  `server.hpp:588` calls the wheel's capacity the maximal delay.
- `StatuIsRight`, in `MCTcpServerFree.cfg` with `Faults = {}`,
  `UserOps = {"shutdown"}` and `MaxUser = 1`: `ShutdownInLoop` does not look at
  `_statu`, and turns a connection that is closed into one that waits to be
  closed, as the comments on `ConnStatu` (`server.hpp:979-980`) put it.
- `ClosedIsForgotten`, in `MCTcpServerFree.cfg` with `Faults = {}` and
  `UserOps = {"after"}`: a connected callback that calls `RunAfter` leaves the
  closed connection in `_conns` for ever, where `RemoveConnection` should remove it
  (`server.hpp:1354`).

More of the code's limits, by changing the values in a `.cfg`:

- `MCTcpServer.cfg` with the invariant `EstablishedFromConnecting`: a timer
  that runs out between `EnableInactiveRelease` and `Established` makes the
  assertion of line 1098 fail.
- `MCTcpServer.cfg` with `Conn = {c1, c2}`, `Fd = {f1}`, `Timeouts = {0}`,
  `UserOps = {"shutdown"}`, `MaxUser = 1`: `ConnectedIsMonitored` fails. A
  `Shutdown` that runs after the release touches the channel's descriptor
  number, which has a new owner.
- `MCTcpServerUsers.cfg` with `Timeouts = {1}`, `UserOps = {"enable", "cancel"}`,
  `MaxUser = 2`: `InactiveIsArmed` fails, as enabling after cancelling
  refreshes a timer that stays cancelled. With `UserOps = {"enable"}`,
  `TimerImpliesLive` fails: a call that runs after the release arms a timer.
- `MCTcpServerFree.cfg` with `Faults = {}`, `UserOps = {"send", "drop"}` and
  `MaxUser = 1`: `NoUseAfterFree` fails. A `Send` queued before the release of its connection
  runs on it afterwards, when the caller has dropped its pointer.
- `MCHttpServer.cfg` with the invariant `KeptRepliesHaveLength`: a 404, or an
  empty file, on a kept connection has no Content-Length.
- `Route` answers 404 where its comment (`http.hpp:875`) says 405; the last
  line of `Route`, which sets 405, is never reached because `ParseHttpLine`
  accepts the five methods only.
- `UrlEncode` writes every byte above 127 as `%FF`, where the comment at
  `http.hpp:230` has `%HH`. A reply to HEAD carries the body of the GET.

## Not modelled

- `Any`, `NetWork`: no behaviour over time. `Upgrade`, contexts, the user's
  closed and any-event callbacks: they add no state that the properties are
  about.
- `Util`'s `StatuDesc` and `ExtMime` and their tables: a lookup each. `ReadFile`
  and `IsRegular` are choices of `FileHandler` and `IsFileHandler`; `WriteFile`
  has no caller.
- `req._path.back()` (`http.hpp:823`) of a target with an empty path, which is
  undefined, and the exception that `stol` throws on a Content-Length without a
  number: the model has neither.
- Socket options and set-up, wording of replies, logging.
- The demonstrations in `src/*.cc`, the test programs in `src/test` (written
  for an earlier interface) and WebBench (third-party).

## Plan

Done: the loop, the wheel, the buffer, the connections with the server and its
users, the pool, the HTTP parser, routing and server, the text functions; and
the proofs of their safety properties and refinements. A proof of
`ClosedIsForgotten` (without `RunAfter`) is left.

What could follow besides is new behaviour: replies to the two
inputs that the model leaves out (a Content-Length without a number, an empty
path), and a wheel whose delays reach its capacity, once the code says what is
to happen there.
