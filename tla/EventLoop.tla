----------------------------- MODULE EventLoop -----------------------------
(***************************************************************************)
(* One EventLoop (source/server.hpp): the thread that built it polls the   *)
(* descriptors, handles the ready ones, then runs the task pool, forever.  *)
(* Any other thread hands it work with RunInLoop/QueueInLoop: it appends   *)
(* to _tasks under _mutex and, after unlocking, writes to the eventfd so   *)
(* that a blocked epoll_wait returns.  The two halves of QueueInLoop are   *)
(* separate actions, so every other thread may act between them.           *)
(*                                                                         *)
(* RunInLoop called on the loop's own thread runs the functor at once and  *)
(* never touches the pool; called by another thread it is QueueInLoop.     *)
(***************************************************************************)
EXTENDS Naturals, Sequences, FiniteSets

CONSTANTS
  Caller,      \* the threads, other than the loop's, that queue tasks
  LoopThread,  \* the thread with id _thread_id
  Task,        \* the functors
  Channel,     \* the descriptors the loop polls besides its eventfd
  EventFd,     \* the eventfd's descriptor
  Idle,        \* no callback is running on the loop's thread
  MaxEvents,   \* MAX_EPOLLEVENTS: how many descriptors one poll returns
  MaxCounter   \* bound: the eventfd's count is not told apart beyond this

ASSUME LoopAssumption ==
  /\ LoopThread \notin Caller
  /\ Task \cap Channel = {}
  /\ EventFd \notin Channel
  /\ Idle \notin Task \cup Channel
  /\ MaxEvents \in Nat \ {0}
  /\ MaxCounter \in Nat \ {0}

VARIABLES
  tasks,    \* _tasks, guarded by _mutex
  functor,  \* RunAllTask's local vector: what is left of the current batch
  counter,  \* the eventfd's counter
  waking,   \* the threads that have queued a task and not yet written the eventfd
  ready,    \* the descriptors of Channel with something to handle
  actives,  \* the descriptors the last poll returned, not handled yet
  pc,       \* where Start() is: "poll", "events" or "tasks"
  current   \* the task or channel whose callback is running, or Idle

vars == <<tasks, functor, counter, waking, ready, actives, pc, current>>

Thread == Caller \cup {LoopThread}

SeqElems(s) == {s[i] : i \in DOMAIN s}

Pending == SeqElems(functor) \cup SeqElems(tasks)

(* The vectors of Start() and RunAllTask() are empty outside the step that *)
(* fills and empties them, and the loop's thread calls QueueInLoop from    *)
(* inside a callback only.                                                 *)
TypeOK ==
  /\ tasks \in Seq(Task)
  /\ functor \in Seq(Task)
  /\ counter \in 0 .. MaxCounter
  /\ waking \subseteq Thread
  /\ ready \subseteq Channel
  /\ actives \subseteq Channel \cup {EventFd}
  /\ pc \in {"poll", "events", "tasks"}
  /\ current \in Task \cup Channel \cup {Idle}
  /\ actives # {} => pc = "events"
  /\ functor # <<>> => pc = "tasks"
  /\ LoopThread \in waking => current # Idle

Init ==
  /\ tasks = <<>>
  /\ functor = <<>>
  /\ counter = 0
  /\ waking = {}
  /\ ready = {}
  /\ actives = {}
  /\ pc = "poll"
  /\ current = Idle
-----------------------------------------------------------------------------
(* The loop's own thread calls out only from inside a callback, and nobody *)
(* starts a call while still inside another.                               *)
MayCall(th) == th \notin waking /\ (th = LoopThread => current # Idle)

(* Bug: the loop's own thread does not wake the loop. *)
PushTaskOwnSilent(th, t) ==
  /\ MayCall(th)
  /\ t \notin Pending
  /\ tasks' = Append(tasks, t)
  /\ waking' = waking \cup ({th} \ {LoopThread})
  /\ UNCHANGED <<functor, counter, ready, actives, pc, current>>

(* The locked block of QueueInLoop.  Bound: a functor is queued at most    *)
(* once at a time, but it may be queued again once it is running.          *)
PushTask(th, t) ==
  /\ MayCall(th)
  /\ t \notin Pending
  /\ tasks' = Append(tasks, t)
  /\ waking' = waking \cup {th}
  /\ UNCHANGED <<functor, counter, ready, actives, pc, current>>

(* The write that ends QueueInLoop, after _mutex is released.  The reader  *)
(* takes the whole count, so only whether it is zero matters.              *)
WeakUpEventFd(th) ==
  /\ th \in waking
  /\ waking' = waking \ {th}
  /\ counter' = IF counter < MaxCounter THEN counter + 1 ELSE counter
  /\ UNCHANGED <<tasks, functor, ready, actives, pc, current>>
-----------------------------------------------------------------------------
Readable == ready \cup (IF counter > 0 THEN {EventFd} ELSE {})

OnLoopThread == LoopThread \notin waking /\ current = Idle

(* epoll_wait returns ready descriptors, at most MaxEvents of them.  It    *)
(* blocks as long as there are none.                                       *)
Poll ==
  /\ pc = "poll" /\ OnLoopThread
  /\ Readable # {}
  /\ \E S \in SUBSET Readable :
       /\ S = Readable \/ Cardinality(S) = MaxEvents
       /\ Cardinality(S) <= MaxEvents
       /\ actives' = S
  /\ pc' = "events"
  /\ UNCHANGED <<tasks, functor, counter, waking, ready, current>>

(* epoll_wait fails with EINTR, which it does only when it would block:    *)
(* Poll returns no descriptor and the loop goes on to the tasks.           *)
PollInterrupted ==
  /\ pc = "poll" /\ OnLoopThread
  /\ Readable = {}
  /\ actives' = {}
  /\ pc' = "events"
  /\ UNCHANGED <<tasks, functor, counter, waking, ready, current>>

(* HandleEvent of the eventfd's channel: ReadEventfd takes the whole count. *)
ReadEventfd ==
  /\ pc = "events" /\ OnLoopThread
  /\ EventFd \in actives
  /\ actives' = actives \ {EventFd}
  /\ counter' = 0
  /\ UNCHANGED <<tasks, functor, waking, ready, pc, current>>

(* HandleEvent of any other channel.  The handler may consume all its      *)
(* input, or leave some: the descriptor then stays ready.                  *)
HandleEvent(c) ==
  /\ pc = "events" /\ OnLoopThread
  /\ c \in actives
  /\ actives' = actives \ {c}
  /\ ready' \in {ready, ready \ {c}}
  /\ current' = c
  /\ UNCHANGED <<tasks, functor, counter, waking, pc>>

Return ==
  /\ LoopThread \notin waking
  /\ current # Idle
  /\ current' = Idle
  /\ UNCHANGED <<tasks, functor, counter, waking, ready, actives, pc>>

(* Bug: the pool is copied, not swapped with the empty vector. *)
SwapTasksCopy ==
  /\ pc = "events" /\ OnLoopThread
  /\ actives = {}
  /\ functor' = tasks
  /\ pc' = "tasks"
  /\ UNCHANGED <<tasks, counter, waking, ready, actives, current>>

(* The locked block of RunAllTask: the pool becomes the batch. *)
SwapTasks ==
  /\ pc = "events" /\ OnLoopThread
  /\ actives = {}
  /\ functor' = tasks
  /\ tasks' = <<>>
  /\ pc' = "tasks"
  /\ UNCHANGED <<counter, waking, ready, actives, current>>

RunTask ==
  /\ pc = "tasks" /\ OnLoopThread
  /\ functor # <<>>
  /\ current' = Head(functor)
  /\ functor' = Tail(functor)
  /\ UNCHANGED <<tasks, counter, waking, ready, actives, pc>>

(* Bug: tasks queued by the batch are run before the loop polls again. *)
FinishBatchDrain ==
  /\ pc = "tasks" /\ OnLoopThread
  /\ functor = <<>>
  /\ functor' = tasks
  /\ tasks' = <<>>
  /\ pc' = IF tasks = <<>> THEN "poll" ELSE "tasks"
  /\ UNCHANGED <<counter, waking, ready, actives, current>>

(* Bug: the loop polls after every task. *)
FinishBatchEarly ==
  /\ pc = "tasks" /\ OnLoopThread
  /\ pc' = "poll"
  /\ UNCHANGED <<tasks, functor, counter, waking, ready, actives, current>>

FinishBatch ==
  /\ pc = "tasks" /\ OnLoopThread
  /\ functor = <<>>
  /\ pc' = "poll"
  /\ UNCHANGED <<tasks, functor, counter, waking, ready, actives, current>>

(* The environment: input arrives on a descriptor. *)
InputArrives(c) ==
  /\ ready' = ready \cup {c}
  /\ UNCHANGED <<tasks, functor, counter, waking, actives, pc, current>>
-----------------------------------------------------------------------------
LoopStep ==
  \/ Poll
  \/ PollInterrupted
  \/ ReadEventfd
  \/ \E c \in Channel : HandleEvent(c)
  \/ Return
  \/ SwapTasks
  \/ RunTask
  \/ FinishBatch

Next ==
  \/ LoopStep
  \/ \E th \in Thread, t \in Task : PushTask(th, t)
  \/ \E th \in Thread : WeakUpEventFd(th)
  \/ \E c \in Channel : InputArrives(c)

Spec == Init /\ [][Next]_vars

(* Start() is an endless loop whose callbacks return, and a thread inside  *)
(* QueueInLoop finishes the call: the scheduler runs both.  Nobody is      *)
(* obliged to queue a task, to send input or to interrupt the poll.  When  *)
(* more descriptors are ready than one poll returns, successive calls of   *)
(* epoll_wait go round all of them: its manual page says so.               *)
Fairness ==
  /\ WF_vars(LoopStep /\ ~PollInterrupted)
  /\ \A c \in Channel : SF_vars(Poll /\ c \in actives')
  /\ \A th \in Thread : WF_vars(WeakUpEventFd(th))

FairSpec == Spec /\ Fairness
-----------------------------------------------------------------------------
(* The loop is never blocked, nor on its way to blocking, in epoll_wait    *)
(* with work in its pool and nobody to wake it: the eventfd is readable or *)
(* the thread that queued the work has still to write it.  (While handling *)
(* events the count may be gone, but the swap comes before the next poll.) *)
NoLostWakeup ==
  pc # "events" /\ tasks # <<>> => counter > 0 \/ waking # {}

(* The loop is a task pool: nothing that was queued is lost, run twice or  *)
(* run out of order, whatever the threads do, and it is all run at last.   *)
Pool == INSTANCE TaskPool WITH
  pool    <- functor \o tasks,
  running <- IF current \in Task THEN current ELSE Idle,
  NoTask  <- Idle

TasksRunInOrder == Pool!Spec

EveryTaskRuns == Pool!FairSpec

(* A descriptor with input is handled at last, even when tasks go on       *)
(* queueing tasks for ever: a batch holds only what was queued before it.  *)
InputIsHandled == \A c \in Channel : c \in ready ~> current = c
=============================================================================
