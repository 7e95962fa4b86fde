-------------------------- MODULE EventLoopProofs --------------------------
(* Proofs about EventLoop, for any number of threads, tasks and descriptors. *)
EXTENDS EventLoop, SequenceTheorems, TLAPS

(* The pool of TaskPool is functor \o tasks: what the three operations of  *)
(* the code do to the two vectors, seen through the concatenation.         *)
LEMMA ConcatAppend ==
  ASSUME NEW S, NEW f \in Seq(S), NEW q \in Seq(S), NEW t \in S
  PROVE  f \o Append(q, t) = Append(f \o q, t)
<1>1. f \o Append(q, t) \in Seq(S) /\ Append(f \o q, t) \in Seq(S)
  OBVIOUS
<1>2. Len(f \o Append(q, t)) = Len(Append(f \o q, t))
  OBVIOUS
<1>3. ASSUME NEW i \in 1 .. Len(f \o Append(q, t))
      PROVE  (f \o Append(q, t))[i] = Append(f \o q, t)[i]
  OBVIOUS
<1> QED  BY <1>1, <1>2, <1>3, SeqEqual

(* The head of two sequences together is the head of the first. *)
LEMMA ConcatHeadTail ==
  ASSUME NEW S, NEW f \in Seq(S), NEW q \in Seq(S), f # <<>>
  PROVE  /\ f \o q # <<>>
         /\ Head(f \o q) = Head(f)
         /\ Tail(f \o q) = Tail(f) \o q
<1>1. Tail(f \o q) \in Seq(S) /\ Tail(f) \o q \in Seq(S)
  OBVIOUS
<1>2. Len(Tail(f \o q)) = Len(Tail(f) \o q)
  OBVIOUS
<1>3. ASSUME NEW i \in 1 .. Len(Tail(f \o q))
      PROVE  Tail(f \o q)[i] = (Tail(f) \o q)[i]
  OBVIOUS
<1>4. Tail(f \o q) = Tail(f) \o q
  BY <1>1, <1>2, <1>3, SeqEqual
<1>5. f \o q # <<>> /\ Head(f \o q) = Head(f)
  OBVIOUS
<1> QED  BY <1>4, <1>5

(* The empty sequence adds nothing. *)
LEMMA ConcatEmpty ==
  ASSUME NEW S, NEW q \in Seq(S)
  PROVE  <<>> \o q = q /\ q \o <<>> = q
  OBVIOUS
-----------------------------------------------------------------------------
(* The state is always well formed, and the two vectors and the list of    *)
(* active channels are empty outside their phase of Start().               *)
THEOREM TypeCorrect == Spec => []TypeOK
<1>1. Init => TypeOK
  BY LoopAssumption DEF Init, TypeOK
<1>2. TypeOK /\ [Next]_vars => TypeOK'
  <2> SUFFICES ASSUME TypeOK, [Next]_vars
               PROVE  TypeOK'
    OBVIOUS
  <2> USE LoopAssumption DEF TypeOK
  <2>1. CASE Poll
    BY <2>1 DEF Poll, Readable, OnLoopThread
  <2>2. CASE PollInterrupted
    BY <2>2 DEF PollInterrupted, OnLoopThread
  <2>3. CASE ReadEventfd
    BY <2>3 DEF ReadEventfd, OnLoopThread
  <2>4. ASSUME NEW c \in Channel, HandleEvent(c)
        PROVE  TypeOK'
    BY <2>4 DEF HandleEvent, OnLoopThread
  <2>5. CASE Return
    BY <2>5 DEF Return
  <2>6. CASE SwapTasks
    BY <2>6 DEF SwapTasks, OnLoopThread
  <2>7. CASE RunTask
    <3>1. Head(functor) \in Task /\ Tail(functor) \in Seq(Task)
      BY <2>7 DEF RunTask
    <3> QED  BY <2>7, <3>1 DEF RunTask, OnLoopThread
  <2>8. CASE FinishBatch
    BY <2>8 DEF FinishBatch, OnLoopThread
  <2>9. ASSUME NEW th \in Thread, NEW t \in Task, PushTask(th, t)
        PROVE  TypeOK'
    <3>1. Append(tasks, t) \in Seq(Task)
      OBVIOUS
    <3> QED  BY <2>9, <3>1 DEF PushTask, MayCall, Thread
  <2>10. ASSUME NEW th \in Thread, WeakUpEventFd(th)
         PROVE  TypeOK'
    <3>1. counter' \in 0 .. MaxCounter
      BY <2>10 DEF WeakUpEventFd
    <3> QED  BY <2>10, <3>1 DEF WeakUpEventFd
  <2>11. ASSUME NEW c \in Channel, InputArrives(c)
         PROVE  TypeOK'
    BY <2>11 DEF InputArrives
  <2>12. CASE UNCHANGED vars
    BY <2>12 DEF vars
  <2> QED
    BY <2>1, <2>2, <2>3, <2>4, <2>5, <2>6, <2>7, <2>8, <2>9, <2>10, <2>11,
       <2>12 DEF Next, LoopStep
<1> QED  BY <1>1, <1>2, PTL DEF Spec
-----------------------------------------------------------------------------
(* QueueInLoop wakes the loop only after it has released the mutex, and    *)
(* ReadEventfd throws the whole count away: still no wake-up is lost.  The *)
(* property is inductive given TypeOK.                                     *)
THEOREM WakeupSafe == Spec => []NoLostWakeup
<1>1. Init => NoLostWakeup
  BY DEF Init, NoLostWakeup
<1>2. TypeOK /\ NoLostWakeup /\ [Next]_vars => NoLostWakeup'
  <2> SUFFICES ASSUME TypeOK, NoLostWakeup, [Next]_vars
               PROVE  NoLostWakeup'
    OBVIOUS
  <2> USE DEF NoLostWakeup
  <2>1. CASE Poll \/ PollInterrupted
    BY <2>1 DEF Poll, PollInterrupted
  <2>2. CASE ReadEventfd
    BY <2>2 DEF ReadEventfd
  <2>3. ASSUME NEW c \in Channel, HandleEvent(c)
        PROVE  NoLostWakeup'
    BY <2>3 DEF HandleEvent
  <2>4. CASE Return
    BY <2>4 DEF Return
  <2>5. CASE SwapTasks
    BY <2>5 DEF SwapTasks
  <2>6. CASE RunTask
    BY <2>6 DEF RunTask
  <2>7. CASE FinishBatch
    BY <2>7 DEF FinishBatch
  <2>8. ASSUME NEW th \in Thread, NEW t \in Task, PushTask(th, t)
        PROVE  NoLostWakeup'
    BY <2>8 DEF PushTask
  <2>9. ASSUME NEW th \in Thread, WeakUpEventFd(th)
        PROVE  NoLostWakeup'
    <3>1. counter' > 0
      BY <2>9, LoopAssumption DEF WeakUpEventFd, TypeOK
    <3> QED  BY <3>1
  <2>10. ASSUME NEW c \in Channel, InputArrives(c)
         PROVE  NoLostWakeup'
    BY <2>10 DEF InputArrives
  <2>11. CASE UNCHANGED vars
    BY <2>11 DEF vars
  <2> QED
    BY <2>1, <2>2, <2>3, <2>4, <2>5, <2>6, <2>7, <2>8, <2>9, <2>10, <2>11
    DEF Next, LoopStep
<1> QED  BY <1>1, <1>2, TypeCorrect, PTL DEF Spec
-----------------------------------------------------------------------------
(* The eventloop implements the task pool: whatever the threads do, every  *)
(* step of the two vectors is one step of a single FIFO queue, or none.    *)
THEOREM TaskPoolRefinement == Spec => TasksRunInOrder
<1>1. Init => Pool!Init
  BY LoopAssumption DEF Init, Pool!Init
<1>2. TypeOK /\ [Next]_vars => [Pool!Next]_Pool!vars
  <2> SUFFICES ASSUME TypeOK, [Next]_vars
               PROVE  Pool!Next \/ UNCHANGED Pool!vars
    OBVIOUS
  <2> USE LoopAssumption DEF TypeOK, Pool!vars
  <2>1. CASE Poll \/ PollInterrupted
    BY <2>1 DEF Poll, PollInterrupted
  <2>2. CASE ReadEventfd
    BY <2>2 DEF ReadEventfd
  <2>3. ASSUME NEW c \in Channel, HandleEvent(c)
        PROVE  UNCHANGED Pool!vars
    BY <2>3 DEF HandleEvent, OnLoopThread
  <2>4. CASE Return
    <3>1. CASE current \in Task
      <4>1. Pool!Finish
        BY <2>4, <3>1 DEF Return, Pool!Finish
      <4> QED  BY <4>1 DEF Pool!Next
    <3>2. CASE current \notin Task
      BY <2>4, <3>2 DEF Return
    <3> QED  BY <3>1, <3>2
  <2>5. CASE SwapTasks
    <3>1. functor = <<>> /\ functor' = tasks /\ tasks' = <<>>
      BY <2>5 DEF SwapTasks
    <3>2. functor' \o tasks' = functor \o tasks
      BY <3>1, ConcatEmpty
    <3> QED  BY <2>5, <3>2 DEF SwapTasks
  <2>6. CASE RunTask
    <3>1. /\ functor \o tasks # <<>>
          /\ Head(functor \o tasks) = Head(functor)
          /\ Tail(functor \o tasks) = Tail(functor) \o tasks
      BY <2>6, ConcatHeadTail DEF RunTask
    <3>2. Head(functor) \in Task
      BY <2>6 DEF RunTask
    <3>3. Pool!Start
      BY <2>6, <3>1, <3>2 DEF RunTask, OnLoopThread, Pool!Start
    <3> QED  BY <3>3 DEF Pool!Next
  <2>7. CASE FinishBatch
    BY <2>7 DEF FinishBatch
  <2>8. ASSUME NEW th \in Thread, NEW t \in Task, PushTask(th, t)
        PROVE  Pool!Next
    <3>1. functor \o Append(tasks, t) = Append(functor \o tasks, t)
      BY ConcatAppend
    <3>2. Pool!Queue(t)
      BY <2>8, <3>1 DEF PushTask, Pool!Queue
    <3> QED  BY <3>2 DEF Pool!Next
  <2>9. ASSUME NEW th \in Thread, WeakUpEventFd(th)
        PROVE  UNCHANGED Pool!vars
    BY <2>9 DEF WeakUpEventFd
  <2>10. ASSUME NEW c \in Channel, InputArrives(c)
         PROVE  UNCHANGED Pool!vars
    BY <2>10 DEF InputArrives
  <2>11. CASE UNCHANGED vars
    BY <2>11 DEF vars
  <2> QED
    BY <2>1, <2>2, <2>3, <2>4, <2>5, <2>6, <2>7, <2>8, <2>9, <2>10, <2>11
    DEF Next, LoopStep
<1> QED  BY <1>1, <1>2, TypeCorrect, PTL DEF Spec, TasksRunInOrder, Pool!Spec
=============================================================================
