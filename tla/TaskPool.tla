------------------------------ MODULE TaskPool ------------------------------
(***************************************************************************)
(* What an EventLoop promises to the threads that hand it work: the tasks  *)
(* form one FIFO queue, each is run exactly once, one at a time, and every *)
(* task that was queued is eventually run.                                 *)
(*                                                                         *)
(* EventLoop implements this with two vectors, a mutex and an eventfd.     *)
(***************************************************************************)
EXTENDS Sequences

CONSTANTS Task,  \* the functors that can be queued
          NoTask \* no functor is being run

VARIABLES pool,    \* the tasks that were queued and not started, oldest first
          running  \* the task being run, or NoTask

vars == <<pool, running>>

Init == pool = <<>> /\ running = NoTask

(* QueueInLoop, by any thread, the loop's own included. *)
Queue(t) ==
  /\ pool' = Append(pool, t)
  /\ UNCHANGED running

(* The loop starts the oldest task. *)
Start ==
  /\ running = NoTask
  /\ pool # <<>>
  /\ running' = Head(pool)
  /\ pool' = Tail(pool)

Finish ==
  /\ running # NoTask
  /\ running' = NoTask
  /\ UNCHANGED pool

Next == Start \/ Finish \/ \E t \in Task : Queue(t)

Spec == Init /\ [][Next]_vars

FairSpec == Spec /\ WF_vars(Start) /\ WF_vars(Finish)
=============================================================================
