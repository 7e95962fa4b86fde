---------------------------- MODULE TimerService ----------------------------
(***************************************************************************)
(* What a TimerWheel promises to its EventLoop, with no wheel in it: each  *)
(* timer counts down from its delay, a refresh starts it again, and it     *)
(* fires, once, on the tick that brings it to zero unless it was           *)
(* cancelled.  All the timers that are due fire before the next tick.      *)
(***************************************************************************)
EXTENDS Naturals

CONSTANTS Id,    \* the identifiers of timers
          Delay  \* the delays, in ticks, a timer can be given

VARIABLES status, \* of each timer: "off", "armed", "cancelled" or "firing"
          period, \* the delay it was last added with
          left    \* ticks to go

vars == <<status, period, left>>

Init ==
  /\ status = [id \in Id |-> "off"]
  /\ period \in [Id -> Delay]
  /\ left = [id \in Id |-> 0]

Live(id) == status[id] \in {"armed", "cancelled"}

Due(id) == Live(id) /\ left[id] = 0

Quiet == \A id \in Id : status[id] # "firing"

Add(id, d) ==
  /\ status[id] = "off"
  /\ status' = [status EXCEPT ![id] = "armed"]
  /\ period' = [period EXCEPT ![id] = d]
  /\ left' = [left EXCEPT ![id] = d]

Refresh(id) ==
  /\ Live(id)
  /\ left' = [left EXCEPT ![id] = period[id]]
  /\ UNCHANGED <<status, period>>

Cancel(id) ==
  /\ Live(id)
  /\ status' = [status EXCEPT ![id] = "cancelled"]
  /\ UNCHANGED <<period, left>>

Tick ==
  /\ Quiet
  /\ \A id \in Id : ~Due(id)
  /\ left' = [id \in Id |-> IF Live(id) THEN left[id] - 1 ELSE left[id]]
  /\ UNCHANGED <<status, period>>

Fire(id) ==
  /\ Quiet
  /\ Due(id) /\ status[id] = "armed"
  /\ status' = [status EXCEPT ![id] = "firing"]
  /\ UNCHANGED <<period, left>>

Drop(id) ==
  /\ Quiet
  /\ Due(id) /\ status[id] = "cancelled"
  /\ status' = [status EXCEPT ![id] = "off"]
  /\ UNCHANGED <<period, left>>

Return(id) ==
  /\ status[id] = "firing"
  /\ status' = [status EXCEPT ![id] = "off"]
  /\ UNCHANGED <<period, left>>

Operation(id) == (\E d \in Delay : Add(id, d)) \/ Refresh(id) \/ Cancel(id)

Expiry(id) == Fire(id) \/ Drop(id) \/ Return(id)

Next == Tick \/ \E id \in Id : Operation(id) \/ Expiry(id)

Spec == Init /\ [][Next]_vars

FairSpec ==
  Spec /\ WF_vars(Tick) /\ \A id \in Id : WF_vars(Expiry(id))
=============================================================================
