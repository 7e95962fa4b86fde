----------------------------- MODULE TimerWheel -----------------------------
(***************************************************************************)
(* The TimerWheel of one EventLoop (source/server.hpp).  The wheel holds   *)
(* shared_ptrs to the timers, _timers weak_ptrs to the same.  A tick moves *)
(* to the next slot and clears it; a timer whose last shared_ptr goes is   *)
(* destroyed, and its destructor runs the callback, unless cancelled, and  *)
(* then erases the timer from _timers.                                     *)
(*                                                                         *)
(* Everything runs on the loop's thread.  A callback runs in the middle of *)
(* clear(), and may itself operate on other timers: a task given to        *)
(* TcpServer::RunAfter can add the next one, or enable or cancel the       *)
(* inactivity release of a connection.                                     *)
(***************************************************************************)
EXTENDS Integers, FiniteSetsExt

CONSTANTS
  Id,             \* identifiers of connections and of RunAfter's tasks
  None,           \* not an identifier
  Capacity,       \* _capacity, 60 in the code
  Delay,          \* the delays the callers use
  MaxExpirations  \* bound on the expirations a stalled loop is behind

ASSUME WheelAssumption ==
  /\ None \notin Id
  /\ Capacity \in Nat \ {0}
  /\ Delay # {} /\ Delay \subseteq Nat \ {0}
  /\ MaxExpirations \in Nat

VARIABLES
  tick,        \* _tick
  wheel,       \* _wheel: for each slot, the timers it holds a shared_ptr to
  lost,        \* the timers with a shared_ptr that no clear() will release
  timers,      \* the keys of _timers
  cancelled,   \* the timers with _canceled set
  timeout,     \* _timeout of each timer
  expirations, \* the timerfd's counter
  times,       \* OnTime's iterations still to do
  clearing,    \* inside _wheel[_tick].clear()
  firing,      \* the timer whose _task_cb is running, or None
  idle         \* history: seconds since a timer was added or refreshed

wheelVars == <<tick, wheel, lost, timers, cancelled, timeout, firing>>
vars == <<wheelVars, expirations, times, clearing, idle>>

Slot == 0 .. Capacity - 1

TypeOK ==
  /\ tick \in Slot
  /\ wheel \in [Slot -> SUBSET Id]
  /\ lost \subseteq Id
  /\ timers \subseteq Id
  /\ cancelled \subseteq timers
  /\ timeout \in [Id -> Delay]
  /\ expirations \in Nat
  /\ times \in Nat
  /\ clearing \in BOOLEAN
  /\ firing \in Id \cup {None}
  /\ idle \in [Id -> Nat]
  /\ firing # None => clearing
  /\ firing \notin cancelled

Init ==
  /\ tick = 0
  /\ wheel = [s \in Slot |-> {}]
  /\ lost = {} /\ timers = {} /\ cancelled = {}
  /\ timeout \in [Id -> Delay]
  /\ expirations = 0 /\ times = 0
  /\ clearing = FALSE /\ firing = None
  /\ idle = [id \in Id |-> 0]
-----------------------------------------------------------------------------
(* Operations on timers, by the loop's thread: from a handler or task when *)
(* OnTime is not running, or from the callback of another timer.           *)
MayOperate(id) ==
  IF firing = None THEN times = 0 /\ ~clearing ELSE firing # id

(* push_back of a shared_ptr, delay slots ahead.  A push into the vector   *)
(* that clear() is emptying is undefined behaviour: with room to spare,    *)
(* clear() ends by setting the vector's end before the new element, which  *)
(* then is never destroyed; without, the vector is moved under clear(),    *)
(* and the program comes to a stop there, as any behaviour here may.       *)
PushBack(id, delay) ==
  LET pos == (tick + delay) % Capacity
  IN  IF clearing /\ pos = tick
      THEN lost' = lost \cup {id} /\ UNCHANGED wheel
      ELSE wheel' = [wheel EXCEPT ![pos] = @ \cup {id}] /\ UNCHANGED lost

(* Both callers know that the timer does not exist: RunAfter takes a new   *)
(* id, EnableInactiveReleaseInLoop has asked HasTimer.                     *)
TimerAddInLoop(id, delay) ==
  /\ MayOperate(id)
  /\ id \notin timers
  /\ PushBack(id, delay)
  /\ timers' = timers \cup {id}
  /\ timeout' = [timeout EXCEPT ![id] = delay]
  /\ idle' = [idle EXCEPT ![id] = 0]
  /\ UNCHANGED <<tick, cancelled, expirations, times, clearing, firing>>

TimerRefreshInLoop(id) ==
  /\ MayOperate(id)
  /\ id \in timers
  /\ PushBack(id, timeout[id])
  /\ idle' = [idle EXCEPT ![id] = 0]
  /\ UNCHANGED <<tick, timers, cancelled, timeout, expirations, times,
                 clearing, firing>>

TimerCancelInLoop(id) ==
  /\ MayOperate(id)
  /\ id \in timers
  /\ cancelled' = cancelled \cup {id}
  /\ UNCHANGED <<tick, wheel, lost, timers, timeout, expirations, times,
                 clearing, firing, idle>>
-----------------------------------------------------------------------------
(* A second passes: the timerfd expires once more.  Two bounds: a loop is  *)
(* at most MaxExpirations behind, and idle stops at Capacity.              *)
SecondPasses ==
  /\ expirations + times < MaxExpirations
  /\ expirations' = expirations + 1
  /\ idle' = [id \in Id |-> IF idle[id] < Capacity THEN idle[id] + 1
                                                   ELSE idle[id]]
  /\ UNCHANGED <<wheelVars, times, clearing>>

(* Bug: the loop over the expirations is one short. *)
OnTimeOneShort ==
  /\ times = 0 /\ ~clearing
  /\ expirations > 0
  /\ times' = expirations - 1
  /\ expirations' = 0
  /\ UNCHANGED <<wheelVars, clearing, idle>>

(* OnTime starts: ReadTimefd takes the whole count. *)
OnTime ==
  /\ times = 0 /\ ~clearing
  /\ expirations > 0
  /\ times' = expirations
  /\ expirations' = 0
  /\ UNCHANGED <<wheelVars, clearing, idle>>

(* Bug: the hand is not wrapped. *)
RunTimerTaskNoWrap ==
  /\ times > 0 /\ ~clearing
  /\ times' = times - 1
  /\ tick' = tick + 1
  /\ clearing' = TRUE
  /\ UNCHANGED <<wheel, lost, timers, cancelled, timeout, expirations, firing,
                 idle>>

(* Bug: the hand jumps over the slots of the ticks that were missed. *)
RunTimerTaskJump ==
  /\ times > 0 /\ ~clearing
  /\ times' = 0
  /\ tick' = (tick + times) % Capacity
  /\ clearing' = TRUE
  /\ UNCHANGED <<wheel, lost, timers, cancelled, timeout, expirations, firing,
                 idle>>

RunTimerTask ==
  /\ times > 0 /\ ~clearing
  /\ times' = times - 1
  /\ tick' = (tick + 1) % Capacity
  /\ clearing' = TRUE
  /\ UNCHANGED <<wheel, lost, timers, cancelled, timeout, expirations, firing,
                 idle>>

HeldElsewhere(id) ==
  id \in lost \/ \E s \in Slot \ {tick} : id \in wheel[s]

(* clear() destroys the shared_ptrs of the slot, one timer's at a time; if *)
(* they were the last, ~TimerTask runs.                                    *)
ReleaseTimer(id) ==
  /\ clearing /\ firing = None
  /\ id \in wheel[tick]
  /\ wheel' = [wheel EXCEPT ![tick] = @ \ {id}]
  /\ IF HeldElsewhere(id)
     THEN UNCHANGED <<firing, timers, cancelled>>
     ELSE IF id \in cancelled
     THEN /\ timers' = timers \ {id}
          /\ cancelled' = cancelled \ {id}
          /\ UNCHANGED firing
     ELSE firing' = id /\ UNCHANGED <<timers, cancelled>>
  /\ UNCHANGED <<tick, lost, timeout, expirations, times, clearing, idle>>

(* Bug: SetRelease was not called, the entry of _timers stays. *)
CallbackReturnsNoRelease ==
  /\ firing # None
  /\ firing' = None
  /\ UNCHANGED <<tick, wheel, lost, timers, cancelled, timeout, expirations,
                 times, clearing, idle>>

(* The rest of ~TimerTask, when its callback returns: RemoveTimer. *)
CallbackReturns ==
  /\ firing # None
  /\ timers' = timers \ {firing}
  /\ firing' = None
  /\ UNCHANGED <<tick, wheel, lost, cancelled, timeout, expirations, times,
                 clearing, idle>>

ClearReturns ==
  /\ clearing /\ firing = None
  /\ wheel[tick] = {}
  /\ clearing' = FALSE
  /\ UNCHANGED <<wheelVars, expirations, times, idle>>
-----------------------------------------------------------------------------
WheelStep ==
  \/ OnTime
  \/ RunTimerTask
  \/ \E id \in Id : ReleaseTimer(id)
  \/ CallbackReturns
  \/ ClearReturns

Operation ==
  \E id \in Id :
    \/ \E d \in Delay : TimerAddInLoop(id, d)
    \/ TimerRefreshInLoop(id)
    \/ TimerCancelInLoop(id)

Next == SecondPasses \/ WheelStep \/ Operation

Spec == Init /\ [][Next]_vars

(* The clock never stops, the loop handles a readable timerfd (EventLoop's *)
(* InputIsHandled) and callbacks return.                                   *)
FairSpec == Spec /\ WF_vars(SecondPasses) /\ WF_vars(WheelStep)
-----------------------------------------------------------------------------
Held(id) == id \in lost \/ \E s \in Slot : id \in wheel[s]

(* _timers names a timer exactly as long as it exists, so that the         *)
(* weak_ptr TimerRefreshInLoop locks, and uses without a check, is not     *)
(* empty, and a released id can be added again.  No slot holds a timer     *)
(* whose destructor has begun.                                             *)
TimersMatchTasks ==
  /\ \A id \in Id : id \in timers <=> Held(id) \/ firing = id
  /\ firing # None => ~Held(firing)

(* Between ticks the slot at the hand is empty: whatever is put there      *)
(* waits a whole turn.                                                     *)
HandSlotEmpty == ~clearing => wheel[tick] = {}

(* The comment at _capacity calls it the maximal delay.  A timer with any  *)
(* delay up to that, added or refreshed at any time, then still waits for  *)
(* a tick that releases it.                                                *)
NoTimerLost == lost = {}

(* A timer fires only when as many seconds have passed since it was added  *)
(* or last refreshed as its delay says, give or take the wheel's one       *)
(* second.                                                                 *)
NeverFiresEarly == firing # None => idle[firing] + 1 >= timeout[firing]

(* The wheel is a set of countdowns: a timer's count is the number of      *)
(* ticks to the furthest slot that holds it.                               *)
TicksTo(s) == (s + Capacity - tick) % Capacity

StatusOf(id) ==
  CASE firing = id       -> "firing"
    [] id \notin timers  -> "off"
    [] id \in cancelled  -> "cancelled"
    [] OTHER             -> "armed"

TicksLeft(id) ==
  LET ahead == {TicksTo(s) : s \in {r \in Slot : id \in wheel[r]}}
  IN  IF ahead = {} THEN 0 ELSE Max(ahead)

Service == INSTANCE TimerService WITH
  status <- [id \in Id |-> StatusOf(id)],
  period <- timeout,
  left   <- [id \in Id |-> TicksLeft(id)]

(* A timer fires exactly on the tick its last refresh put it to, never     *)
(* after it was cancelled, and always before the next tick.                *)
TimersCountDown == Service!Spec

(* A timer that is not refreshed does fire, or is dropped if cancelled. *)
TimersExpire == Service!FairSpec
=============================================================================
