-------------------------- MODULE TimerWheelProofs --------------------------
(* Proofs about TimerWheel, for any timers, delays and size of the wheel. *)
EXTENDS TimerWheel, SequenceLemmas, TLAPS

(* The slot arithmetic of the code stays inside the wheel ... *)
LEMMA SlotInWheel ==
  ASSUME NEW a \in Nat
  PROVE  a % Capacity \in Slot
  BY WheelAssumption, SMT DEF Slot

(* ... and a delay shorter than a turn never leads to the slot at the hand. *)
LEMMA SlotIsNotHand ==
  ASSUME NEW a \in Slot, NEW d \in 1 .. Capacity - 1
  PROVE  (a + d) % Capacity # a
  BY WheelAssumption, SMT DEF Slot

(* What push_back changes. *)
LEMMA PushBackType ==
  ASSUME TypeOK, NEW id \in Id, NEW d \in Nat, PushBack(id, d)
  PROVE  wheel' \in [Slot -> SUBSET Id] /\ lost' \subseteq Id
<1>1. (tick + d) % Capacity \in Slot
  <2>1. tick + d \in Nat
    BY WheelAssumption DEF TypeOK, Slot
  <2> QED  BY <2>1, SlotInWheel
<1> QED  BY <1>1 DEF PushBack, TypeOK

(* PushBack lets a slot hold the task it pushes, and no other one. *)
LEMMA PushBackHeld ==
  ASSUME TypeOK, NEW id \in Id, NEW d \in Nat, PushBack(id, d), NEW x \in Id
  PROVE  Held(x)' <=> Held(x) \/ x = id
<1>1. (tick + d) % Capacity \in Slot
  <2>1. tick + d \in Nat
    BY WheelAssumption DEF TypeOK, Slot
  <2> QED  BY <2>1, SlotInWheel
<1> DEFINE pos == (tick + d) % Capacity
<1>2. CASE clearing /\ pos = tick
  BY <1>2 DEF PushBack, Held
<1>3. CASE ~(clearing /\ pos = tick)
  <2>1. lost' = lost /\ wheel' = [wheel EXCEPT ![pos] = @ \cup {id}]
    BY <1>3 DEF PushBack
  <2>2. \A s \in Slot : wheel'[s] = IF s = pos THEN wheel[s] \cup {id}
                                               ELSE wheel[s]
    BY <2>1 DEF TypeOK
  <2> QED  BY <1>1, <2>1, <2>2 DEF Held
<1> QED  BY <1>2, <1>3
-----------------------------------------------------------------------------
(* The hand is always on a slot, and a timer is cancelled only while       *)
(* _timers knows it, never once its callback has started.                  *)
THEOREM WheelTypeCorrect == Spec => []TypeOK
<1>1. Init => TypeOK
  <2> SUFFICES ASSUME Init
               PROVE  TypeOK
    OBVIOUS
  <2>1. tick \in Slot
    BY WheelAssumption DEF Init, Slot
  <2>2. wheel \in [Slot -> SUBSET Id] /\ idle \in [Id -> Nat]
    BY DEF Init
  <2>3. /\ lost \subseteq Id /\ timers \subseteq Id /\ cancelled \subseteq timers
        /\ firing \in Id \cup {None} /\ firing \notin cancelled
        /\ timeout \in [Id -> Delay]
    BY DEF Init
  <2>4. clearing \in BOOLEAN /\ (firing # None => clearing)
    BY DEF Init
  <2>5. expirations \in Nat /\ times \in Nat
    BY DEF Init
  <2> QED  BY <2>1, <2>2, <2>3, <2>4, <2>5 DEF TypeOK
<1>2. TypeOK /\ [Next]_vars => TypeOK'
  <2> SUFFICES ASSUME TypeOK, [Next]_vars
               PROVE  TypeOK'
    OBVIOUS
  <2>1. CASE SecondPasses
    <3>1. idle' \in [Id -> Nat]
      BY <2>1 DEF SecondPasses, TypeOK
    <3> QED  BY <2>1, <3>1 DEF SecondPasses, wheelVars, TypeOK
  <2>2. CASE OnTime
    BY <2>2 DEF OnTime, wheelVars, TypeOK
  <2>3. CASE RunTimerTask
    <3>1. tick + 1 \in Nat
      BY WheelAssumption DEF TypeOK, Slot
    <3>2. tick' \in Slot
      BY <2>3, <3>1, SlotInWheel DEF RunTimerTask
    <3> QED  BY <2>3, <3>2 DEF RunTimerTask, TypeOK
  <2>4. ASSUME NEW id \in Id, ReleaseTimer(id)
        PROVE  TypeOK'
    BY <2>4, WheelAssumption DEF ReleaseTimer, TypeOK
  <2>5. CASE CallbackReturns
    BY <2>5, WheelAssumption DEF CallbackReturns, TypeOK
  <2>6. CASE ClearReturns
    BY <2>6 DEF ClearReturns, wheelVars, TypeOK
  <2>7. ASSUME NEW id \in Id, NEW d \in Delay, TimerAddInLoop(id, d)
        PROVE  TypeOK'
    <3>1. wheel' \in [Slot -> SUBSET Id] /\ lost' \subseteq Id
      BY <2>7, PushBackType, WheelAssumption DEF TimerAddInLoop
    <3> QED  BY <2>7, <3>1 DEF TimerAddInLoop, TypeOK
  <2>8. ASSUME NEW id \in Id, TimerRefreshInLoop(id)
        PROVE  TypeOK'
    <3>1. timeout[id] \in Nat
      BY WheelAssumption DEF TypeOK
    <3>2. wheel' \in [Slot -> SUBSET Id] /\ lost' \subseteq Id
      BY <2>8, <3>1, PushBackType DEF TimerRefreshInLoop
    <3> QED  BY <2>8, <3>2 DEF TimerRefreshInLoop, TypeOK
  <2>9. ASSUME NEW id \in Id, TimerCancelInLoop(id)
        PROVE  TypeOK'
    BY <2>9, WheelAssumption DEF TimerCancelInLoop, MayOperate, TypeOK
  <2>10. CASE UNCHANGED vars
    BY <2>10 DEF vars, wheelVars, TypeOK
  <2> QED
    BY <2>1, <2>2, <2>3, <2>4, <2>5, <2>6, <2>7, <2>8, <2>9, <2>10
    DEF Next, WheelStep, Operation
<1> QED  BY <1>1, <1>2, PTL DEF Spec
-----------------------------------------------------------------------------
(* _timers and the shared_ptrs in the wheel agree, through any nesting of  *)
(* callbacks in clear(): the weak_ptr a refresh locks is never empty.      *)
THEOREM TimersMatch == Spec => []TimersMatchTasks
<1>1. Init => TimersMatchTasks
  BY WheelAssumption DEF Init, TimersMatchTasks, Held
<1>2. TypeOK /\ TimersMatchTasks /\ [Next]_vars => TimersMatchTasks'
  <2> SUFFICES ASSUME TypeOK, TimersMatchTasks, [Next]_vars
               PROVE  TimersMatchTasks'
    OBVIOUS
  <2>1. CASE SecondPasses \/ OnTime \/ ClearReturns \/ UNCHANGED vars
    BY <2>1 DEF SecondPasses, OnTime, ClearReturns, vars, wheelVars,
                TimersMatchTasks, Held
  <2>2. CASE RunTimerTask
    BY <2>2 DEF RunTimerTask, TimersMatchTasks, Held
  <2>3. ASSUME NEW id \in Id, ReleaseTimer(id)
        PROVE  TimersMatchTasks'
    <3>1. \A s \in Slot : wheel'[s] = IF s = tick THEN wheel[s] \ {id}
                                                  ELSE wheel[s]
      BY <2>3 DEF ReleaseTimer, TypeOK
    <3>2. lost' = lost /\ firing = None /\ id \in wheel[tick] /\ tick \in Slot
      BY <2>3 DEF ReleaseTimer, TypeOK
    <3>3. \A x \in Id \ {id} : Held(x)' <=> Held(x)
      BY <3>1, <3>2 DEF Held
    <3>4. Held(id) /\ (Held(id)' <=> HeldElsewhere(id))
      BY <3>1, <3>2 DEF Held, HeldElsewhere
    <3>5. CASE HeldElsewhere(id)
      BY <2>3, <3>2, <3>3, <3>4, <3>5 DEF ReleaseTimer, TimersMatchTasks
    <3>6. CASE ~HeldElsewhere(id) /\ id \in cancelled
      <4>1. timers' = timers \ {id} /\ firing' = None
        BY <2>3, <3>2, <3>6 DEF ReleaseTimer
      <4> QED  BY <3>2, <3>3, <3>4, <3>6, <4>1, WheelAssumption
               DEF TimersMatchTasks
    <3>7. CASE ~HeldElsewhere(id) /\ id \notin cancelled
      <4>1. timers' = timers /\ firing' = id
        BY <2>3, <3>7 DEF ReleaseTimer
      <4> QED  BY <3>2, <3>3, <3>4, <3>7, <4>1, WheelAssumption
               DEF TimersMatchTasks
    <3> QED  BY <3>5, <3>6, <3>7
  <2>4. CASE CallbackReturns
    <3>1. /\ wheel' = wheel /\ lost' = lost /\ firing' = None
          /\ firing \in Id /\ timers' = timers \ {firing}
      BY <2>4 DEF CallbackReturns, TypeOK
    <3>2. \A x \in Id : Held(x)' <=> Held(x)
      BY <3>1 DEF Held
    <3> QED  BY <3>1, <3>2, WheelAssumption DEF TimersMatchTasks
  <2>5. ASSUME NEW id \in Id, NEW d \in Delay, TimerAddInLoop(id, d)
        PROVE  TimersMatchTasks'
    <3>1. \A x \in Id : Held(x)' <=> Held(x) \/ x = id
      BY <2>5, PushBackHeld, WheelAssumption DEF TimerAddInLoop
    <3>2. timers' = timers \cup {id} /\ firing' = firing /\ firing # id
      BY <2>5, WheelAssumption DEF TimerAddInLoop, MayOperate
    <3> QED  BY <3>1, <3>2, WheelAssumption DEF TimersMatchTasks, TypeOK
  <2>6. ASSUME NEW id \in Id, TimerRefreshInLoop(id)
        PROVE  TimersMatchTasks'
    <3>1. timeout[id] \in Nat
      BY WheelAssumption DEF TypeOK
    <3>2. \A x \in Id : Held(x)' <=> Held(x) \/ x = id
      BY <2>6, <3>1, PushBackHeld DEF TimerRefreshInLoop
    <3>3. /\ id \in timers /\ timers' = timers
          /\ firing' = firing /\ firing # id
      BY <2>6, WheelAssumption DEF TimerRefreshInLoop, MayOperate
    <3> QED  BY <3>2, <3>3, WheelAssumption DEF TimersMatchTasks, TypeOK
  <2>7. ASSUME NEW id \in Id, TimerCancelInLoop(id)
        PROVE  TimersMatchTasks'
    BY <2>7 DEF TimerCancelInLoop, TimersMatchTasks, Held
  <2> QED
    BY <2>1, <2>2, <2>3, <2>4, <2>5, <2>6, <2>7
    DEF Next, WheelStep, Operation
<1> QED  BY <1>1, <1>2, WheelTypeCorrect, PTL DEF Spec
-----------------------------------------------------------------------------
(* A part of WheelCountsDown's invariant, and what its condition is for.   *)
(* While every delay is shorter than a turn of the wheel, no timer is ever *)
(* pushed into the slot at the hand: none is lost to a clear() in progress *)
(* and none waits a turn too long.  With a delay of a turn both happen.    *)
LEMMA NothingLost ==
  ASSUME \A d \in Delay : d < Capacity
  PROVE  Spec => [](HandSlotEmpty /\ NoTimerLost)
<1> DEFINE Inv == HandSlotEmpty /\ NoTimerLost
<1>1. Init => Inv
  BY WheelAssumption DEF Init, HandSlotEmpty, NoTimerLost, Slot
<1>2. ASSUME TypeOK, Inv, NEW id \in Id, NEW d \in Delay, PushBack(id, d),
             UNCHANGED <<tick, clearing>>
      PROVE  Inv'
  <2>1. d \in 1 .. Capacity - 1
    BY WheelAssumption
  <2>2. tick \in Slot
    BY <1>2 DEF TypeOK
  <2>3. (tick + d) % Capacity # tick
    BY <2>1, <2>2, SlotIsNotHand
  <2>4. /\ lost' = lost
        /\ wheel' = [wheel EXCEPT ![(tick + d) % Capacity] = @ \cup {id}]
    BY <1>2, <2>3 DEF PushBack
  <2>5. wheel'[tick] = wheel[tick]
    BY <1>2, <2>3, <2>4 DEF TypeOK
  <2> QED  BY <1>2, <2>4, <2>5 DEF HandSlotEmpty, NoTimerLost
<1>3. TypeOK /\ Inv /\ [Next]_vars => Inv'
  <2> SUFFICES ASSUME TypeOK, Inv, [Next]_vars
               PROVE  Inv'
    OBVIOUS
  <2> USE DEF HandSlotEmpty, NoTimerLost
  <2>1. CASE SecondPasses \/ OnTime \/ UNCHANGED vars
    BY <2>1 DEF SecondPasses, OnTime, vars, wheelVars
  <2>2. CASE RunTimerTask
    BY <2>2 DEF RunTimerTask
  <2>3. ASSUME NEW id \in Id, ReleaseTimer(id)
        PROVE  Inv'
    BY <2>3 DEF ReleaseTimer
  <2>4. CASE CallbackReturns
    BY <2>4 DEF CallbackReturns
  <2>5. CASE ClearReturns
    BY <2>5 DEF ClearReturns, wheelVars
  <2>6. ASSUME NEW id \in Id, NEW d \in Delay, TimerAddInLoop(id, d)
        PROVE  Inv'
    BY <1>2, <2>6 DEF TimerAddInLoop
  <2>7. ASSUME NEW id \in Id, TimerRefreshInLoop(id)
        PROVE  Inv'
    BY <1>2, <2>7 DEF TimerRefreshInLoop, TypeOK
  <2>8. ASSUME NEW id \in Id, TimerCancelInLoop(id)
        PROVE  Inv'
    BY <2>8 DEF TimerCancelInLoop
  <2> QED
    BY <2>1, <2>2, <2>3, <2>4, <2>5, <2>6, <2>7, <2>8
    DEF Next, WheelStep, Operation
<1> QED  BY <1>1, <1>3, WheelTypeCorrect, PTL DEF Spec
-----------------------------------------------------------------------------
(* TicksTo and TicksLeft, of any wheel w with its hand at t: in the proof  *)
(* they are compared before and after a step.                              *)
Ahead(s, t) == (s + Capacity - t) % Capacity
Slots(w, id) == {s \in Slot : id \in w[s]}
Furthest(w, t, id) ==
  LET ahead == {Ahead(s, t) : s \in Slots(w, id)}
  IN  IF ahead = {} THEN 0 ELSE Max(ahead)

(* The remainder by which the code wraps around, without division. *)
LEMMA WrapOnce ==
  ASSUME NEW a \in 0 .. 2 * Capacity - 1
  PROVE  a % Capacity = IF a < Capacity THEN a ELSE a - Capacity
<1>1. Capacity \in Nat \ {0}
  BY WheelAssumption
<1> QED
  BY <1>1, SMT

(* The distance to a slot is less than a turn, and none only at the hand. *)
LEMMA AheadIs ==
  ASSUME NEW s \in Slot, NEW t \in Slot
  PROVE  /\ Ahead(s, t) = IF s < t THEN s + Capacity - t ELSE s - t
         /\ Ahead(s, t) \in 0 .. Capacity - 1
         /\ Ahead(s, t) = 0 <=> s = t
<1> DEFINE a == s + Capacity - t
<1>1. Capacity \in Nat \ {0} /\ s \in 0 .. Capacity - 1 /\ t \in 0 .. Capacity - 1
  BY WheelAssumption DEF Slot
<1>2. a \in 0 .. 2 * Capacity - 1
  BY <1>1
<1>3. a % Capacity = IF a < Capacity THEN a ELSE a - Capacity
  BY <1>2, WrapOnce
<1>4. Ahead(s, t) = IF s < t THEN s + Capacity - t ELSE s - t
  BY <1>1, <1>3 DEF Ahead
<1> QED
  BY <1>1, <1>4

(* push_back puts a timer as far ahead as its delay says. *)
LEMMA PushedAhead ==
  ASSUME NEW t \in Slot, NEW d \in 1 .. Capacity - 1
  PROVE  (t + d) % Capacity \in Slot /\ Ahead((t + d) % Capacity, t) = d
<1>1. Capacity \in Nat \ {0} /\ t \in 0 .. Capacity - 1
  BY WheelAssumption DEF Slot
<1> DEFINE v == t + d
           s == v % Capacity
<1>2. v \in 0 .. 2 * Capacity - 1
  BY <1>1
<1> HIDE DEF v
<1>3. s = IF v < Capacity THEN v ELSE v - Capacity
  BY <1>2, WrapOnce
<1> HIDE DEF s
<1>4. s \in Slot
  BY <1>1, <1>3 DEF Slot, v
<1>5. Ahead(s, t) = IF s < t THEN s + Capacity - t ELSE s - t
  BY <1>4, AheadIs
<1>6. Ahead(s, t) = d
  BY <1>1, <1>3, <1>5 DEF v
<1> QED
  BY <1>4, <1>6 DEF s, v

(* A tick brings the hand one slot closer to each of the others. *)
LEMMA TickAhead ==
  ASSUME NEW s \in Slot, NEW t \in Slot, s # t
  PROVE  (t + 1) % Capacity \in Slot /\ Ahead(s, (t + 1) % Capacity) = Ahead(s, t) - 1
<1>1. Capacity \in Nat \ {0} /\ t \in 0 .. Capacity - 1 /\ s \in 0 .. Capacity - 1
  BY WheelAssumption DEF Slot
<1> DEFINE v == t + 1
           u == v % Capacity
<1>2. v \in 0 .. 2 * Capacity - 1
  BY <1>1
<1> HIDE DEF v
<1>3. u = IF v < Capacity THEN v ELSE v - Capacity
  BY <1>2, WrapOnce
<1> HIDE DEF u
<1>4. u \in Slot
  BY <1>1, <1>3 DEF Slot, v
<1>5. /\ Ahead(s, t) = IF s < t THEN s + Capacity - t ELSE s - t
      /\ Ahead(s, u) = IF s < u THEN s + Capacity - u ELSE s - u
  BY <1>4, AheadIs
<1>6. Ahead(s, u) = Ahead(s, t) - 1
  BY <1>1, <1>3, <1>5 DEF v
<1> QED
  BY <1>4, <1>6 DEF u, v

(* What the furthest slot is: one that no other is ahead of. *)
LEMMA FurthestIs ==
  ASSUME NEW w, NEW t \in Slot, NEW id, NEW n, NEW r \in Slots(w, id), Ahead(r, t) = n,
         \A s \in Slots(w, id) : Ahead(s, t) <= n
  PROVE  Furthest(w, t, id) = n
<1> DEFINE S == {Ahead(s, t) : s \in Slots(w, id)}
<1>1. n \in S /\ n \in Nat
  BY AheadIs DEF Slots
<1>2. \A x \in S : x \in Nat /\ x <= n
  BY AheadIs DEF Slots
<1> HIDE DEF S
<1>3. Max(S) \in S /\ \A x \in S : Max(S) >= x
  <2>1. n \in S /\ \A x \in S : n >= x
    BY <1>1, <1>2
  <2> QED
    BY <2>1 DEF Max
<1>4. Max(S) = n
  <2> DEFINE m == Max(S)
  <2>1. m \in S /\ m >= n
    BY <1>1, <1>3
  <2> HIDE DEF m
  <2>2. m \in Nat /\ m <= n
    BY <1>2, <2>1
  <2> QED
    BY <1>1, <2>1, <2>2 DEF m
<1>5. Furthest(w, t, id) = IF S = {} THEN 0 ELSE Max(S)
  BY DEF Furthest, S
<1> QED
  BY <1>1, <1>4, <1>5

(* A timer that no slot holds has no distance, ... *)
LEMMA FurthestNone ==
  ASSUME NEW w, NEW t, NEW id, Slots(w, id) = {}
  PROVE  Furthest(w, t, id) = 0
BY DEF Furthest

(* ... and of the slots that hold one there is one furthest ahead. *)
LEMMA FurthestSlot ==
  ASSUME NEW w, NEW t \in Slot, NEW id, Slots(w, id) # {}
  PROVE  \E r \in Slots(w, id) :
           /\ Furthest(w, t, id) = Ahead(r, t)
           /\ \A s \in Slots(w, id) : Ahead(s, t) <= Ahead(r, t)
<1> DEFINE S == {Capacity - Ahead(s, t) : s \in Slots(w, id)}
<1>1. Capacity \in Nat /\ \A s \in Slots(w, id) : Ahead(s, t) \in 0 .. Capacity - 1
  BY WheelAssumption, AheadIs DEF Slots
<1>2. S # {}
  OBVIOUS
<1>3. S \subseteq Nat
  BY <1>1
<1> HIDE DEF S
<1>4. PICK x \in S : \A y \in S : x <= y
  BY <1>2, <1>3, LeastElement
<1>5. PICK r \in Slots(w, id) : x = Capacity - Ahead(r, t)
  BY <1>4 DEF S
<1>6. \A s \in Slots(w, id) : Ahead(s, t) <= Ahead(r, t)
  <2> TAKE s \in Slots(w, id)
  <2>1. Capacity - Ahead(r, t) <= Capacity - Ahead(s, t)
    BY <1>4, <1>5 DEF S
  <2> DEFINE a == Ahead(r, t)
             b == Ahead(s, t)
  <2>2. a \in Nat /\ b \in Nat
    BY <1>1
  <2> HIDE DEF a, b
  <2>3. Capacity - a <= Capacity - b => b <= a
    BY <1>1, <2>2
  <2> QED
    BY <2>1, <2>3 DEF a, b
<1>7. Furthest(w, t, id) = Ahead(r, t)
  BY <1>6, FurthestIs
<1> QED
  BY <1>6, <1>7
-----------------------------------------------------------------------------
(* TicksLeft is the distance to the furthest slot. *)
LEMMA TicksLeftIs ==
  ASSUME NEW id
  PROVE  TicksLeft(id) = Furthest(wheel, tick, id)
BY DEF TicksLeft, Furthest, TicksTo, Ahead, Slots

(* The distance of a timer depends on the slots that hold it. *)
LEMMA FurthestSame ==
  ASSUME NEW w, NEW w2, NEW t, NEW id, Slots(w2, id) = Slots(w, id)
  PROVE  Furthest(w2, t, id) = Furthest(w, t, id)
BY DEF Furthest

(* What a push, and a release from the slot at the hand, make of a wheel. *)
Pushed(w, w2, t, id, d) == w2 = [w EXCEPT ![(t + d) % Capacity] = @ \cup {id}]
Released(w, w2, t, id) == id \in w[t] /\ w2 = [w EXCEPT ![t] = @ \ {id}]

(* A push no closer than the others decides how far a timer is. *)
LEMMA FurthestPushed ==
  ASSUME NEW w \in [Slot -> SUBSET Id], NEW w2, NEW t \in Slot, NEW id \in Id,
         NEW d \in 1 .. Capacity - 1, Furthest(w, t, id) <= d,
         Pushed(w, w2, t, id, d)
  PROVE  /\ Furthest(w2, t, id) = d
         /\ \A x \in Id \ {id} : Furthest(w2, t, x) = Furthest(w, t, x)
<1> DEFINE pos == (t + d) % Capacity
<1>1. pos \in Slot /\ Ahead(pos, t) = d
  BY PushedAhead
<1> HIDE DEF pos
<1>2. w2 = [w EXCEPT ![pos] = @ \cup {id}]
  BY DEF pos, Pushed
<1>3. \A s \in Slot : w2[s] = IF s = pos THEN w[s] \cup {id} ELSE w[s]
  BY <1>1, <1>2
<1>4. pos \in Slots(w2, id) /\ \A s \in Slots(w2, id) : s \in Slots(w, id) \/ s = pos
  BY <1>1, <1>3 DEF Slots
<1>5. \A s \in Slots(w, id) : Ahead(s, t) <= d
  <2> TAKE s \in Slots(w, id)
  <2>1. PICK r \in Slots(w, id) :
          Furthest(w, t, id) = Ahead(r, t) /\ Ahead(s, t) <= Ahead(r, t)
    BY FurthestSlot
  <2> DEFINE a == Ahead(s, t)
             b == Ahead(r, t)
  <2>2. a \in Nat /\ b \in Nat /\ a <= b /\ b <= d
    BY <2>1, AheadIs DEF Slots
  <2> HIDE DEF a, b
  <2>3. a <= d
    BY <2>2
  <2> QED
    BY <2>3 DEF a
<1>6. \A s \in Slots(w2, id) : Ahead(s, t) <= d
  <2> TAKE s \in Slots(w2, id)
  <2>1. CASE s = pos
    BY <1>1, <2>1
  <2>2. CASE s \in Slots(w, id)
    BY <1>5, <2>2
  <2> QED
    BY <1>4, <2>1, <2>2
<1>7. Furthest(w2, t, id) = d
  BY <1>1, <1>4, <1>6, FurthestIs
<1>8. ASSUME NEW x \in Id \ {id}
      PROVE  Furthest(w2, t, x) = Furthest(w, t, x)
  <2>1. Slots(w2, x) = Slots(w, x)
    BY <1>3 DEF Slots
  <2> QED
    BY <2>1, FurthestSame
<1> QED
  BY <1>7, <1>8

(* Taking a timer out of the slot at the hand does not bring it closer.    *)
LEMMA FurthestReleased ==
  ASSUME NEW w \in [Slot -> SUBSET Id], NEW w2, NEW t \in Slot, NEW id \in Id,
         Released(w, w2, t, id)
  PROVE  /\ \A x \in Id : Furthest(w2, t, x) = Furthest(w, t, x)
         /\ (\A s \in Slot \ {t} : id \notin w[s]) => Furthest(w, t, id) = 0
<1>1. /\ \A s \in Slot : w2[s] = IF s = t THEN w[s] \ {id} ELSE w[s]
      /\ id \in w[t]
  BY DEF Released
<1>2. Slots(w2, id) = Slots(w, id) \ {t} /\ t \in Slots(w, id)
  BY <1>1 DEF Slots
<1>3. Ahead(t, t) = 0
  BY AheadIs
<1>4. ASSUME NEW x \in Id \ {id}
      PROVE  Furthest(w2, t, x) = Furthest(w, t, x)
  <2>1. Slots(w2, x) = Slots(w, x)
    BY <1>1 DEF Slots
  <2> QED
    BY <2>1, FurthestSame
<1>5. CASE Slots(w2, id) = {}
  <2>1. Furthest(w2, t, id) = 0
    BY <1>5, FurthestNone
  <2>2. \A s \in Slots(w, id) : Ahead(s, t) <= 0
    <3> TAKE s \in Slots(w, id)
    <3>1. s = t
      BY <1>2, <1>5
    <3> QED
      BY <1>3, <3>1
  <2>3. Furthest(w, t, id) = 0
    BY <1>2, <1>3, <2>2, FurthestIs
  <2> QED
    BY <1>4, <2>1, <2>3
<1>6. CASE Slots(w2, id) # {}
  <2>1. PICK r \in Slots(w2, id) :
          /\ Furthest(w2, t, id) = Ahead(r, t)
          /\ \A s \in Slots(w2, id) : Ahead(s, t) <= Ahead(r, t)
    BY <1>6, FurthestSlot
  <2>2. r \in Slots(w, id) /\ 0 <= Ahead(r, t)
    BY <1>2, <2>1, AheadIs DEF Slots
  <2>3. \A s \in Slots(w, id) : Ahead(s, t) <= Ahead(r, t)
    BY <1>2, <1>3, <2>1, <2>2
  <2>4. Furthest(w, t, id) = Ahead(r, t)
    BY <2>2, <2>3, FurthestIs
  <2>6. \E s \in Slot \ {t} : id \in w[s]
    BY <1>2, <1>6 DEF Slots
  <2> QED
    BY <1>4, <2>1, <2>4, <2>6
<1> QED
  BY <1>5, <1>6

(* A tick brings every timer one closer, if the slot at the hand is empty. *)
LEMMA FurthestTick ==
  ASSUME NEW w \in [Slot -> SUBSET Id], NEW t \in Slot, NEW id \in Id, w[t] = {},
         Slots(w, id) # {}
  PROVE  /\ Furthest(w, t, id) \in 1 .. Capacity - 1
         /\ Furthest(w, (t + 1) % Capacity, id) = Furthest(w, t, id) - 1
<1> DEFINE u == (t + 1) % Capacity
<1>1. PICK r \in Slots(w, id) :
        /\ Furthest(w, t, id) = Ahead(r, t)
        /\ \A s \in Slots(w, id) : Ahead(s, t) <= Ahead(r, t)
  BY FurthestSlot
<1>2. \A s \in Slots(w, id) : s \in Slot /\ s # t
  BY DEF Slots
<1>3. u \in Slot /\ \A s \in Slots(w, id) : Ahead(s, u) = Ahead(s, t) - 1
  BY <1>1, <1>2, TickAhead
<1>4. \A s \in Slots(w, id) : Ahead(s, t) \in 1 .. Capacity - 1
  <2> TAKE s \in Slots(w, id)
  <2>1. Ahead(s, t) \in 0 .. Capacity - 1 /\ Ahead(s, t) # 0
    BY <1>2, AheadIs
  <2> QED
    BY <2>1
<1> HIDE DEF u
<1>5. \A s \in Slots(w, id) : Ahead(s, u) <= Ahead(r, t) - 1
  BY <1>1, <1>3, <1>4
<1>6. Furthest(w, u, id) = Ahead(r, t) - 1
  BY <1>3, <1>5, FurthestIs
<1> QED
  BY <1>1, <1>4, <1>6 DEF u

(* What the proofs below know of a state: the timers in the slots are the  *)
(* ones in _timers, and none is further ahead than its own delay, so that  *)
(* a refresh always puts it further ahead than it was.                     *)
NotBeyond == \A id \in Id : TicksLeft(id) <= timeout[id]

CountInv ==
  TypeOK /\ TimersMatchTasks /\ HandSlotEmpty /\ NoTimerLost /\ NotBeyond

ShortDelays == \A d \in Delay : d < Capacity

(* TicksLeft after a step. *)
LEMMA TicksLeftNext ==
  ASSUME NEW id
  PROVE  TicksLeft(id)' = Furthest(wheel', tick', id)
BY DEF TicksLeft, Furthest, TicksTo, Ahead, Slots

(* A timer that _timers does not know, or whose callback runs, is in no    *)
(* slot, and one that it knows is in some.                                 *)
LEMMA KnownIsHeld ==
  ASSUME CountInv, NEW id \in Id
  PROVE  /\ id \in timers /\ firing # id => Slots(wheel, id) # {}
         /\ id \notin timers \/ firing = id => TicksLeft(id) = 0
<1>1. Held(id) <=> Slots(wheel, id) # {}
  BY DEF CountInv, NoTimerLost, Held, Slots
<1>2. /\ id \in timers <=> Held(id) \/ firing = id
      /\ firing = id => ~Held(id)
  BY WheelAssumption DEF CountInv, TimersMatchTasks
<1>3. Slots(wheel, id) = {} => TicksLeft(id) = 0
  BY FurthestNone, TicksLeftIs
<1> QED
  BY <1>1, <1>2, <1>3

(* A push decides how far its timer is, and moves no other. *)
LEMMA PushCounts ==
  ASSUME CountInv, NEW id \in Id, NEW d \in 1 .. Capacity - 1, TicksLeft(id) <= d,
         PushBack(id, d), tick' = tick
  PROVE  /\ TicksLeft(id)' = d
         /\ \A x \in Id \ {id} : TicksLeft(x)' = TicksLeft(x)
<1>1. tick \in Slot /\ wheel \in [Slot -> SUBSET Id]
  BY DEF CountInv, TypeOK
<1>2. Pushed(wheel, wheel', tick, id, d)
  BY <1>1, SlotIsNotHand DEF PushBack, Pushed
<1>3. Furthest(wheel, tick, id) <= d
  BY TicksLeftIs
<1>4. /\ Furthest(wheel', tick, id) = d
      /\ \A x \in Id \ {id} : Furthest(wheel', tick, x) = Furthest(wheel, tick, x)
  BY <1>1, <1>2, <1>3, FurthestPushed
<1>5. \A x \in Id : /\ TicksLeft(x)' = Furthest(wheel', tick, x)
                    /\ TicksLeft(x) = Furthest(wheel, tick, x)
  BY TicksLeftIs, TicksLeftNext
<1> QED
  BY <1>4, <1>5

(* clear() moves no timer that is still to fire. *)
LEMMA ReleaseCounts ==
  ASSUME CountInv, NEW id \in Id, ReleaseTimer(id)
  PROVE  /\ \A x \in Id : TicksLeft(x)' = TicksLeft(x)
         /\ ~HeldElsewhere(id) => TicksLeft(id) = 0
<1>1. tick \in Slot /\ wheel \in [Slot -> SUBSET Id]
  BY DEF CountInv, TypeOK
<1>2. Released(wheel, wheel', tick, id) /\ tick' = tick
  BY DEF ReleaseTimer, Released
<1>3. /\ \A x \in Id : Furthest(wheel', tick, x) = Furthest(wheel, tick, x)
      /\ (\A s \in Slot \ {tick} : id \notin wheel[s]) => Furthest(wheel, tick, id) = 0
  BY <1>1, <1>2, FurthestReleased
<1>4. \A x \in Id : /\ TicksLeft(x)' = Furthest(wheel', tick, x)
                    /\ TicksLeft(x) = Furthest(wheel, tick, x)
  BY <1>2, TicksLeftIs, TicksLeftNext
<1> QED
  BY <1>3, <1>4 DEF HeldElsewhere

(* A tick brings each timer one closer, and each had at least one to go. *)
LEMMA TickCounts ==
  ASSUME CountInv, RunTimerTask, NEW id \in Id
  PROVE  IF id \in timers THEN TicksLeft(id) \in 1 .. Capacity - 1
                               /\ TicksLeft(id)' = TicksLeft(id) - 1
                          ELSE TicksLeft(id) = 0 /\ TicksLeft(id)' = 0
<1>1. /\ tick \in Slot /\ wheel \in [Slot -> SUBSET Id] /\ firing # id
      /\ wheel[tick] = {} /\ wheel' = wheel /\ tick' = (tick + 1) % Capacity
  BY WheelAssumption DEF CountInv, TypeOK, HandSlotEmpty, RunTimerTask
<1>2. /\ TicksLeft(id) = Furthest(wheel, tick, id)
      /\ TicksLeft(id)' = Furthest(wheel, tick', id)
  BY <1>1, TicksLeftIs, TicksLeftNext
<1>3. CASE id \in timers
  <2>1. Slots(wheel, id) # {}
    BY <1>1, <1>3, KnownIsHeld
  <2>2. /\ Furthest(wheel, tick, id) \in 1 .. Capacity - 1
        /\ Furthest(wheel, (tick + 1) % Capacity, id) = Furthest(wheel, tick, id) - 1
    BY <1>1, <2>1, FurthestTick
  <2> QED
    BY <1>1, <1>2, <1>3, <2>2
<1>4. CASE id \notin timers
  <2>1. Slots(wheel, id) = {}
    BY <1>1, <1>4 DEF CountInv, TimersMatchTasks, Held, Slots
  <2> QED
    BY <1>2, <1>4, <2>1, FurthestNone
<1> QED
  BY <1>3, <1>4

(* Each step of the wheel that does not touch it moves no timer. *)
LEMMA RestCounts ==
  ASSUME UNCHANGED <<tick, wheel>>, NEW id
  PROVE  TicksLeft(id)' = TicksLeft(id)
BY DEF TicksLeft, TicksTo

(* No timer is further ahead than its delay. *)
LEMMA NotBeyondStep ==
  ASSUME ShortDelays, CountInv, [Next]_vars
  PROVE  NotBeyond'
<1> SUFFICES ASSUME NEW x \in Id PROVE TicksLeft(x)' <= timeout'[x]
  BY DEF NotBeyond
<1>1. TicksLeft(x) <= timeout[x] /\ timeout \in [Id -> Delay]
  BY DEF CountInv, NotBeyond, TypeOK
<1>2. \A d \in Delay : d \in 1 .. Capacity - 1
  BY WheelAssumption DEF ShortDelays
<1>3. CASE SecondPasses \/ OnTime \/ CallbackReturns \/ ClearReturns \/ UNCHANGED vars
  <2>1. UNCHANGED <<tick, wheel, timeout>>
    BY <1>3 DEF SecondPasses, OnTime, CallbackReturns, ClearReturns, vars, wheelVars
  <2> QED
    BY <1>1, <2>1, RestCounts
<1>4. CASE RunTimerTask
  <2>1. timeout' = timeout
    BY <1>4 DEF RunTimerTask
  <2>2. timeout[x] \in Nat
    BY <1>1, WheelAssumption
  <2> DEFINE n == TicksLeft(x)
             m == timeout[x]
  <2>3. CASE x \in timers
    <3>1. n \in 1 .. Capacity - 1 /\ TicksLeft(x)' = n - 1
      BY <1>4, <2>3, TickCounts
    <3> HIDE DEF n, m
    <3>2. n <= m /\ n \in Int /\ m \in Nat
      BY <1>1, <2>2, <3>1, WheelAssumption DEF n, m
    <3>3. n - 1 <= m
      BY <3>2
    <3> QED
      BY <2>1, <3>1, <3>3 DEF m
  <2>4. CASE x \notin timers
    BY <1>4, <2>1, <2>2, <2>4, TickCounts
  <2> QED
    BY <2>3, <2>4
<1>5. ASSUME NEW id \in Id, ReleaseTimer(id)
      PROVE  TicksLeft(x)' <= timeout'[x]
  BY <1>1, <1>5, ReleaseCounts DEF ReleaseTimer
<1>6. ASSUME NEW id \in Id, NEW d \in Delay, TimerAddInLoop(id, d)
      PROVE  TicksLeft(x)' <= timeout'[x]
  <2>1. /\ PushBack(id, d) /\ tick' = tick /\ id \notin timers
        /\ timeout' = [timeout EXCEPT ![id] = d] /\ d \in 1 .. Capacity - 1
    BY <1>2, <1>6 DEF TimerAddInLoop
  <2>2. TicksLeft(id) = 0
    BY <2>1, KnownIsHeld
  <2>3. TicksLeft(id) <= d
    BY <2>1, <2>2
  <2>4. TicksLeft(id)' = d /\ \A y \in Id \ {id} : TicksLeft(y)' = TicksLeft(y)
    BY <2>1, <2>3, PushCounts
  <2>5. CASE x = id
    BY <1>1, <2>1, <2>4, <2>5
  <2>6. CASE x # id
    BY <1>1, <2>1, <2>4, <2>6
  <2> QED
    BY <2>5, <2>6
<1>7. ASSUME NEW id \in Id, TimerRefreshInLoop(id)
      PROVE  TicksLeft(x)' <= timeout'[x]
  <2>1. PushBack(id, timeout[id]) /\ tick' = tick /\ timeout' = timeout
    BY <1>7 DEF TimerRefreshInLoop
  <2>2. TicksLeft(id) <= timeout[id] /\ timeout[id] \in 1 .. Capacity - 1
    BY <1>1, <1>2 DEF CountInv, NotBeyond
  <2>3. TicksLeft(id)' = timeout[id] /\ \A y \in Id \ {id} : TicksLeft(y)' = TicksLeft(y)
    BY <2>1, <2>2, PushCounts
  <2>4. CASE x = id
    BY <2>1, <2>2, <2>3, <2>4
  <2>5. CASE x # id
    BY <1>1, <2>1, <2>3, <2>5
  <2> QED
    BY <2>4, <2>5
<1>8. ASSUME NEW id \in Id, TimerCancelInLoop(id)
      PROVE  TicksLeft(x)' <= timeout'[x]
  <2>1. UNCHANGED <<tick, wheel, timeout>>
    BY <1>8 DEF TimerCancelInLoop
  <2> QED
    BY <1>1, <2>1, RestCounts
<1> QED
  BY <1>3, <1>4, <1>5, <1>6, <1>7, <1>8 DEF Next, WheelStep, Operation
-----------------------------------------------------------------------------
(* The state of the TimerService. *)
Status == [id \in Id |-> StatusOf(id)]
Left == [id \in Id |-> TicksLeft(id)]

(* What StatusOf looks at, of one timer. *)
StatusIn(f, ts, cs, id) ==
  IF f = id THEN "firing" ELSE IF id \notin ts THEN "off"
  ELSE IF id \in cs THEN "cancelled" ELSE "armed"

(* StatusOf's conditions exclude each other, before a step ... *)
LEMMA StatusIs ==
  ASSUME CountInv, NEW id \in Id
  PROVE  StatusOf(id) = StatusIn(firing, timers, cancelled, id)
<1>1. cancelled \subseteq timers /\ firing \notin cancelled /\ (firing = id => id \in timers)
  BY DEF CountInv, TypeOK, TimersMatchTasks
<1> QED
  BY <1>1 DEF StatusOf, StatusIn

(* ... and after it. *)
LEMMA StatusNext ==
  ASSUME CountInv', NEW id \in Id
  PROVE  StatusOf(id)' = StatusIn(firing', timers', cancelled', id)
<1>1. /\ cancelled' \subseteq timers' /\ firing' \notin cancelled'
      /\ firing' = id => id \in timers'
  BY DEF CountInv, TypeOK, TimersMatchTasks
<1> QED
  BY <1>1 DEF StatusOf, StatusIn

(* What a step leaves as it is. *)
LEMMA StatusSame ==
  ASSUME UNCHANGED <<firing, timers, cancelled>>
  PROVE  Status' = Status
BY DEF Status, StatusOf

(* Every step of the wheel is a step of the service, or none. *)
LEMMA WheelImplementsStep ==
  ASSUME ShortDelays, CountInv, CountInv', [Next]_vars
  PROVE  [Service!Next]_(Service!vars)
<1> USE DEF Status, Left
<1>1. \A x \in Id : /\ Status[x] = StatusIn(firing, timers, cancelled, x)
                    /\ Status'[x] = StatusIn(firing', timers', cancelled', x)
                    /\ Left[x] = TicksLeft(x) /\ Left'[x] = TicksLeft(x)'
  BY StatusIs, StatusNext
<1>2. /\ Status = [x \in Id |-> Status[x]] /\ Status' = [x \in Id |-> Status'[x]]
      /\ Left = [x \in Id |-> Left[x]] /\ Left' = [x \in Id |-> Left'[x]]
  OBVIOUS
<1>3. /\ None \notin Id /\ timeout \in [Id -> Delay] /\ cancelled \subseteq timers
      /\ timers \subseteq Id /\ firing \in Id \cup {None} /\ firing \notin cancelled
      /\ (firing # None => firing \in timers)
  BY WheelAssumption DEF CountInv, TypeOK, TimersMatchTasks
<1>4. \A d \in Delay : d \in 1 .. Capacity - 1
  BY WheelAssumption DEF ShortDelays
<1>5. UNCHANGED <<Status, timeout, Left>> => UNCHANGED Service!vars
  BY DEF Service!vars
<1> HIDE DEF Status, Left
<1>6. CASE SecondPasses \/ OnTime \/ ClearReturns \/ UNCHANGED vars
  <2>1. UNCHANGED wheelVars
    BY <1>6 DEF SecondPasses, OnTime, ClearReturns, vars, wheelVars
  <2>2. UNCHANGED <<tick, wheel, firing, timers, cancelled, timeout>>
    BY <2>1 DEF wheelVars
  <2>3. Left' = Left
    BY <1>1, <1>2, <2>2, RestCounts
  <2> QED
    BY <1>5, <2>2, <2>3, StatusSame
<1>7. CASE RunTimerTask
  <2>1. UNCHANGED <<firing, timers, cancelled, timeout>> /\ firing = None
    BY <1>7 DEF RunTimerTask, CountInv, TypeOK
  <2>2. Status' = Status
    BY <2>1, StatusSame
  <2>3. \A x \in Id : /\ Status[x] # "firing"
                      /\ Status[x] \in {"armed", "cancelled"} <=> x \in timers
    BY <1>1, <1>3, <2>1 DEF StatusIn
  <2>4. ASSUME NEW x \in Id
        PROVE  /\ x \in timers => Left[x] # 0 /\ Left'[x] = Left[x] - 1
               /\ x \notin timers => Left'[x] = Left[x]
    BY <1>1, <1>7, TickCounts
  <2>5. Left' = [x \in Id |-> IF x \in timers THEN Left[x] - 1 ELSE Left[x]]
    BY <1>2, <2>4
  <2>6. Service!Quiet /\ \A x \in Id : ~Service!Due(x)
    BY <2>3, <2>4 DEF Service!Quiet, Service!Due, Service!Live, Status, Left
  <2>7. \A x \in Id : Service!Live(x) <=> x \in timers
    BY <2>3 DEF Service!Live, Status
  <2>8. Left' = [x \in Id |-> IF Service!Live(x) THEN Left[x] - 1 ELSE Left[x]]
    BY <2>5, <2>7
  <2>9. Service!Tick
    BY <2>1, <2>2, <2>6, <2>8 DEF Service!Tick, Status, Left
  <2> QED
    BY <2>9 DEF Service!Next
<1>8. ASSUME NEW id \in Id, ReleaseTimer(id)
      PROVE  [Service!Next]_(Service!vars)
  <2>1. Left' = Left
    BY <1>1, <1>2, <1>8, ReleaseCounts
  <2>2. firing = None /\ timeout' = timeout /\ id \in timers
    BY <1>8 DEF ReleaseTimer, CountInv, TimersMatchTasks, TypeOK, Held
  <2>3. \A x \in Id : Status[x] # "firing"
    BY <1>1, <1>3, <2>2 DEF StatusIn
  <2>4. CASE HeldElsewhere(id)
    <3>1. UNCHANGED <<firing, timers, cancelled>>
      BY <1>8, <2>4 DEF ReleaseTimer
    <3> QED
      BY <1>5, <2>1, <2>2, <3>1, StatusSame
  <2>5. CASE ~HeldElsewhere(id)
    <3>1. Left[id] = 0
      BY <1>1, <1>8, <2>5, ReleaseCounts
    <3>2. CASE id \in cancelled
      <4>1. /\ timers' = timers \ {id} /\ cancelled' = cancelled \ {id}
            /\ firing' = firing
        BY <1>8, <2>5, <3>2 DEF ReleaseTimer
      <4>2. Status[id] = "cancelled"
        BY <1>1, <1>3, <2>2, <3>2 DEF StatusIn
      <4>3. \A x \in Id : Status'[x] = IF x = id THEN "off" ELSE Status[x]
        BY <1>1, <1>3, <2>2, <4>1 DEF StatusIn
      <4>4. Status' = [Status EXCEPT ![id] = "off"]
        BY <1>2, <4>3
      <4>5. Service!Drop(id)
        BY <2>1, <2>2, <2>3, <3>1, <4>2, <4>4
        DEF Service!Drop, Service!Quiet, Service!Due, Service!Live, Status, Left
      <4> QED
        BY <4>5 DEF Service!Next, Service!Expiry
    <3>3. CASE id \notin cancelled
      <4>1. firing' = id /\ UNCHANGED <<timers, cancelled>>
        BY <1>8, <2>5, <3>3 DEF ReleaseTimer
      <4>2. Status[id] = "armed"
        BY <1>1, <1>3, <2>2, <3>3 DEF StatusIn
      <4>3. \A x \in Id : Status'[x] = IF x = id THEN "firing" ELSE Status[x]
        BY <1>1, <1>3, <2>2, <4>1 DEF StatusIn
      <4>4. Status' = [Status EXCEPT ![id] = "firing"]
        BY <1>2, <4>3
      <4>5. Service!Fire(id)
        BY <2>1, <2>2, <2>3, <3>1, <4>2, <4>4
        DEF Service!Fire, Service!Quiet, Service!Due, Service!Live, Status, Left
      <4> QED
        BY <4>5 DEF Service!Next, Service!Expiry
    <3> QED
      BY <3>2, <3>3
  <2> QED
    BY <2>4, <2>5
<1>9. CASE CallbackReturns
  <2>1. /\ firing \in Id /\ timers' = timers \ {firing} /\ firing' = None
        /\ UNCHANGED <<tick, wheel, cancelled, timeout>>
    BY <1>3, <1>9 DEF CallbackReturns
  <2>2. Left' = Left
    BY <1>1, <1>2, <2>1, RestCounts
  <2>3. Status[firing] = "firing"
    BY <1>1, <2>1 DEF StatusIn
  <2>4. \A x \in Id : Status'[x] = IF x = firing THEN "off" ELSE Status[x]
    BY <1>1, <1>3, <2>1 DEF StatusIn
  <2>5. Status' = [Status EXCEPT ![firing] = "off"]
    BY <1>2, <2>4
  <2>6. Service!Return(firing)
    BY <2>1, <2>2, <2>3, <2>5 DEF Service!Return, Status, Left
  <2> QED
    BY <2>1, <2>6 DEF Service!Next, Service!Expiry
<1>10. ASSUME NEW id \in Id, NEW d \in Delay, TimerAddInLoop(id, d)
       PROVE  [Service!Next]_(Service!vars)
  <2>1. /\ PushBack(id, d) /\ tick' = tick /\ id \notin timers /\ firing # id
        /\ timeout' = [timeout EXCEPT ![id] = d] /\ d \in 1 .. Capacity - 1
        /\ timers' = timers \cup {id} /\ UNCHANGED <<cancelled, firing>>
    BY <1>3, <1>4, <1>10 DEF TimerAddInLoop, MayOperate
  <2>2. TicksLeft(id) <= d
    <3>1. TicksLeft(id) = 0
      BY <2>1, KnownIsHeld
    <3> QED
      BY <2>1, <3>1
  <2>3. TicksLeft(id)' = d /\ \A y \in Id \ {id} : TicksLeft(y)' = TicksLeft(y)
    BY <2>1, <2>2, PushCounts
  <2>4. Left' = [Left EXCEPT ![id] = d]
    BY <1>1, <1>2, <2>3
  <2>5. Status[id] = "off"
    BY <1>1, <2>1 DEF StatusIn
  <2>6. \A x \in Id : Status'[x] = IF x = id THEN "armed" ELSE Status[x]
    BY <1>1, <1>3, <2>1 DEF StatusIn
  <2>7. Status' = [Status EXCEPT ![id] = "armed"]
    BY <1>2, <2>6
  <2>8. Service!Add(id, d)
    BY <2>1, <2>4, <2>5, <2>7 DEF Service!Add, Status, Left
  <2> QED
    BY <2>8 DEF Service!Next, Service!Operation
<1>11. ASSUME NEW id \in Id, TimerRefreshInLoop(id)
       PROVE  [Service!Next]_(Service!vars)
  <2>1. /\ PushBack(id, timeout[id]) /\ tick' = tick /\ id \in timers /\ firing # id
        /\ UNCHANGED <<timeout, timers, cancelled, firing>>
    BY <1>3, <1>11 DEF TimerRefreshInLoop, MayOperate
  <2>2. TicksLeft(id) <= timeout[id] /\ timeout[id] \in 1 .. Capacity - 1
    BY <1>3, <1>4 DEF CountInv, NotBeyond
  <2>3. TicksLeft(id)' = timeout[id] /\ \A y \in Id \ {id} : TicksLeft(y)' = TicksLeft(y)
    BY <2>1, <2>2, PushCounts
  <2>4. Left' = [Left EXCEPT ![id] = timeout[id]]
    BY <1>1, <1>2, <2>3
  <2>5. Status[id] \in {"armed", "cancelled"}
    BY <1>1, <2>1 DEF StatusIn
  <2>6. Status' = Status
    BY <2>1, StatusSame
  <2>7. Service!Refresh(id)
    BY <2>1, <2>4, <2>5, <2>6 DEF Service!Refresh, Service!Live, Status, Left
  <2> QED
    BY <2>7 DEF Service!Next, Service!Operation
<1>12. ASSUME NEW id \in Id, TimerCancelInLoop(id)
       PROVE  [Service!Next]_(Service!vars)
  <2>1. /\ id \in timers /\ firing # id /\ cancelled' = cancelled \cup {id}
        /\ UNCHANGED <<tick, wheel, timers, timeout, firing>>
    BY <1>3, <1>12 DEF TimerCancelInLoop, MayOperate
  <2>2. Left' = Left
    BY <1>1, <1>2, <2>1, RestCounts
  <2>3. Status[id] \in {"armed", "cancelled"}
    BY <1>1, <2>1 DEF StatusIn
  <2>4. \A x \in Id : Status'[x] = IF x = id THEN "cancelled" ELSE Status[x]
    BY <1>1, <2>1 DEF StatusIn
  <2>5. Status' = [Status EXCEPT ![id] = "cancelled"]
    BY <1>2, <2>4
  <2>6. Service!Cancel(id)
    BY <2>1, <2>2, <2>3, <2>5 DEF Service!Cancel, Service!Live, Status, Left
  <2> QED
    BY <2>6 DEF Service!Next, Service!Operation
<1> QED
  BY <1>6, <1>7, <1>8, <1>9, <1>10, <1>11, <1>12 DEF Next, WheelStep, Operation

(* The wheel implements the countdowns, as long as every delay is shorter  *)
(* than a turn: a timer fires exactly on the tick that its last refresh    *)
(* put it to, never once it has been cancelled, and all that are due fire  *)
(* before the next tick, whatever their callbacks do to other timers.      *)
THEOREM WheelCountsDown ==
  ASSUME ShortDelays
  PROVE  Spec => TimersCountDown
<1>1. Init => Service!Init
  <2> SUFFICES ASSUME Init PROVE Service!Init
    OBVIOUS
  <2>1. \A id \in Id : StatusOf(id) = "off"
    BY WheelAssumption DEF Init, StatusOf
  <2>2. \A id \in Id : TicksLeft(id) = 0
    BY FurthestNone, TicksLeftIs DEF Init, Slots
  <2> QED
    BY <2>1, <2>2 DEF Init, Service!Init
<1>2. Init => NotBeyond
  <2>1. Init => \A id \in Id : TicksLeft(id) = 0
    BY FurthestNone, TicksLeftIs DEF Init, Slots
  <2>2. Init => \A id \in Id : timeout[id] \in Nat
    BY WheelAssumption DEF Init
  <2>3. \A n \in Nat : 0 <= n
    OBVIOUS
  <2> QED
    BY <2>1, <2>2, <2>3, Zenon DEF NotBeyond
<1>3. Spec => [](HandSlotEmpty /\ NoTimerLost)
  BY NothingLost DEF ShortDelays
<1>4. CountInv /\ [Next]_vars => NotBeyond'
  BY NotBeyondStep
<1>5. CountInv /\ CountInv' /\ [Next]_vars => [Service!Next]_(Service!vars)
  BY WheelImplementsStep
<1>6. Spec => []CountInv
  BY <1>2, <1>3, <1>4, WheelTypeCorrect, TimersMatch, PTL DEF Spec, CountInv
<1> QED
  BY <1>1, <1>5, <1>6, PTL DEF Spec, TimersCountDown, Service!Spec
=============================================================================
