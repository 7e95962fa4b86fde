------------------------ MODULE LoopThreadPoolProofs ------------------------
(* Proofs about LoopThreadPool, for any number of threads. *)
EXTENDS LoopThreadPool, TLAPS

Creating == {"construct", "spawn", "lock", "check", "blocked", "store"}

(* Where Create() is when it has made the loops below idx, and NextLoop in *)
(* its round.                                                              *)
Progress ==
  /\ main = "setup" => idx = 0
  /\ main \in Creating => idx < threadCount
  /\ main = "running" => idx = threadCount
  /\ main # "running" => nextIdx = 0
  /\ threadCount > 0 => nextIdx < threadCount

(* The thread of index i has built its loop and set _loop to it. *)
Published(i) == pointer[i] = i /\ entry[i] \in {"unlock", "running"}

(* The threads below idx are done, those above not started, and the one of *)
(* idx is on its way, its _loop either NULL or already its own.            *)
ThreadsInOrder ==
  /\ \A i \in Index : i < idx => loops[i] = i /\ Published(i)
  /\ \A i \in Index : i > idx => entry[i] = "none"
  /\ main \in {"setup", "construct", "spawn"} =>
       \A i \in Index : i = idx => entry[i] = "none"
  /\ main \in Creating \ {"construct"} => pointer[idx] = NULL \/ Published(idx)
  /\ main = "store" => Published(idx)

(* Only the main thread waits, and only while it is blocked. *)
WaiterIsMain == \A i \in waiting : main = "blocked" /\ i = idx

HandshakeInv == TypeOK /\ Progress /\ ThreadsInOrder /\ WaiterIsMain

(* The loops the present round has already served have one connection more *)
(* than the others.                                                        *)
Extra(i) == IF i \in 1 .. nextIdx THEN 1 ELSE 0

BalanceInv ==
  /\ main # "running" => \A l \in Index \cup {Base} : given[l] = 0
  /\ \A i, j \in 0 .. threadCount - 1 :
       given[i] - given[j] = Extra(i) - Extra(j)
  /\ given[Base] > 0 => threadCount = 0
-----------------------------------------------------------------------------
(* The ring index of NextLoop. *)
LEMMA NextIndex ==
  ASSUME NEW n \in Nat \ {0}, NEW k \in 0 .. n - 1
  PROVE  (k + 1) % n = IF k + 1 = n THEN 0 ELSE k + 1
  OBVIOUS

(* No start-up of the pool, whatever the two threads' order, leaves the    *)
(* types or the order in which Create() makes the threads.                 *)
LEMMA HandshakeInit == Init => HandshakeInv
  BY PoolAssumption
  DEF Init, HandshakeInv, TypeOK, Progress, Creating, ThreadsInOrder,
      Published, WaiterIsMain, Index

(* Each step of the main thread and of the others keeps it. *)
LEMMA HandshakeStep == HandshakeInv /\ [Next]_vars => HandshakeInv'
<1> SUFFICES ASSUME HandshakeInv, [Next]_vars
             PROVE  HandshakeInv'
  OBVIOUS
<1> USE PoolAssumption
    DEF HandshakeInv, TypeOK, Progress, Creating, ThreadsInOrder, Published,
        WaiterIsMain, Index
<1>1. ASSUME NEW count \in 0 .. MaxThreads, SetThreadCount(count)
      PROVE  HandshakeInv'
  BY <1>1 DEF SetThreadCount
<1>2. CASE Create
  BY <1>2 DEF Create
<1>3. CASE ConstructLoop
  BY <1>3 DEF ConstructLoop
<1>4. CASE SpawnThread
  BY <1>4 DEF SpawnThread
<1>5. CASE LockMain
  BY <1>5 DEF LockMain
<1>6. CASE CheckLoop
  <2>1. CASE pointer[idx] # NULL
    BY <1>6, <2>1 DEF CheckLoop
  <2>2. CASE pointer[idx] = NULL
    <3>1. main' = "blocked" /\ waiting' = waiting \cup {idx} /\ idx \in Index
      BY <1>6, <2>2 DEF CheckLoop
    <3>2. waiting = {}
      BY <1>6 DEF CheckLoop
    <3> QED  BY <1>6, <2>2, <3>1, <3>2 DEF CheckLoop
  <2> QED  BY <2>1, <2>2
<1>7. CASE SpuriousWakeup
  BY <1>7 DEF SpuriousWakeup
<1>8. CASE StoreLoop
  BY <1>8 DEF StoreLoop
<1>9. ASSUME NEW i \in Index, LockEntry(i)
      PROVE  HandshakeInv'
  BY <1>9 DEF LockEntry
<1>10. ASSUME NEW i \in Index, PublishLoop(i)
       PROVE  HandshakeInv'
  BY <1>10 DEF PublishLoop
<1>11. ASSUME NEW i \in Index, StartLoop(i)
       PROVE  HandshakeInv'
  BY <1>11 DEF StartLoop
<1>12. CASE NextLoop
  <2>1. /\ nextIdx' \in 0 .. threadCount
        /\ threadCount > 0 => nextIdx' < threadCount
    BY <1>12, NextIndex DEF NextLoop, Advance
  <2>2. PICK l \in Index \cup {Base} : given' = [given EXCEPT ![l] = @ + 1]
    <3>1. CASE threadCount = 0
      BY <1>12, <3>1 DEF NextLoop
    <3>2. CASE threadCount > 0
      <4>1. Advance \in Index /\ Advance < idx
        BY <1>12, <3>2, NextIndex DEF NextLoop, Advance
      <4>2. loops[Advance] = Advance
        BY <4>1
      <4> QED  BY <1>12, <3>2, <4>1, <4>2 DEF NextLoop
    <3>3. threadCount \in Nat
      BY PoolAssumption DEF TypeOK
    <3>4. threadCount = 0 \/ threadCount > 0
      BY <3>3
    <3> HIDE <1>12
    <3> QED  BY Zenon, <3>1, <3>2, <3>4
  <2>3. given[l] < MaxConns
    BY <1>12 DEF NextLoop
  <2>4. given[l] + 1 \in 0 .. MaxConns
    BY <2>3
  <2>5. given' \in [Index \cup {Base} -> 0 .. MaxConns]
    BY <2>2, <2>4
  <2> QED  BY <1>12, <2>1, <2>5 DEF NextLoop
<1>13. CASE UNCHANGED vars
  BY <1>13 DEF vars
<1> QED
  BY <1>1, <1>2, <1>3, <1>4, <1>5, <1>6, <1>7, <1>8, <1>9, <1>10, <1>11,
     <1>12, <1>13 DEF Next, CreateStep, EntryStep

(* The handshake's invariant holds however the main thread and the new     *)
(* threads interleave.                                                     *)
THEOREM HandshakeInvariant == Spec => []HandshakeInv
BY HandshakeInit, HandshakeStep, PTL DEF Spec

(* The state of the start-up keeps its type: no uninitialized pointer is   *)
(* ever stored in the pool's vector, and no index leaves it.               *)
THEOREM PoolTypeCorrect == Spec => []TypeOK
<1>1. HandshakeInv => TypeOK
  BY DEF HandshakeInv
<1> QED  BY <1>1, HandshakeInvariant, PTL

(* Create() hands out only loops that are built, each by its own thread,   *)
(* for any number of threads and any interleaving.                         *)
THEOREM LoopsBuilt == Spec => []LoopsAreBuilt
<1>1. HandshakeInv => LoopsAreBuilt
  BY DEF HandshakeInv, ThreadsInOrder, Published, LoopsAreBuilt
<1> QED  BY <1>1, HandshakeInvariant, PTL
-----------------------------------------------------------------------------
(* An index into the loops in use is one into all loops. *)
LEMMA IndexBelow ==
  ASSUME NEW m \in Nat, NEW n \in 0 .. m, NEW i \in 0 .. n - 1
  PROVE  i \in 0 .. m - 1
  OBVIOUS

(* At first no loop has a connection. *)
LEMMA BalanceInit == Init => BalanceInv
<1>1. ASSUME Init, NEW i \in 0 .. threadCount - 1
      PROVE  FALSE
  BY <1>1 DEF Init
<1> QED  BY <1>1 DEF Init, BalanceInv, Index

(* Only NextLoop, once the loops are built, gives a connection away. *)
LEMMA BalanceStep ==
  HandshakeInv /\ BalanceInv /\ [Next]_vars => BalanceInv'
<1> SUFFICES ASSUME HandshakeInv, BalanceInv, [Next]_vars
             PROVE  BalanceInv'
  OBVIOUS
<1> USE PoolAssumption DEF HandshakeInv, TypeOK, Progress, Creating
<1>1. ASSUME NEW count \in 0 .. MaxThreads, SetThreadCount(count)
      PROVE  BalanceInv'
  <2>1. nextIdx' = 0 /\ given' = given /\ main' # "running"
    BY <1>1 DEF SetThreadCount
  <2>2. \A l \in Index \cup {Base} : given[l] = 0
    BY <1>1 DEF SetThreadCount, BalanceInv
  <2>3. threadCount' \in 0 .. MaxThreads
    BY <1>1 DEF SetThreadCount
  <2>4. ASSUME NEW i \in 0 .. threadCount' - 1
        PROVE  given'[i] = 0 /\ Extra(i)' = 0
    <3>1. i \in Index
      BY <2>3, IndexBelow DEF Index
    <3> QED  BY <2>1, <2>2, <3>1 DEF Extra
  <2>5. given'[Base] = 0
    BY <2>1, <2>2
  <2> QED  BY <2>1, <2>2, <2>4, <2>5 DEF BalanceInv
<1>2. CASE CreateStep \/ SpuriousWakeup \/ \E i \in Index : EntryStep(i)
  <2>1. UNCHANGED <<threadCount, nextIdx, given>>
    BY <1>2 DEF CreateStep, Create, ConstructLoop, SpawnThread, LockMain,
         CheckLoop, StoreLoop, SpuriousWakeup, EntryStep, LockEntry,
         PublishLoop, StartLoop
  <2>2. main' # "running" => main # "running"
    BY <1>2 DEF CreateStep, Create, ConstructLoop, SpawnThread, LockMain,
         CheckLoop, StoreLoop, SpuriousWakeup, EntryStep, LockEntry,
         PublishLoop, StartLoop, WaiterIsMain
  <2> QED  BY <2>1, <2>2 DEF BalanceInv, Extra
<1>3. CASE NextLoop
  <2>1. CASE threadCount = 0
    BY <1>3, <2>1 DEF NextLoop, BalanceInv, Extra
  <2>2. CASE threadCount > 0
    <3>1. Advance = IF nextIdx + 1 = threadCount THEN 0 ELSE nextIdx + 1
      <4>1. threadCount \in Nat \ {0} /\ nextIdx \in 0 .. threadCount - 1
        BY <2>2
      <4> QED  BY <4>1, NextIndex DEF Advance
    <3>2. /\ Advance \in 0 .. threadCount - 1 /\ Advance \in Index
          /\ Base \notin Index
      BY <2>2, <3>1 DEF Index
    <3>3. loops[Advance] = Advance
      BY <1>3, <3>2 DEF NextLoop, ThreadsInOrder
    <3>4. given' = [given EXCEPT ![Advance] = @ + 1] /\ nextIdx' = Advance
      BY <1>3, <2>2, <3>3 DEF NextLoop
    <3>5. ASSUME NEW i \in 0 .. threadCount - 1, NEW j \in 0 .. threadCount - 1
          PROVE  given'[i] - given'[j] = Extra(i)' - Extra(j)'
      <4>1. i \in Index /\ j \in Index
        BY DEF Index
      <4>2. given[i] - given[j] = Extra(i) - Extra(j)
        BY DEF BalanceInv
      <4> QED  BY <3>1, <3>2, <3>4, <4>1, <4>2 DEF Extra
    <3> QED  BY <1>3, <2>2, <3>2, <3>4, <3>5 DEF NextLoop, BalanceInv
  <2> QED  BY <2>1, <2>2
<1>4. CASE UNCHANGED vars
  BY <1>4 DEF vars, BalanceInv, Extra
<1> QED  BY <1>1, <1>2, <1>3, <1>4 DEF Next

(* The loops share the connections evenly, for any number of threads and   *)
(* of rounds.                                                              *)
THEOREM Balanced == Spec => []ConnectionsAreBalanced
<1>1. HandshakeInv /\ BalanceInv => ConnectionsAreBalanced
  BY DEF HandshakeInv, TypeOK, Index, BalanceInv, Extra, ConnectionsAreBalanced
<1> QED
  BY <1>1, BalanceInit, BalanceStep, HandshakeInvariant, PTL DEF Spec
=============================================================================
