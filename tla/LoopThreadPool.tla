--------------------------- MODULE LoopThreadPool ---------------------------
(***************************************************************************)
(* The start-up of the pool of EventLoops (source/server.hpp).  Create(),  *)
(* on the main thread, makes one LoopThread after another and waits in     *)
(* GetLoop until the new thread has built its EventLoop on its own stack   *)
(* and published the pointer under the mutex.  Then the base loop runs and *)
(* gives each new connection to the NextLoop.                              *)
(***************************************************************************)
EXTENDS Integers

CONSTANTS
  MaxThreads,  \* bound on the argument of SetThreadCount
  Base,        \* _baseloop
  NULL,        \* the null pointer
  Garbage,     \* what a pointer holds before its constructor sets it
  MaxConns     \* bound on the connections given to one loop

ASSUME PoolAssumption ==
  /\ MaxThreads \in Nat /\ MaxConns \in Nat
  /\ {Base, NULL, Garbage} \cap (0 .. MaxThreads - 1) = {}
  /\ Base # NULL /\ NULL # Garbage /\ Base # Garbage

Index == 0 .. MaxThreads - 1

VARIABLES
  threadCount,  \* _thread_count
  idx,      \* Create()'s i
  main,     \* where Create() is: see TypeOK
  entry,    \* where each ThreadEntry is: see TypeOK
  pointer,  \* each LoopThread's _loop; a thread's loop is named by its index
  mutex,    \* the holder of each LoopThread's _mutex: "main", "entry", "free"
  waiting,  \* the LoopThreads on whose _cond the main thread waits
  loops,    \* _loops
  nextIdx,  \* _next_idx
  given     \* history: the connections each loop was given

vars ==
  <<threadCount, idx, main, entry, pointer, mutex, waiting, loops, nextIdx,
    given>>

TypeOK ==
  /\ threadCount \in 0 .. MaxThreads
  /\ idx \in 0 .. threadCount
  /\ main \in {"setup", "construct", "spawn", "lock", "check", "blocked", "store",
               "running"}
  /\ entry \in [Index -> {"none", "lock", "publish", "unlock", "running"}]
  /\ pointer \in [Index -> Index \cup {NULL, Garbage}]
  /\ mutex \in [Index -> {"main", "entry", "free"}]
  /\ waiting \subseteq Index
  /\ loops \in [Index -> Index \cup {NULL}]
  /\ nextIdx \in 0 .. threadCount
  /\ given \in [Index \cup {Base} -> 0 .. MaxConns]

Init ==
  /\ threadCount = 0
  /\ idx = 0
  /\ main = "setup"
  /\ entry = [i \in Index |-> "none"]
  /\ pointer = [i \in Index |-> Garbage]
  /\ mutex = [i \in Index |-> "free"]
  /\ waiting = {}
  /\ loops = [i \in Index |-> NULL]
  /\ nextIdx = 0
  /\ given = [l \in Index \cup {Base} |-> 0]
-----------------------------------------------------------------------------
SetThreadCount(count) ==
  /\ main = "setup"
  /\ threadCount' = count
  /\ UNCHANGED <<idx, main, entry, pointer, mutex, waiting, loops, nextIdx,
                 given>>

(* Called by TcpServer::Start; with no thread to start there is nothing to *)
(* do.                                                                     *)
Create ==
  /\ main = "setup"
  /\ main' = IF threadCount > 0 THEN "construct" ELSE "running"
  /\ UNCHANGED <<threadCount, idx, entry, pointer, mutex, waiting, loops,
                 nextIdx, given>>

(* Bug: _loop has no initializer. *)
ConstructUninitialized ==
  /\ main = "construct"
  /\ main' = "spawn"
  /\ UNCHANGED <<threadCount, idx, entry, pointer, mutex, waiting, loops,
                 nextIdx, given>>

(* The constructor of LoopThread initializes _loop and then starts the     *)
(* thread: the members are declared, and so constructed, in this order.    *)
ConstructLoop ==
  /\ main = "construct"
  /\ pointer' = [pointer EXCEPT ![idx] = NULL]
  /\ main' = "spawn"
  /\ UNCHANGED <<threadCount, idx, entry, mutex, waiting, loops, nextIdx, given>>

SpawnThread ==
  /\ main = "spawn"
  /\ entry' = [entry EXCEPT ![idx] = "lock"]
  /\ main' = "lock"
  /\ UNCHANGED <<threadCount, idx, pointer, mutex, waiting, loops, nextIdx, given>>

(* GetLoop locks _mutex, or locks it again on waking up. *)
LockMain ==
  /\ main = "lock" /\ mutex[idx] = "free"
  /\ mutex' = [mutex EXCEPT ![idx] = "main"]
  /\ main' = "check"
  /\ UNCHANGED <<threadCount, idx, entry, pointer, waiting, loops, nextIdx, given>>

(* Bug: one wake-up is taken for the publication of the pointer. *)
CheckLoopOnce ==
  /\ main = "check"
  /\ main' = "store"
  /\ UNCHANGED <<threadCount, idx, entry, pointer, mutex, waiting, loops,
                 nextIdx, given>>

(* The predicate of _cond.wait: it blocks, and unlocks, as long as _loop   *)
(* is NULL.                                                                *)
CheckLoop ==
  /\ main = "check"
  /\ IF pointer[idx] # NULL
     THEN main' = "store" /\ UNCHANGED <<mutex, waiting>>
     ELSE /\ main' = "blocked"
          /\ mutex' = [mutex EXCEPT ![idx] = "free"]
          /\ waiting' = waiting \cup {idx}
  /\ UNCHANGED <<threadCount, idx, entry, pointer, loops, nextIdx, given>>

(* A condition variable may wake up for no reason. *)
SpuriousWakeup ==
  /\ main = "blocked" /\ idx \in waiting
  /\ waiting' = waiting \ {idx}
  /\ main' = "lock"
  /\ UNCHANGED <<threadCount, idx, entry, pointer, mutex, loops, nextIdx, given>>

(* GetLoop unlocks and returns the pointer; Create() goes on. *)
StoreLoop ==
  /\ main = "store"
  /\ loops' = [loops EXCEPT ![idx] = pointer[idx]]
  /\ mutex' = [mutex EXCEPT ![idx] = "free"]
  /\ idx' = idx + 1
  /\ main' = IF idx + 1 < threadCount THEN "construct" ELSE "running"
  /\ UNCHANGED <<threadCount, entry, pointer, waiting, nextIdx, given>>
-----------------------------------------------------------------------------
(* ThreadEntry: the loop is built, then published under the lock. *)
LockEntry(i) ==
  /\ entry[i] = "lock" /\ mutex[i] = "free"
  /\ mutex' = [mutex EXCEPT ![i] = "entry"]
  /\ entry' = [entry EXCEPT ![i] = "publish"]
  /\ UNCHANGED <<threadCount, idx, main, pointer, waiting, loops, nextIdx, given>>

(* Bug: the pointer is published without a notification. *)
PublishLoopSilent(i) ==
  /\ entry[i] = "publish"
  /\ pointer' = [pointer EXCEPT ![i] = i]
  /\ entry' = [entry EXCEPT ![i] = "unlock"]
  /\ UNCHANGED <<threadCount, idx, main, mutex, waiting, loops, nextIdx, given>>

(* _loop is set and _cond notified. *)
PublishLoop(i) ==
  /\ entry[i] = "publish"
  /\ pointer' = [pointer EXCEPT ![i] = i]
  /\ waiting' = waiting \ {i}
  /\ main' = IF i \in waiting THEN "lock" ELSE main
  /\ entry' = [entry EXCEPT ![i] = "unlock"]
  /\ UNCHANGED <<threadCount, idx, mutex, loops, nextIdx, given>>

(* The lock is released; the loop runs for ever. *)
StartLoop(i) ==
  /\ entry[i] = "unlock"
  /\ mutex' = [mutex EXCEPT ![i] = "free"]
  /\ entry' = [entry EXCEPT ![i] = "running"]
  /\ UNCHANGED <<threadCount, idx, main, pointer, waiting, loops, nextIdx, given>>
-----------------------------------------------------------------------------
(* Bug: the first loop is skipped. *)
AdvanceSkip == IF nextIdx + 1 = threadCount THEN 1 % threadCount ELSE nextIdx + 1

Advance == (nextIdx + 1) % threadCount

(* NewConnection's call of NextLoop, on the base loop. *)
NextLoop ==
  /\ main = "running"
  /\ \A l \in Index \cup {Base} : given[l] < MaxConns
  /\ IF threadCount = 0
     THEN given' = [given EXCEPT ![Base] = @ + 1] /\ UNCHANGED nextIdx
     ELSE /\ nextIdx' = Advance
          /\ given' = [given EXCEPT ![loops[Advance]] = @ + 1]
  /\ UNCHANGED <<threadCount, idx, main, entry, pointer, mutex, waiting, loops>>

CreateStep ==
  \/ Create \/ ConstructLoop \/ SpawnThread \/ LockMain \/ CheckLoop
  \/ StoreLoop

EntryStep(i) == LockEntry(i) \/ PublishLoop(i) \/ StartLoop(i)

Next ==
  \/ \E count \in 0 .. MaxThreads : SetThreadCount(count)
  \/ CreateStep \/ SpuriousWakeup \/ NextLoop
  \/ \E i \in Index : EntryStep(i)

Spec == Init /\ [][Next]_vars

(* The operating system runs the main thread and every thread it has       *)
(* started, and a thread that can take the mutex again and again takes it  *)
(* in the end: the main thread holds it only to look at _loop.  No         *)
(* spurious wake-up is assumed, and no connection.                         *)
FairSpec ==
  /\ Spec
  /\ WF_vars(CreateStep)
  /\ \A i \in Index : WF_vars(EntryStep(i)) /\ SF_vars(LockEntry(i))
-----------------------------------------------------------------------------
(* Every pointer that GetLoop has returned is the loop of its own thread,  *)
(* already built: a connection is never given to a NULL, to an             *)
(* uninitialized or to another thread's loop, however the two threads      *)
(* interleave.                                                             *)
LoopsAreBuilt ==
  \A i \in Index :
    i < idx => loops[i] = i /\ entry[i] \in {"unlock", "running"}

(* The loops share the connections evenly, and the base loop takes one     *)
(* only when there is no other.                                            *)
ConnectionsAreBalanced ==
  /\ \A i, j \in 0 .. threadCount - 1 : given[i] - given[j] <= 1
  /\ given[Base] > 0 => threadCount = 0

(* Create() returns: no notification is lost between the test of _loop and *)
(* the wait.                                                               *)
CreateReturns == <>(main = "running")
=============================================================================
