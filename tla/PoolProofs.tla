----------------------------- MODULE PoolProofs -----------------------------
(***************************************************************************)
(* Theorems about Pool, for every maximumConnections, every set of faults  *)
(* and every bound, with their proofs.                                     *)
(***************************************************************************)
EXTENDS Pool, FiniteSetTheorems, TLAPS

(***************************************************************************)
(* What a queue holds after a task has been appended or its head taken.    *)
(***************************************************************************)
LEMMA Appended ==
  ASSUME NEW S, NEW q \in Seq(S), NEW e \in S
  PROVE  /\ Append(q, e) \in Seq(S)
         /\ Len(Append(q, e)) = Len(q) + 1
         /\ \A i \in 1 .. Len(q) : Append(q, e)[i] = q[i]
         /\ Append(q, e)[Len(q) + 1] = e
  OBVIOUS

LEMMA Taken ==
  ASSUME NEW S, NEW q \in Seq(S), q # <<>>
  PROVE  /\ Head(q) = q[1] /\ Head(q) \in S
         /\ Tail(q) \in Seq(S)
         /\ Len(q) \in Nat \ {0} /\ Len(Tail(q)) = Len(q) - 1
         /\ \A i \in 1 .. Len(Tail(q)) : Tail(q)[i] = q[i + 1]
  OBVIOUS

(* The tasks by their type, and the sets of workers that shrink or grow.   *)
LEMMA TaskTypes ==
  /\ \A b \in 1 .. MaxBlocks : Task("perform", b) \in Tasks
  /\ Task("wake", 0) \in Tasks /\ Task("cleanup", 0) \in Tasks
  /\ \A w \in Clients : /\ Task("connected", w) \in Tasks
                        /\ Task("connectFailed", w) \in Tasks
                        /\ Task("release", w) \in Tasks
                        /\ Task("remove", w) \in Tasks
  /\ \A t \in Tasks :
       /\ t.type = "perform" => t.id \in 1 .. MaxBlocks
       /\ t.type \in {"connected", "connectFailed", "release", "remove"}
            => t.id \in Clients
       /\ t = Task(t.type, t.id)
  BY DEF Task, Tasks

LEMMA ClientsFinite == IsFiniteSet(Clients)
  BY PoolAssumption, FS_Interval DEF Clients

LEMMA WorkersCount ==
  ASSUME NEW S, S \subseteq Clients
  PROVE  /\ IsFiniteSet(S) /\ Cardinality(S) \in Nat
         /\ \A T \in SUBSET S : /\ Cardinality(T) \in Nat
                                /\ Cardinality(T) <= Cardinality(S)
         /\ \A w \in Clients : Cardinality(S \cup {w}) <= Cardinality(S) + 1
<1>1. IsFiniteSet(S) /\ Cardinality(S) \in Nat
  BY ClientsFinite, FS_Subset, FS_CardinalityType
<1>2. ASSUME NEW T \in SUBSET S
      PROVE  Cardinality(T) \in Nat /\ Cardinality(T) <= Cardinality(S)
  BY <1>1, FS_Subset, FS_CardinalityType
<1>3. ASSUME NEW w \in Clients
      PROVE  Cardinality(S \cup {w}) <= Cardinality(S) + 1
  BY <1>1, FS_AddElement
<1> QED  BY <1>1, <1>2, <1>3

LEMMA FewerWorkers ==
  ASSUME workers \subseteq Clients, Cardinality(workers) <= maximumConnections,
         NEW T \in SUBSET workers
  PROVE  T \subseteq Clients /\ Cardinality(T) <= maximumConnections
<1>1. Cardinality(T) \in Nat /\ Cardinality(workers) \in Nat
      /\ Cardinality(T) <= Cardinality(workers)
  BY WorkersCount
<1> QED  BY <1>1, PoolAssumption

-----------------------------------------------------------------------------
(***************************************************************************)
(* Type correctness, one group of variables at a time: the actions that    *)
(* change the group, and the others.                                       *)
(***************************************************************************)
LEMMA TypeInit == Init => TypeOK
<1> SUFFICES ASSUME Init PROVE TypeOK
  OBVIOUS
<1>1. PoolTypeOK
  BY PoolAssumption, FS_EmptySet DEF Init, PoolTypeOK
<1>2. LoopTypeOK
  <2>1. observing \in 0 .. MaxClients
    BY PoolAssumption DEF Init
  <2>2. queue \in Seq(Tasks)
    BY DEF Init
  <2> QED  BY <2>1, <2>2 DEF Init, LoopTypeOK
<1>3. ClientTypeOK
  BY DEF Init, ClientTypeOK, Links
<1>4. UserTypeOK
  BY PoolAssumption DEF Init, UserTypeOK
<1> QED  BY <1>1, <1>2, <1>3, <1>4 DEF TypeOK

LEMMA PoolTypeStep ==
  ASSUME TypeOK, [Next]_vars
  PROVE  PoolTypeOK'
<1> USE DEF TypeOK, PoolTypeOK
<1>1. CASE UNCHANGED poolVars
  BY <1>1 DEF poolVars
<1>2. CASE RunPerform
  <2>1. Head(queue).id \in 1 .. MaxBlocks
    BY <1>2, Taken, TaskTypes DEF RunPerform, Take, LoopTypeOK
  <2>2. performQueue' \in Seq(1 .. MaxBlocks)
    BY <1>2, <2>1, Appended DEF RunPerform
  <2> QED  BY <1>2, <2>2 DEF RunPerform
<1>3. CASE RunRelease
  BY <1>3 DEF RunRelease
<1>4. CASE RunRemove
  <2>1. workers' \subseteq Clients /\ Cardinality(workers') <= maximumConnections
    BY <1>4, FewerWorkers DEF RunRemove
  <2> QED  BY <1>4, <2>1 DEF RunRemove
<1>5. CASE RunCleanup
  <2>1. workers' \subseteq workers /\ numberOfWorkersUsed' \in Nat
        /\ UNCHANGED <<performQueue, isAvailable>>
    BY <1>5 DEF RunCleanup, poolVars
  <2>2. workers' \subseteq Clients /\ Cardinality(workers') <= maximumConnections
    BY <2>1, FewerWorkers
  <2> QED  BY <2>1, <2>2
<1>6. CASE Dispatch
  <2>1. performQueue' \in Seq(1 .. MaxBlocks)
    BY <1>6, Taken DEF Dispatch
  <2>2. PICK w \in Ready :
          /\ isAvailable' = [isAvailable EXCEPT ![w] = FALSE]
          /\ numberOfWorkersUsed' =
               Larger(numberOfWorkersUsed, Cardinality(workers \ (Ready \ {w})))
    BY <1>6 DEF Dispatch
  <2>3. Cardinality(workers \ (Ready \ {w})) \in Nat
    BY WorkersCount
  <2>4. numberOfWorkersUsed' \in Nat
    BY <2>2, <2>3 DEF Larger
  <2> QED  BY <1>6, <2>1, <2>2, <2>4 DEF Dispatch
<1>7. CASE EndPerform
  <2>1. CASE CreateClient /\ HasRoom
    <3>1. PICK w \in Clients : /\ workers' = workers \cup {w}
                               /\ isAvailable' = [isAvailable EXCEPT ![w] = TRUE]
      BY <2>1 DEF CreateClient
    <3>2. Cardinality(workers') <= Cardinality(workers) + 1
          /\ Cardinality(workers) \in Nat /\ Cardinality(workers') \in Nat
      BY <3>1, WorkersCount
    <3>3. Cardinality(workers') <= maximumConnections
      BY <2>1, <3>2, PoolAssumption DEF HasRoom
    <3> QED  BY <1>7, <3>1, <3>3 DEF EndPerform
  <2>2. CASE UNCHANGED <<workers, isAvailable, link, owed>>
    BY <1>7, <2>2 DEF EndPerform
  <2> QED  BY <1>7, <2>1, <2>2 DEF EndPerform
<1> QED
  BY <1>1, <1>2, <1>3, <1>4, <1>5, <1>6, <1>7
     DEF vars, Next, Handlers, Perform, IdleTimer, RunConnected, RunConnectFailed,
         RunWake, Finish, RemovalTimer, Connect, Refuse, Authenticate,
         ReadyForQuery, Reject, FailLogin, Close, Disconnected

(* What each action does to the dispatch queue: nothing, a task appended,  *)
(* the head taken, or both.                                                *)
LEMMA QueueStep ==
  ASSUME TypeOK, [Next]_vars
  PROVE  \/ queue' = queue
         \/ \E t \in Tasks : queue' = Append(queue, t)
         \/ queue # <<>> /\ queue' = Tail(queue)
         \/ queue # <<>> /\ queue' = Append(Tail(queue), Task("wake", 0))
<1>1. CASE Perform
  <2>1. submitted + 1 \in 1 .. MaxBlocks
    BY <1>1, PoolAssumption DEF Perform, TypeOK, UserTypeOK
  <2> QED  BY <1>1, <2>1, TaskTypes DEF Perform
<1>2. CASE IdleTimer
  BY <1>2, TaskTypes DEF IdleTimer
<1>3. CASE Handlers
  BY <1>3 DEF Handlers, Take, RunPerform, RunConnected, RunConnectFailed,
       RunRelease, RunWake, RunRemove, RunCleanup, Dispatch, EndPerform
<1>4. ASSUME NEW w \in Clients, Finish(w) \/ RemovalTimer(w)
      PROVE  \E t \in Tasks : queue' = Append(queue, t)
  BY <1>4, TaskTypes DEF Finish, RemovalTimer
<1>5. ASSUME NEW w \in Clients, ReadyForQuery(w) \/ Reject(w) \/ FailLogin(w)
      PROVE  \E t \in Tasks : queue' = Append(queue, t)
  BY <1>5, TaskTypes DEF ReadyForQuery, Reject, FailLogin
<1>6. ASSUME NEW w \in Clients, Disconnected(w)
      PROVE  queue' = queue \/ \E t \in Tasks : queue' = Append(queue, t)
  BY <1>6, TaskTypes DEF Disconnected
<1> QED
  BY <1>1, <1>2, <1>3, <1>4, <1>5, <1>6
     DEF vars, Next, Connect, Refuse, Authenticate, Close

LEMMA LoopTypeStep ==
  ASSUME TypeOK, [Next]_vars
  PROVE  LoopTypeOK'
<1>1. queue' \in Seq(Tasks)
  <2> USE DEF TypeOK, LoopTypeOK
  <2>1. CASE \E t \in Tasks : queue' = Append(queue, t)
    BY <2>1, Appended
  <2>2. CASE queue # <<>> /\ queue' = Tail(queue)
    BY <2>2, Taken
  <2>3. CASE queue # <<>> /\ queue' = Append(Tail(queue), Task("wake", 0))
    BY <2>3, Taken, Appended, TaskTypes
  <2> QED  BY <2>1, <2>2, <2>3, QueueStep
<1>2. CASE UNCHANGED loopVars
  BY <1>1, <1>2 DEF loopVars, TypeOK, LoopTypeOK
<1>3. CASE RunConnected
  <2>1. Head(queue).id \in Clients
    BY <1>3, Taken, TaskTypes DEF RunConnected, Take, TypeOK, LoopTypeOK
  <2>2. observing' \in 0 .. MaxClients
    BY <1>3, <2>1 DEF RunConnected, Clients
  <2> QED  BY <1>1, <1>3, <2>2 DEF RunConnected, TypeOK, LoopTypeOK
<1>4. CASE RunPerform \/ RunWake
  BY <1>1, <1>4 DEF RunPerform, RunWake, TypeOK, LoopTypeOK
<1>5. CASE RunCleanup
  BY <1>1, <1>5 DEF RunCleanup, TypeOK, LoopTypeOK
<1>6. CASE EndPerform
  <2>1. observing' \in 0 .. MaxClients
    BY <1>6, PoolAssumption DEF EndPerform
  <2> QED  BY <1>1, <1>6, <2>1 DEF EndPerform, TypeOK, LoopTypeOK
<1> QED
  BY <1>2, <1>3, <1>4, <1>5, <1>6
     DEF vars, Next, Handlers, Perform, IdleTimer, RunConnectFailed, RunRelease,
         RunRemove, Dispatch, Finish, RemovalTimer, Connect, Refuse, Authenticate,
         ReadyForQuery, Reject, FailLogin, Close, Disconnected

LEMMA ClientTypeStep ==
  ASSUME TypeOK, [Next]_vars
  PROVE  ClientTypeOK'
<1> USE DEF TypeOK, ClientTypeOK
<1>1. CASE UNCHANGED clientVars
  BY <1>1 DEF clientVars
<1>2. CASE RunConnectFailed
  <2>1. Head(queue).id \in Clients
    BY <1>2, Taken, TaskTypes DEF RunConnectFailed, Take, LoopTypeOK
  <2> QED  BY <1>2, <2>1 DEF RunConnectFailed
<1>3. CASE RunRemove
  <2>1. Head(queue).id \in Clients
    BY <1>3, Taken, TaskTypes DEF RunRemove, Take, LoopTypeOK
  <2> QED  BY <1>3, <2>1 DEF RunRemove, Disconnecting
<1>4. CASE RunCleanup
  BY <1>4 DEF RunCleanup, Disconnecting, Unused, Ready, PoolTypeOK
<1>5. CASE EndPerform
  <2>1. observed' \subseteq Clients
    BY <1>5 DEF EndPerform, LoopTypeOK, Clients
  <2>2. link' \in [Clients -> Links] /\ owed' \subseteq Clients
    BY <1>5 DEF EndPerform, CreateClient, Links
  <2> QED  BY <1>5, <2>1, <2>2 DEF EndPerform
<1>6. ASSUME NEW w \in Clients, RemovalTimer(w) \/ ReadyForQuery(w)
      PROVE  ClientTypeOK'
  BY <1>6 DEF RemovalTimer, ReadyForQuery
<1>7. ASSUME NEW w \in Clients, Connect(w) \/ Refuse(w) \/ Close(w)
      PROVE  ClientTypeOK'
  BY <1>7 DEF Connect, Refuse, Close, Links
<1>8. ASSUME NEW w \in Clients, Authenticate(w) \/ Reject(w) \/ FailLogin(w)
      PROVE  ClientTypeOK'
  BY <1>8 DEF Authenticate, Reject, FailLogin
<1>9. ASSUME NEW w \in Clients, Disconnected(w)
      PROVE  ClientTypeOK'
  BY <1>9 DEF Disconnected, Links
<1> QED
  BY <1>1, <1>2, <1>3, <1>4, <1>5, <1>6, <1>7, <1>8, <1>9
     DEF vars, Next, Handlers, Perform, IdleTimer, RunPerform, RunConnected,
         RunRelease, RunWake, Dispatch, Finish

LEMMA UserTypeStep ==
  ASSUME TypeOK, [Next]_vars
  PROVE  UserTypeOK'
<1> USE DEF TypeOK, UserTypeOK
<1>1. CASE UNCHANGED userVars
  BY <1>1 DEF userVars
<1>2. CASE Perform
  BY <1>2, PoolAssumption DEF Perform
<1>3. CASE IdleTimer
  BY <1>3, PoolAssumption DEF IdleTimer
<1>4. ASSUME NEW w \in Clients, Finish(w)
      PROVE  UserTypeOK'
  BY <1>4, PoolAssumption DEF Finish
<1>5. CASE Dispatch
  <2>1. Head(performQueue) \in 1 .. MaxBlocks
    BY <1>5, Taken DEF Dispatch, PoolTypeOK
  <2>2. PICK w \in Ready : /\ running' = [running EXCEPT ![w] = Head(performQueue)]
                           /\ started' = Head(performQueue)
    BY <1>5 DEF Dispatch
  <2>3. Head(performQueue) \in 0 .. MaxBlocks
    BY <2>1
  <2>4. started' \in 0 .. MaxBlocks /\ running' \in [Clients -> 0 .. MaxBlocks]
    BY <2>2, <2>3
  <2> QED  BY <1>5, <2>4 DEF Dispatch
<1> QED
  BY <1>1, <1>2, <1>3, <1>4, <1>5
     DEF vars, Next, Handlers, RunPerform, RunConnected, RunConnectFailed,
         RunRelease, RunWake, RunRemove, RunCleanup, EndPerform, RemovalTimer,
         Connect, Refuse, Authenticate, ReadyForQuery, Reject, FailLogin, Close, Disconnected

LEMMA TypeStep == TypeOK /\ [Next]_vars => TypeOK'
  BY PoolTypeStep, LoopTypeStep, ClientTypeStep, UserTypeStep DEF TypeOK

(* In every reachable state each variable has its type, and the pool holds *)
(* at most maximumConnections workers.                                     *)
THEOREM TypeCorrect == Spec => []TypeOK
  BY TypeInit, TypeStep, PTL DEF Spec

-----------------------------------------------------------------------------
(***************************************************************************)
(* One user per client.  ExclusiveUse is inductive together with the fact  *)
(* that nothing has happened yet to a client that was not created.         *)
(***************************************************************************)
Fresh ==
  \A w \in Clients :
    /\ link[w] = "none" => running[w] = 0 /\ ~Returning(w)
    /\ link[w] \in {"none", "connecting", "refused"} => w \notin isAuthenticated

LEMMA AppendedOther ==
  ASSUME NEW q \in Seq(Tasks), NEW t \in Tasks, NEW r \in Tasks, t # r
  PROVE  /\ Holds(Append(q, t), r) <=> Holds(q, r)
         /\ HoldsOnce(q, r) => HoldsOnce(Append(q, t), r)
  BY Appended DEF Holds, HoldsOnce

LEMMA AppendedSame ==
  ASSUME NEW q \in Seq(Tasks), NEW r \in Tasks, ~Holds(q, r)
  PROVE  Holds(Append(q, r), r) /\ HoldsOnce(Append(q, r), r)
  BY Appended DEF Holds, HoldsOnce

LEMMA TakenOther ==
  ASSUME NEW q \in Seq(Tasks), q # <<>>, NEW r \in Tasks, Head(q) # r
  PROVE  /\ Holds(Tail(q), r) <=> Holds(q, r)
         /\ HoldsOnce(q, r) => HoldsOnce(Tail(q), r)
<1>1. Holds(q, r) => Holds(Tail(q), r)
  <2>1. SUFFICES ASSUME NEW i \in 1 .. Len(q), q[i] = r PROVE Holds(Tail(q), r)
    BY DEF Holds
  <2>2. i - 1 \in 1 .. Len(Tail(q)) /\ Tail(q)[i - 1] = r
    BY <2>1, Taken
  <2> QED  BY <2>2 DEF Holds
<1>2. \A i \in 1 .. Len(Tail(q)) : i + 1 \in 1 .. Len(q) /\ Tail(q)[i] = q[i + 1]
  BY Taken
<1>3. Holds(Tail(q), r) => Holds(q, r)
  BY <1>2 DEF Holds
<1>4. ASSUME HoldsOnce(q, r) PROVE HoldsOnce(Tail(q), r)
  <2>1. SUFFICES ASSUME NEW i \in 1 .. Len(Tail(q)), NEW j \in 1 .. Len(Tail(q)),
                        Tail(q)[i] = r, Tail(q)[j] = r
                 PROVE  i = j
    BY DEF HoldsOnce
  <2>2. i + 1 = j + 1
    BY <1>2, <1>4, <2>1 DEF HoldsOnce
  <2> QED  BY <2>2
<1> QED  BY <1>1, <1>3, <1>4

LEMMA TakenSame ==
  ASSUME NEW q \in Seq(Tasks), q # <<>>, HoldsOnce(q, Head(q))
  PROVE  ~Holds(Tail(q), Head(q))
<1>1. SUFFICES ASSUME NEW i \in 1 .. Len(Tail(q)), Tail(q)[i] = Head(q)
               PROVE  FALSE
  BY DEF Holds
<1>2. i + 1 \in 1 .. Len(q) /\ q[i + 1] = q[1] /\ 1 \in 1 .. Len(q)
  BY <1>1, Taken
<1>3. i + 1 = 1
  BY <1>1, <1>2, Taken DEF HoldsOnce
<1> QED  BY <1>1, <1>3

(* A task that a step neither appends nor takes is where it was.           *)
LEMMA QueueKept ==
  ASSUME queue \in Seq(Tasks), NEW r \in Tasks,
         \/ queue' = queue
         \/ \E t \in Tasks : t # r /\ queue' = Append(queue, t)
         \/ queue # <<>> /\ Head(queue) # r /\ queue' = Tail(queue)
  PROVE  /\ Holds(queue, r)' <=> Holds(queue, r)
         /\ HoldsOnce(queue, r) => HoldsOnce(queue, r)'
<1>1. /\ Holds(queue, r)' <=> Holds(queue', r)
      /\ HoldsOnce(queue, r)' <=> HoldsOnce(queue', r)
  BY DEF Holds, HoldsOnce
<1>2. /\ Holds(queue', r) <=> Holds(queue, r)
      /\ HoldsOnce(queue, r) => HoldsOnce(queue', r)
  <2>1. CASE queue' = queue
    BY <2>1
  <2>2. CASE \E t \in Tasks : t # r /\ queue' = Append(queue, t)
    BY <2>2, AppendedOther
  <2>3. CASE queue # <<>> /\ Head(queue) # r /\ queue' = Tail(queue)
    BY <2>3, TakenOther
  <2> QED  BY <2>1, <2>2, <2>3
<1> QED  BY <1>1, <1>2

LEMMA ReleaseTasks ==
  \A v, w \in Clients :
    /\ Task("release", w) \in Tasks
    /\ Task("release", v) = Task("release", w) => v = w
    /\ \A t \in Tasks : t.type # "release" => t # Task("release", w)
<1>1. \A w : Task("release", w).id = w /\ Task("release", w).type = "release"
  BY DEF Task
<1> QED  BY <1>1, TaskTypes

(* A step that neither finishes a block nor handles a release leaves the   *)
(* releases in the queue as they are.                                      *)
LEMMA ReleasesKept ==
  ASSUME TypeOK, [Next]_vars, ~RunRelease, \A w \in Clients : ~Finish(w),
         NEW w \in Clients
  PROVE  /\ Returning(w)' <=> Returning(w)
         /\ HoldsOnce(queue, Task("release", w))
              => HoldsOnce(queue, Task("release", w))'
<1> DEFINE r == Task("release", w)
<1>1. queue \in Seq(Tasks) /\ r \in Tasks
  BY ReleaseTasks DEF TypeOK, LoopTypeOK
<1>2. \/ queue' = queue
      \/ \E t \in Tasks : t # r /\ queue' = Append(queue, t)
      \/ queue # <<>> /\ Head(queue) # r /\ queue' = Tail(queue)
  <2>1. CASE Perform
    <3>1. submitted + 1 \in 1 .. MaxBlocks
      BY <2>1, PoolAssumption DEF Perform, TypeOK, UserTypeOK
    <3> QED  BY <2>1, <3>1, TaskTypes DEF Perform, Task
  <2>2. CASE IdleTimer
    BY <2>2, TaskTypes DEF IdleTimer, Task
  <2>3. CASE Handlers
    BY <2>3 DEF Handlers, Take, RunPerform, RunConnected, RunConnectFailed,
         RunWake, RunRemove, RunCleanup, Dispatch, EndPerform, Task
  <2>4. ASSUME NEW v \in Clients,
               RemovalTimer(v) \/ ReadyForQuery(v) \/ Reject(v) \/ FailLogin(v) \/ Disconnected(v)
        PROVE  queue' = queue \/ \E t \in Tasks : t # r /\ queue' = Append(queue, t)
    BY <2>4, TaskTypes DEF RemovalTimer, ReadyForQuery, Reject, FailLogin, Disconnected, Task
  <2> QED
    BY <2>1, <2>2, <2>3, <2>4 DEF vars, Next, Connect, Refuse, Authenticate, Close
<1> QED
  BY <1>1, <1>2, QueueKept DEF Returning

LEMMA ReleasesFinished ==
  ASSUME TypeOK, NEW v \in Clients, Finish(v), ~Returning(v), NEW w \in Clients
  PROVE  /\ Returning(w)' <=> Returning(w) \/ w = v
         /\ HoldsOnce(queue, Task("release", w))
              => HoldsOnce(queue, Task("release", w))'
<1>1. queue \in Seq(Tasks) /\ queue' = Append(queue, Task("release", v))
  BY DEF TypeOK, LoopTypeOK, Finish
<1>2. /\ Returning(w)' <=> Holds(queue', Task("release", w))
      /\ HoldsOnce(queue, Task("release", w))' <=> HoldsOnce(queue', Task("release", w))
  BY DEF Returning, Holds, HoldsOnce
<1>3. CASE w = v
  BY <1>1, <1>2, <1>3, AppendedSame, ReleaseTasks DEF Returning
<1>4. CASE w # v
  BY <1>1, <1>2, <1>4, AppendedOther, ReleaseTasks DEF Returning
<1> QED  BY <1>3, <1>4

LEMMA ReleasesHandled ==
  ASSUME TypeOK, RunRelease, NEW w \in Clients, HoldsOnce(queue, Task("release", w))
  PROVE  /\ Head(queue).id \in Clients /\ Returning(Head(queue).id)
         /\ Returning(w)' <=> Returning(w) /\ w # Head(queue).id
         /\ HoldsOnce(queue, Task("release", w))'
<1> DEFINE v == Head(queue).id  t == Tail(queue)
<1>1. /\ queue \in Seq(Tasks) /\ queue # <<>> /\ t \in Seq(Tasks)
      /\ v \in Clients /\ Head(queue) = Task("release", v)
      /\ queue' = Append(t, Task("wake", 0))
  BY Taken, TaskTypes DEF TypeOK, LoopTypeOK, RunRelease, Take
<1>2. Returning(v)
  BY <1>1, Taken DEF Returning, Holds
<1>3. /\ Returning(w)' <=> Holds(queue', Task("release", w))
      /\ HoldsOnce(queue, Task("release", w))' <=> HoldsOnce(queue', Task("release", w))
  BY DEF Returning, Holds, HoldsOnce
<1>4. /\ Task("release", w) \in Tasks /\ Task("wake", 0) \in Tasks
      /\ Task("wake", 0) # Task("release", w)
  BY ReleaseTasks, TaskTypes DEF Task
<1>5. /\ Returning(w)' <=> Holds(t, Task("release", w))
      /\ HoldsOnce(t, Task("release", w)) => HoldsOnce(queue, Task("release", w))'
  BY <1>1, <1>3, <1>4, AppendedOther
<1>6. CASE w = v
  <2>1. ~Holds(t, Task("release", w))
    BY <1>1, <1>6, TakenSame
  <2> QED  BY <1>1, <1>2, <1>5, <1>6, <2>1 DEF Holds, HoldsOnce
<1>7. CASE w # v
  <2>1. Head(queue) # Task("release", w)
    BY <1>1, <1>7, ReleaseTasks
  <2>2. /\ Holds(t, Task("release", w)) <=> Holds(queue, Task("release", w))
        /\ HoldsOnce(t, Task("release", w))
    BY <1>1, <1>4, <2>1, TakenOther
  <2> QED  BY <1>1, <1>2, <1>5, <1>7, <2>2 DEF Returning
<1> QED  BY <1>6, <1>7

LEMMA FreshStep ==
  ASSUME TypeOK, Fresh, ExclusiveUse, [Next]_vars
  PROVE  Fresh'
<1> SUFFICES ASSUME NEW w \in Clients
             PROVE  /\ link'[w] = "none" => running'[w] = 0 /\ ~Returning(w)'
                    /\ link'[w] \in {"none", "connecting", "refused"}
                         => w \notin isAuthenticated'
  BY DEF Fresh
<1>1. link'[w] = "none" => link[w] = "none"
  BY DEF TypeOK, ClientTypeOK, vars, clientVars, userVars, Next, Handlers, Perform,
     IdleTimer, RunPerform, RunConnected, RunConnectFailed, RunRelease, RunWake,
     RunRemove, RunCleanup, Dispatch, EndPerform, CreateClient, Finish, RemovalTimer,
     Connect, Refuse, Authenticate, ReadyForQuery, Reject, FailLogin, Close, Disconnected
<1>2. link'[w] \in {"none", "connecting", "refused"} => w \notin isAuthenticated'
  BY DEF Fresh, TypeOK, ClientTypeOK, vars, clientVars, userVars, Next, Handlers, Perform,
     IdleTimer, RunPerform, RunConnected, RunConnectFailed, RunRelease, RunWake,
     RunRemove, RunCleanup, Dispatch, EndPerform, CreateClient, Finish, RemovalTimer,
     Connect, Refuse, Authenticate, ReadyForQuery, Reject, FailLogin, Close, Disconnected
<1>3. ASSUME link[w] = "none" PROVE running'[w] = 0
  BY <1>3 DEF Fresh, Ready, isReady, TypeOK, ClientTypeOK, UserTypeOK, vars, clientVars,
     userVars, Next, Handlers, Perform,
     IdleTimer, RunPerform, RunConnected, RunConnectFailed, RunRelease, RunWake,
     RunRemove, RunCleanup, Dispatch, EndPerform, CreateClient, Finish, RemovalTimer,
     Connect, Refuse, Authenticate, ReadyForQuery, Reject, FailLogin, Close, Disconnected
<1>4. ASSUME link[w] = "none" PROVE ~Returning(w)'
  <2>1. CASE \E v \in Clients : Finish(v)
    <3>1. PICK v \in Clients : Finish(v)
      BY <2>1
    <3>2. v # w /\ ~Returning(v)
      BY <1>4, <3>1 DEF Fresh, ExclusiveUse, Finish
    <3> QED  BY <1>4, <3>1, <3>2, ReleasesFinished DEF Fresh
  <2>2. CASE RunRelease
    BY <1>4, <2>2, ReleasesHandled DEF Fresh, ExclusiveUse
  <2> QED  BY <1>4, <2>1, <2>2, ReleasesKept DEF Fresh
<1> QED  BY <1>1, <1>2, <1>3, <1>4

LEMMA ExclusiveUseStep ==
  ASSUME TypeOK, Fresh, ExclusiveUse, [Next]_vars
  PROVE  ExclusiveUse'
<1> SUFFICES ASSUME NEW w \in Clients
             PROVE  /\ running'[w] # 0 => ~isAvailable'[w]
                    /\ Returning(w)' => running'[w] = 0 /\ ~isAvailable'[w]
                    /\ HoldsOnce(queue, Task("release", w))'
                    /\ link'[w] # "none" /\ ~isAvailable'[w]
                         => running'[w] # 0 \/ Returning(w)'
  BY DEF ExclusiveUse
<1>1. CASE \E v \in Clients : Finish(v)
  <2>1. PICK v \in Clients : Finish(v)
    BY <1>1
  <2>2. running[v] # 0 /\ ~isAvailable[v] /\ ~Returning(v)
    BY <2>1 DEF ExclusiveUse, Finish
  <2>3. /\ running' = [running EXCEPT ![v] = 0]
        /\ UNCHANGED <<isAvailable, link>>
    BY <2>1 DEF Finish, poolVars, clientVars
  <2>4. /\ Returning(w)' <=> Returning(w) \/ w = v
        /\ HoldsOnce(queue, Task("release", w))'
    BY <2>1, <2>2, ReleasesFinished DEF ExclusiveUse
  <2> QED  BY <2>2, <2>3, <2>4 DEF ExclusiveUse, TypeOK, UserTypeOK
<1>2. CASE RunRelease
  <2> DEFINE v == Head(queue).id
  <2>1. /\ v \in Clients /\ Returning(v)
        /\ Returning(w)' <=> Returning(w) /\ w # v
        /\ HoldsOnce(queue, Task("release", w))'
    BY <1>2, ReleasesHandled DEF ExclusiveUse
  <2>2. /\ isAvailable' = [isAvailable EXCEPT ![v] = TRUE]
        /\ UNCHANGED <<running, link>>
    BY <1>2 DEF RunRelease, clientVars, userVars
  <2> QED  BY <2>1, <2>2 DEF ExclusiveUse, TypeOK, PoolTypeOK
<1>3. ASSUME ~RunRelease, \A v \in Clients : ~Finish(v)
      PROVE  /\ Returning(w)' <=> Returning(w)
             /\ HoldsOnce(queue, Task("release", w))'
  BY <1>3, ReleasesKept DEF ExclusiveUse
<1>4. CASE Dispatch
  <2>1. PICK v \in Ready : /\ isAvailable' = [isAvailable EXCEPT ![v] = FALSE]
                           /\ running' = [running EXCEPT ![v] = Head(performQueue)]
    BY <1>4 DEF Dispatch
  <2>2. v \in Clients /\ isAvailable[v] /\ running[v] = 0 /\ ~Returning(v)
    BY <2>1 DEF Ready, isReady, ExclusiveUse, TypeOK, PoolTypeOK
  <2>3. Head(performQueue) # 0
    <3>1. Head(performQueue) \in 1 .. MaxBlocks
      BY <1>4, Taken DEF Dispatch, TypeOK, PoolTypeOK
    <3> QED  BY <3>1
  <2>4. UNCHANGED <<link, queue>>
    BY <1>4 DEF Dispatch, clientVars
  <2>5. Returning(w)' <=> Returning(w)
    BY <2>4 DEF Returning, Holds
  <2>6. HoldsOnce(queue, Task("release", w))'
    BY <2>4 DEF HoldsOnce, ExclusiveUse
  <2> QED
    BY <2>1, <2>2, <2>3, <2>4, <2>5, <2>6
       DEF ExclusiveUse, TypeOK, PoolTypeOK, UserTypeOK
<1>5. CASE EndPerform
  <2>1. UNCHANGED <<queue, running>>
    BY <1>5 DEF EndPerform, userVars
  <2>2. /\ Returning(w)' <=> Returning(w)
        /\ HoldsOnce(queue, Task("release", w))'
    BY <2>1 DEF Returning, Holds, HoldsOnce, ExclusiveUse
  <2>3. CASE CreateClient
    <3>1. PICK v \in Clients : /\ link[v] = "none"
                               /\ isAvailable' = [isAvailable EXCEPT ![v] = TRUE]
                               /\ link' = [link EXCEPT ![v] = "connecting"]
      BY <2>3 DEF CreateClient
    <3>2. running[v] = 0 /\ ~Returning(v)
      BY <3>1 DEF Fresh
    <3> QED
      BY <2>1, <2>2, <3>1, <3>2
         DEF ExclusiveUse, TypeOK, PoolTypeOK, ClientTypeOK
  <2>4. CASE UNCHANGED <<workers, isAvailable, link, owed>>
    BY <2>1, <2>2, <2>4 DEF ExclusiveUse
  <2> QED  BY <1>5, <2>3, <2>4 DEF EndPerform
<1>6. CASE ~RunRelease /\ ~Dispatch /\ ~EndPerform /\ \A v \in Clients : ~Finish(v)
  <2>1. UNCHANGED <<isAvailable, running>> /\ (link'[w] # "none" => link[w] # "none")
    BY <1>6 DEF TypeOK, ClientTypeOK, vars, poolVars, clientVars, userVars, Next,
       Handlers, Perform, IdleTimer, RunPerform, RunConnected, RunConnectFailed,
       RunWake, RunRemove, RunCleanup, RemovalTimer, Connect, Refuse, Authenticate,
       ReadyForQuery, Reject, FailLogin, Close, Disconnected
  <2> QED  BY <1>3, <1>6, <2>1 DEF ExclusiveUse
<1> QED  BY <1>1, <1>2, <1>4, <1>5, <1>6

LEMMA FirstUse == Init => Fresh /\ ExclusiveUse
  BY DEF Init, Fresh, ExclusiveUse, Returning, Holds, HoldsOnce

(* A client never has two users: the block it runs, and the pool that      *)
(* would hand it another; nor is a client forgotten by both.               *)
THEOREM OneUserPerClient == Spec => []ExclusiveUse
<1> DEFINE IInv == TypeOK /\ Fresh /\ ExclusiveUse
<1>1. Init => IInv
  BY TypeInit, FirstUse
<1>2. IInv /\ [Next]_vars => IInv'
  BY TypeStep, FreshStep, ExclusiveUseStep
<1> QED  BY <1>1, <1>2, PTL DEF Spec

-----------------------------------------------------------------------------
(***************************************************************************)
(* The order of the blocks.                                                *)
(***************************************************************************)
LEMMA CarriesAppendedOther ==
  ASSUME NEW q \in Seq(Tasks), NEW t \in Tasks, t.type # "perform",
         NEW a \in Int, NEW b \in Int, Carries(q, a, b)
  PROVE  Carries(Append(q, t), a, b)
<1> DEFINE p == Append(q, t)
<1>1. /\ Arriving(p) = Arriving(q)
      /\ \A i \in Arriving(q) : p[i] = q[i]
  BY Appended DEF Arriving
<1> QED  BY <1>1 DEF Carries

LEMMA CarriesAppended ==
  ASSUME NEW q \in Seq(Tasks), NEW a \in Int, NEW b \in Int, a <= b + 1,
         Task("perform", b + 1) \in Tasks, Carries(q, a, b)
  PROVE  Carries(Append(q, Task("perform", b + 1)), a, b + 1)
<1> DEFINE t == Task("perform", b + 1)  p == Append(q, t)  n == Len(q) + 1
<1>1. /\ t.type = "perform" /\ t.id = b + 1
      /\ Len(q) \in Nat /\ Len(p) = n /\ p[n] = t
      /\ \A i \in 1 .. Len(q) : p[i] = q[i]
  BY Appended DEF Task
<1> HIDE DEF t, p
<1>2. /\ Arriving(p) = Arriving(q) \cup {n}
      /\ \A i \in Arriving(q) : i \in 1 .. Len(q) /\ p[i] = q[i] /\ i < n
  BY <1>1 DEF Arriving
<1>3. \A i \in Arriving(p) : p[i].id \in a .. b + 1
  BY <1>1, <1>2 DEF Carries
<1>4. ASSUME NEW i \in Arriving(p), NEW j \in Arriving(p), i < j
      PROVE  p[i].id < p[j].id
  <2>1. i \in Arriving(q)
    BY <1>1, <1>2, <1>4
  <2>2. CASE j = n
    BY <1>1, <1>2, <2>1, <2>2 DEF Carries
  <2>3. CASE j \in Arriving(q)
    BY <1>2, <1>4, <2>1, <2>3 DEF Carries
  <2> QED  BY <1>2, <2>2, <2>3
<1>5. ASSUME NEW c \in a .. b + 1
      PROVE  \E i \in Arriving(p) : p[i].id = c
  <2>1. CASE c = b + 1
    BY <1>1, <1>2, <2>1
  <2>2. CASE c \in a .. b
    BY <1>2, <2>2 DEF Carries
  <2> QED  BY <2>1, <2>2
<1>6. Carries(p, a, b + 1)
  BY <1>3, <1>4, <1>5 DEF Carries
<1> QED  BY <1>6 DEF p, t

LEMMA CarriesTakenOther ==
  ASSUME NEW q \in Seq(Tasks), q # <<>>, Head(q).type # "perform",
         NEW a \in Int, NEW b \in Int, Carries(q, a, b)
  PROVE  Carries(Tail(q), a, b)
<1> DEFINE p == Tail(q)
<1>1. /\ Len(q) \in Nat \ {0} /\ Len(p) = Len(q) - 1 /\ Head(q) = q[1]
      /\ \A i \in 1 .. Len(p) : p[i] = q[i + 1]
  BY Taken
<1>2. \A i \in Arriving(p) : i + 1 \in Arriving(q) /\ p[i] = q[i + 1]
  BY <1>1 DEF Arriving
<1>3. \A i \in Arriving(q) : i - 1 \in Arriving(p) /\ p[i - 1] = q[i]
  BY <1>1 DEF Arriving
<1>4. \A i \in Arriving(p) : i \in Int
  BY DEF Arriving
<1>5. \A i \in Arriving(p) : p[i].id \in a .. b
  BY <1>2 DEF Carries
<1>6. ASSUME NEW i \in Arriving(p), NEW j \in Arriving(p), i < j
      PROVE  p[i].id < p[j].id
  <2>1. i + 1 < j + 1
    BY <1>4, <1>6
  <2> QED  BY <1>2, <2>1 DEF Carries
<1>7. \A c \in a .. b : \E i \in Arriving(p) : p[i].id = c
  BY <1>3 DEF Carries
<1> QED  BY <1>5, <1>6, <1>7 DEF Carries

LEMMA CarriesTaken ==
  ASSUME NEW q \in Seq(Tasks), q # <<>>, Head(q).type = "perform",
         NEW a \in Int, NEW b \in Int, Carries(q, a, b)
  PROVE  Head(q).id = a /\ a <= b /\ Carries(Tail(q), a + 1, b)
<1> DEFINE p == Tail(q)
<1>1. /\ Len(q) \in Nat \ {0} /\ Len(p) = Len(q) - 1 /\ Head(q) = q[1]
      /\ \A i \in 1 .. Len(p) : p[i] = q[i + 1]
  BY Taken
<1>2. \A i \in Arriving(p) : i \in Nat \ {0} /\ i + 1 \in Arriving(q) /\ p[i] = q[i + 1]
  BY <1>1 DEF Arriving
<1>3. ASSUME NEW i \in Arriving(q), i # 1
      PROVE  i - 1 \in Arriving(p) /\ p[i - 1] = q[i]
  <2>1. i - 1 \in 1 .. Len(p) /\ (i - 1) + 1 = i
    BY <1>1, <1>3 DEF Arriving
  <2>2. p[i - 1] = q[i]
    BY <1>1, <2>1
  <2> QED  BY <2>1, <2>2 DEF Arriving
<1>4. 1 \in Arriving(q) /\ q[1].id \in a .. b /\ \A i \in Arriving(q) : i = 1 \/ 1 < i
  BY <1>1 DEF Arriving, Carries
<1>5. q[1].id = a
  <2>1. PICK i \in Arriving(q) : q[i].id = a
    BY <1>4 DEF Carries
  <2>2. i = 1 \/ q[1].id < a
    BY <1>4, <2>1 DEF Carries
  <2> QED  BY <1>4, <2>1, <2>2
<1>6. \A i \in Arriving(p) : p[i].id \in a + 1 .. b
  <2>1. ASSUME NEW i \in Arriving(p) PROVE p[i].id \in a + 1 .. b
    <3>1. i \in Nat \ {0} /\ i + 1 \in Arriving(q) /\ p[i] = q[i + 1]
      BY <1>2
    <3>2. 1 < i + 1
      BY <3>1
    <3>3. q[1].id < q[i + 1].id /\ q[i + 1].id \in a .. b
      BY <1>4, <3>1, <3>2 DEF Carries
    <3>4. q[i + 1].id \in a + 1 .. b
      BY <1>5, <3>3
    <3> QED  BY <3>1, <3>4
  <2> QED  BY <2>1
<1>7. ASSUME NEW i \in Arriving(p), NEW j \in Arriving(p), i < j
      PROVE  p[i].id < p[j].id
  <2>1. i + 1 < j + 1
    BY <1>2, <1>7
  <2> QED  BY <1>2, <2>1 DEF Carries
<1>8. ASSUME NEW c \in a + 1 .. b
      PROVE  \E i \in Arriving(p) : p[i].id = c
  <2>1. PICK i \in Arriving(q) : q[i].id = c
    BY DEF Carries
  <2>2. i # 1
    BY <1>5, <2>1
  <2> QED  BY <1>3, <2>1, <2>2
<1>9. a <= b
  BY <1>4
<1> QED  BY <1>1, <1>5, <1>6, <1>7, <1>8, <1>9 DEF Carries

(* The steps that neither submit a block nor move one.                     *)
LEMMA CarriesKept ==
  ASSUME TypeOK, [Next]_vars, ~Perform, ~RunPerform, NEW a \in Int, NEW b \in Int,
         Carries(queue, a, b)
  PROVE  Carries(queue', a, b)
<1>1. queue \in Seq(Tasks)
  BY DEF TypeOK, LoopTypeOK
<1>2. CASE queue' = queue
  BY <1>2
<1>3. CASE queue # <<>> /\ Head(queue).type # "perform" /\ queue' = Tail(queue)
  BY <1>1, <1>3, CarriesTakenOther
<1>4. CASE RunRelease
  <2>1. queue # <<>> /\ Head(queue).type # "perform"
        /\ queue' = Append(Tail(queue), Task("wake", 0))
    BY <1>4 DEF RunRelease, Take
  <2>2. Carries(Tail(queue), a, b) /\ Tail(queue) \in Seq(Tasks)
    BY <1>1, <2>1, CarriesTakenOther, Taken
  <2>3. Task("wake", 0) \in Tasks /\ Task("wake", 0).type # "perform"
    BY TaskTypes DEF Task
  <2> QED  BY <2>1, <2>2, <2>3, CarriesAppendedOther
<1>5. CASE \E t \in Tasks : t.type # "perform" /\ queue' = Append(queue, t)
  BY <1>1, <1>5, CarriesAppendedOther
<1>6. \/ queue' = queue \/ RunRelease
      \/ queue # <<>> /\ Head(queue).type # "perform" /\ queue' = Tail(queue)
      \/ \E t \in Tasks : t.type # "perform" /\ queue' = Append(queue, t)
  <2>1. CASE IdleTimer
    BY <2>1, TaskTypes DEF IdleTimer, Task
  <2>2. CASE Handlers
    BY <2>2 DEF Handlers, Take, RunConnected, RunConnectFailed, RunWake, RunRemove,
         RunCleanup, Dispatch, EndPerform
  <2>3. ASSUME NEW v \in Clients,
               Finish(v) \/ RemovalTimer(v) \/ ReadyForQuery(v) \/ Reject(v) \/ FailLogin(v)
                 \/ Disconnected(v)
        PROVE  \/ queue' = queue
               \/ \E t \in Tasks : t.type # "perform" /\ queue' = Append(queue, t)
    BY <2>3, TaskTypes
       DEF Finish, RemovalTimer, ReadyForQuery, Reject, FailLogin, Disconnected, Task
  <2> QED
    BY <2>1, <2>2, <2>3 DEF vars, Next, Connect, Refuse, Authenticate, Close
<1> QED  BY <1>2, <1>3, <1>4, <1>5, <1>6

LEMMA InOrderStep ==
  ASSUME TypeOK, InOrder, [Next]_vars
  PROVE  InOrder'
<1> DEFINE n == Len(performQueue)
<1>1. /\ queue \in Seq(Tasks) /\ performQueue \in Seq(1 .. MaxBlocks)
      /\ submitted \in Nat /\ started \in Nat /\ n \in Nat
  BY PoolAssumption DEF TypeOK, LoopTypeOK, PoolTypeOK, UserTypeOK
<1>2. /\ started + n <= submitted
      /\ \A i \in 1 .. n : performQueue[i] = started + i
      /\ Carries(queue, started + n + 1, submitted)
  BY DEF InOrder
<1>3. CASE Perform
  <2>1. /\ UNCHANGED <<performQueue, started>>
        /\ submitted' = submitted + 1 /\ submitted + 1 \in 1 .. MaxBlocks
        /\ queue' = Append(queue, Task("perform", submitted + 1))
    BY <1>1, <1>3, PoolAssumption DEF Perform, poolVars
  <2>2. Carries(queue', started + n + 1, submitted + 1)
    BY <1>1, <1>2, <2>1, TaskTypes, CarriesAppended
  <2> QED  BY <1>1, <1>2, <2>1, <2>2 DEF InOrder
<1>4. CASE RunPerform
  <2>1. /\ queue # <<>> /\ Head(queue).type = "perform" /\ queue' = Tail(queue)
        /\ performQueue' = Append(performQueue, Head(queue).id)
        /\ UNCHANGED <<submitted, started>>
    BY <1>4 DEF RunPerform, Take, userVars
  <2>2. /\ Head(queue).id = started + n + 1 /\ started + n + 1 <= submitted
        /\ Carries(queue', started + n + 2, submitted)
    BY <1>1, <1>2, <2>1, CarriesTaken
  <2>3. Len(performQueue') = n + 1
        /\ \A i \in 1 .. n + 1 : performQueue'[i] = started + i
    BY <1>1, <1>2, <2>1, <2>2
  <2> QED  BY <1>1, <2>1, <2>2, <2>3 DEF InOrder
<1>5. CASE Dispatch
  <2>1. /\ performQueue # <<>> /\ performQueue' = Tail(performQueue)
        /\ started' = Head(performQueue) /\ UNCHANGED <<submitted, queue>>
    BY <1>5 DEF Dispatch
  <2>2. /\ n \in Nat \ {0} /\ Len(performQueue') = n - 1 /\ started' = performQueue[1]
        /\ \A i \in 1 .. n - 1 : performQueue'[i] = performQueue[i + 1]
    BY <1>1, <2>1, Taken
  <2>3. started' = started + 1
    BY <1>2, <2>2
  <2>4. \A i \in 1 .. n - 1 : performQueue'[i] = started' + i
    <3>1. ASSUME NEW i \in 1 .. n - 1 PROVE performQueue'[i] = started' + i
      <4>1. i + 1 \in 1 .. n /\ performQueue'[i] = performQueue[i + 1]
        BY <2>2
      <4> QED  BY <1>1, <1>2, <2>3, <4>1
    <3> QED  BY <3>1
  <2>5. started' + Len(performQueue') = started + n
    BY <1>1, <2>2, <2>3
  <2> QED  BY <1>2, <2>1, <2>2, <2>4, <2>5 DEF InOrder
<1>6. CASE ~Perform /\ ~RunPerform /\ ~Dispatch
  <2>1. UNCHANGED <<performQueue, submitted, started>>
    BY <1>6 DEF vars, poolVars, userVars, Next, Handlers, IdleTimer, RunConnected,
       RunConnectFailed, RunRelease, RunWake, RunRemove, RunCleanup, EndPerform,
       Finish, RemovalTimer, Connect, Refuse, Authenticate, ReadyForQuery, Reject, FailLogin,
       Close, Disconnected
  <2>2. Carries(queue', started + n + 1, submitted)
    BY <1>1, <1>2, <1>6, CarriesKept
  <2> QED  BY <1>2, <2>1, <2>2 DEF InOrder
<1> QED  BY <1>3, <1>4, <1>5, <1>6

LEMMA FirstInOrder == Init => InOrder
  BY DEF Init, InOrder, Carries, Arriving

(* No block is lost, repeated or overtaken between perform and its client. *)
THEOREM BlocksInOrder == Spec => []InOrder
<1> DEFINE IInv == TypeOK /\ InOrder
<1>1. Init => IInv
  BY TypeInit, FirstInOrder
<1>2. IInv /\ [Next]_vars => IInv'
  BY TypeStep, InOrderStep
<1> QED  BY <1>1, <1>2, PTL DEF Spec

-----------------------------------------------------------------------------
(***************************************************************************)
(* Implementation: every step of the pool is a step of Dispatcher, or      *)
(* leaves the three variables a program can see unchanged.                 *)
(***************************************************************************)
LEMMA DispatchStarts ==
  ASSUME TypeOK, ExclusiveUse, InOrder, Dispatch
  PROVE  \E c \in Clients : Promise!Start(c)
<1>1. PICK w \in Ready : /\ running' = [running EXCEPT ![w] = Head(performQueue)]
                         /\ started' = Head(performQueue)
  BY DEF Dispatch
<1>2. w \in Clients /\ running[w] = 0
  BY DEF Ready, isReady, ExclusiveUse, TypeOK, PoolTypeOK
<1>3. performQueue # <<>> /\ UNCHANGED submitted
  BY DEF Dispatch
<1>4. /\ Len(performQueue) \in Nat \ {0} /\ Head(performQueue) = performQueue[1]
      /\ started \in Nat /\ submitted \in Nat
  BY <1>3, Taken, PoolAssumption DEF TypeOK, PoolTypeOK, UserTypeOK
<1>5. Head(performQueue) = started + 1 /\ started < submitted
  BY <1>4 DEF InOrder
<1> QED  BY <1>1, <1>2, <1>3, <1>5 DEF Promise!Start

LEMMA StepDispatches ==
  ASSUME TypeOK, ExclusiveUse, InOrder, [Next]_vars
  PROVE  [Promise!Next]_(Promise!vars)
<1>1. CASE Perform
  BY <1>1 DEF Perform, Promise!Next, Promise!Submit
<1>2. ASSUME NEW w \in Clients, Finish(w)
      PROVE  Promise!Next
  BY <1>2 DEF Finish, Promise!Next, Promise!Finish
<1>3. CASE Dispatch
  BY <1>3, DispatchStarts DEF Promise!Next
<1>4. CASE UNCHANGED <<submitted, started, running>>
  BY <1>4 DEF Promise!vars
<1> QED
  BY <1>1, <1>2, <1>3, <1>4
     DEF vars, userVars, Next, Handlers, IdleTimer, RunPerform, RunConnected,
         RunConnectFailed, RunRelease, RunWake, RunRemove, RunCleanup, EndPerform,
         RemovalTimer, Connect, Refuse, Authenticate, ReadyForQuery, Reject, FailLogin, Close,
         Disconnected

(* The pool implements the abstract dispatcher: blocks start in the order  *)
(* of their submission, each once, and on a client that runs no other.     *)
THEOREM PoolDispatches == Spec => Dispatches
<1> DEFINE IInv == TypeOK /\ Fresh /\ ExclusiveUse /\ InOrder
<1>1. Init => IInv
  BY TypeInit, FirstUse, FirstInOrder
<1>2. IInv /\ [Next]_vars => IInv'
  BY TypeStep, FreshStep, ExclusiveUseStep, InOrderStep
<1>3. Init => Promise!Init
  BY DEF Init, Promise!Init
<1>4. IInv /\ [Next]_vars => [Promise!Next]_(Promise!vars)
  BY StepDispatches
<1> QED  BY <1>1, <1>2, <1>3, <1>4, PTL DEF Spec, Dispatches, Promise!Spec

-----------------------------------------------------------------------------
(***************************************************************************)
(* Wake-ups.                                                               *)
(***************************************************************************)
LEMMA WakeAppended ==
  ASSUME queue \in Seq(Tasks), NEW t \in Tasks, queue' = Append(queue, t),
         WakePending \/ t.type \in {"perform", "wake", "connected"}
  PROVE  WakePending'
<1>1. CASE WakePending
  BY <1>1, Appended DEF WakePending
<1>2. CASE t.type \in {"perform", "wake", "connected"}
  <2>1. /\ Len(queue) + 1 \in 1 .. Len(queue')
        /\ queue'[Len(queue) + 1].type \in {"perform", "wake", "connected"}
    BY <1>2, Appended
  <2> QED  BY <2>1 DEF WakePending
<1> QED  BY <1>1, <1>2

LEMMA WakeTaken ==
  ASSUME queue \in Seq(Tasks), queue # <<>>, queue' = Tail(queue), WakePending,
         Head(queue).type \notin {"perform", "wake", "connected"}
  PROVE  WakePending'
<1>1. PICK i \in 1 .. Len(queue) : queue[i].type \in {"perform", "wake", "connected"}
  BY DEF WakePending
<1>2. i # 1
  BY <1>1, Taken
<1>3. i - 1 \in 1 .. Len(queue') /\ queue'[i - 1] = queue[i]
  BY <1>1, <1>2, Taken
<1> QED  BY <1>1, <1>3 DEF WakePending

(* Only the three handlers that run _perform use up a wake-up.             *)
LEMMA WakeKept ==
  ASSUME TypeOK, [Next]_vars, ~RunPerform, ~RunWake, ~RunConnected, ~RunRelease,
         WakePending
  PROVE  WakePending'
<1>1. queue \in Seq(Tasks)
  BY DEF TypeOK, LoopTypeOK
<1>2. CASE queue' = queue
  BY <1>2 DEF WakePending
<1>3. CASE \E t \in Tasks : queue' = Append(queue, t)
  BY <1>1, <1>3, WakeAppended
<1>4. CASE RunConnectFailed \/ RunRemove \/ RunCleanup
  <2>1. \/ queue' = queue
        \/ queue # <<>> /\ queue' = Tail(queue)
           /\ Head(queue).type \notin {"perform", "wake", "connected"}
    BY <1>4 DEF RunConnectFailed, RunRemove, RunCleanup, Take
  <2> QED  BY <1>1, <1>2, <2>1, WakeTaken
<1>5. CASE Perform
  <2>1. submitted + 1 \in 1 .. MaxBlocks
    BY <1>5, PoolAssumption DEF Perform, TypeOK, UserTypeOK
  <2> QED  BY <1>3, <1>5, <2>1, TaskTypes DEF Perform
<1>6. CASE IdleTimer
  BY <1>3, <1>6, TaskTypes DEF IdleTimer
<1>7. ASSUME NEW w \in Clients,
             Finish(w) \/ RemovalTimer(w) \/ ReadyForQuery(w) \/ Reject(w) \/ FailLogin(w)
               \/ Disconnected(w)
      PROVE  queue' = queue \/ \E t \in Tasks : queue' = Append(queue, t)
  BY <1>7, TaskTypes DEF Finish, RemovalTimer, ReadyForQuery, Reject, FailLogin, Disconnected
<1>8. CASE Dispatch \/ EndPerform
  BY <1>2, <1>8 DEF Dispatch, EndPerform
<1> QED
  BY <1>2, <1>3, <1>4, <1>5, <1>6, <1>7, <1>8
     DEF vars, Next, Handlers, Connect, Refuse, Authenticate, Close

LEMMA NoLostWakeupStep ==
  ASSUME TypeOK, Fresh, NoLostWakeup, [Next]_vars
  PROVE  NoLostWakeup'
<1> SUFFICES ASSUME ~performing', performQueue' # <<>>,
                    NEW w \in Ready', w \notin owed', w \notin closing'
             PROVE  WakePending'
  BY DEF NoLostWakeup
<1>1. queue \in Seq(Tasks) /\ w \in Clients /\ link'[w] = "connected"
      /\ w \in workers' /\ isAvailable'[w] /\ w \in isAuthenticated'
  BY TypeStep DEF Ready, isReady, TypeOK, LoopTypeOK, PoolTypeOK
<1>2. CASE RunPerform \/ RunWake \/ RunConnected \/ Dispatch
  BY <1>2 DEF RunPerform, RunWake, RunConnected, Dispatch, loopVars
<1>3. CASE EndPerform
  <2>1. performQueue # <<>> /\ Ready = {} /\ isAuthenticated' = isAuthenticated
    BY <1>3 DEF EndPerform
  <2>2. w \in Ready
    BY <1>1, <1>3, <2>1
       DEF EndPerform, CreateClient, Ready, isReady, TypeOK, PoolTypeOK, ClientTypeOK
  <2> QED  BY <2>1, <2>2
<1>4. CASE RunRelease
  <2>1. queue # <<>> /\ queue' = Append(Tail(queue), Task("wake", 0))
    BY <1>4 DEF RunRelease, Take
  <2>2. /\ Len(Tail(queue)) + 1 \in 1 .. Len(queue')
        /\ queue'[Len(Tail(queue)) + 1] = Task("wake", 0)
    BY <1>1, <2>1, Taken, Appended, TaskTypes
  <2> QED  BY <2>2 DEF WakePending, Task
<1>5. ASSUME NEW v \in Clients, ReadyForQuery(v)
      PROVE  WakePending'
  <2>1. queue' = Append(queue, Task("connected", v))
    BY <1>5 DEF ReadyForQuery
  <2> QED  BY <1>1, <2>1, WakeAppended, TaskTypes DEF Task
<1>6. CASE /\ ~RunPerform /\ ~RunWake /\ ~RunConnected /\ ~Dispatch /\ ~EndPerform
           /\ ~RunRelease /\ \A v \in Clients : ~ReadyForQuery(v)
  <2>1. UNCHANGED <<performing, performQueue, isAvailable>>
        /\ workers' \subseteq workers /\ closing \subseteq closing'
        /\ \A v \in owed : v \in owed' \cup closing' \/ link'[v] # "connected"
    BY <1>6 DEF vars, poolVars, loopVars, clientVars, Next, Handlers, Perform,
       IdleTimer, RunConnectFailed, RunRemove, RunCleanup, Disconnecting, Finish,
       RemovalTimer, Connect, Refuse, Authenticate, Reject, FailLogin, Close, Disconnected
  <2>2. link[w] = "connected" /\ w \in isAuthenticated
    BY <1>1, <1>6, <2>1
       DEF Fresh, TypeOK, ClientTypeOK, vars, clientVars, Next, Handlers, Perform,
       IdleTimer, RunConnectFailed, RunRemove, RunCleanup, Finish, RemovalTimer,
       Connect, Refuse, Authenticate, Reject, FailLogin, Close, Disconnected
  <2>3. WakePending
    BY <1>1, <2>1, <2>2 DEF NoLostWakeup, Ready, isReady
  <2> QED  BY <1>6, <2>3, WakeKept
<1> QED  BY <1>2, <1>3, <1>4, <1>5, <1>6

(* A block never waits beside a live, ready client with no wake-up coming. *)
THEOREM WakeupsAreKept == Spec => []NoLostWakeup
<1> DEFINE IInv == TypeOK /\ Fresh /\ ExclusiveUse /\ NoLostWakeup
<1>1. Init => IInv
  BY TypeInit, FirstUse DEF Init, NoLostWakeup
<1>2. IInv /\ [Next]_vars => IInv'
  BY TypeStep, FreshStep, ExclusiveUseStep, NoLostWakeupStep
<1> QED  BY <1>1, <1>2, PTL DEF Spec

-----------------------------------------------------------------------------
(***************************************************************************)
(* Removal.  A client whose removal is on its way is closing or closed.    *)
(***************************************************************************)
Dead == closing \cup {w \in Clients : link[w] \in {"closed", "gone"}}

Removals ==    \* the tasks that may be queued
  {t \in Tasks : t.type \in {"connectFailed", "remove"} => t.id \in Dead}

OnlyDeadRemoved == queue \in Seq(Removals) /\ expiring \subseteq Dead

LEMMA SeqMonotone ==
  ASSUME NEW S, NEW T, S \subseteq T, NEW q \in Seq(S)
  PROVE  q \in Seq(T)
  OBVIOUS

LEMMA DeadStep ==
  ASSUME TypeOK, [Next]_vars
  PROVE  Dead \subseteq Dead' /\ Removals \subseteq Removals'
<1>1. closing \subseteq closing'
  BY DEF vars, clientVars, Next, Handlers, Perform, IdleTimer, RunPerform, RunConnected,
     RunConnectFailed, RunRelease, RunWake, RunRemove, RunCleanup, Disconnecting,
     Dispatch, EndPerform, Finish, RemovalTimer, Connect, Refuse, Authenticate,
     ReadyForQuery, Reject, FailLogin, Close, Disconnected
<1>2. \A w \in Clients : link[w] \in {"closed", "gone"} => link'[w] \in {"closed", "gone"}
  BY DEF TypeOK, ClientTypeOK, vars, clientVars, Next, Handlers, Perform, IdleTimer,
     RunPerform, RunConnected, RunConnectFailed, RunRelease, RunWake, RunRemove,
     RunCleanup, Dispatch, EndPerform, CreateClient, Finish, RemovalTimer, Connect,
     Refuse, Authenticate, ReadyForQuery, Reject, FailLogin, Close, Disconnected
<1>3. Dead \subseteq Dead'
  BY <1>1, <1>2 DEF Dead
<1> QED  BY <1>3 DEF Removals

LEMMA OnlyDeadRemovedStep ==
  ASSUME TypeOK, OnlyDeadRemoved, [Next]_vars
  PROVE  OnlyDeadRemoved'
<1>1. /\ queue \in Seq(Removals') /\ expiring \subseteq Dead'
  BY DeadStep, SeqMonotone DEF OnlyDeadRemoved
<1>2. CASE queue' = queue /\ expiring' \subseteq expiring
  BY <1>1, <1>2 DEF OnlyDeadRemoved
<1>3. ASSUME NEW t \in Removals', queue' = Append(queue, t), expiring' \subseteq expiring
      PROVE  OnlyDeadRemoved'
  BY <1>1, <1>3, Appended DEF OnlyDeadRemoved
<1>4. CASE queue # <<>> /\ queue' = Tail(queue) /\ expiring' = expiring
  BY <1>1, <1>4, Taken DEF OnlyDeadRemoved
<1>5. \A t \in Tasks : t.type \notin {"connectFailed", "remove"} => t \in Removals'
  BY DEF Removals
<1>6. CASE Perform
  <2>1. submitted + 1 \in 1 .. MaxBlocks
    BY <1>6, PoolAssumption DEF Perform, TypeOK, UserTypeOK
  <2>2. Task("perform", submitted + 1) \in Removals'
    BY <1>5, <2>1, TaskTypes DEF Task
  <2> QED  BY <1>3, <1>6, <2>2 DEF Perform, clientVars
<1>7. CASE IdleTimer
  BY <1>3, <1>5, <1>7, TaskTypes DEF IdleTimer, Task, clientVars
<1>8. CASE RunRelease
  <2>1. Tail(queue) \in Seq(Removals') /\ Task("wake", 0) \in Removals'
    BY <1>1, <1>5, <1>8, Taken, TaskTypes DEF RunRelease, Take, Task
  <2>2. queue' \in Seq(Removals')
    BY <1>8, <2>1, Appended DEF RunRelease
  <2> QED  BY <1>1, <1>8, <2>2 DEF RunRelease, clientVars, OnlyDeadRemoved
<1>9. CASE RunConnectFailed
  <2>1. queue # <<>> /\ Head(queue).type = "connectFailed" /\ queue' = Tail(queue)
        /\ expiring' = expiring \cup {Head(queue).id}
    BY <1>9 DEF RunConnectFailed, Take
  <2>2. Head(queue) \in Removals' /\ queue' \in Seq(Removals')
    BY <1>1, <2>1, Taken
  <2> QED  BY <1>1, <2>1, <2>2 DEF OnlyDeadRemoved, Removals
<1>10. CASE RunPerform \/ RunConnected \/ RunWake \/ RunRemove \/ RunCleanup
  <2>1. expiring' = expiring
    BY <1>10 DEF RunPerform, RunConnected, RunWake, RunRemove, RunCleanup, clientVars
  <2>2. CASE RunPerform \/ RunConnected \/ RunWake \/ RunRemove
    BY <1>4, <2>1, <2>2 DEF RunPerform, RunConnected, RunWake, RunRemove, Take
  <2>3. CASE RunCleanup
    <3>1. queue # <<>> /\ (queue' = queue \/ queue' = Tail(queue))
      BY <2>3 DEF RunCleanup, Take
    <3> QED  BY <1>2, <1>4, <2>1, <3>1
  <2> QED  BY <1>10, <2>2, <2>3
<1>11. ASSUME NEW w \in Clients, RemovalTimer(w)
       PROVE  OnlyDeadRemoved'
  <2>1. Task("remove", w) \in Removals'
    BY <1>1, <1>11, TaskTypes DEF RemovalTimer, Removals, Task
  <2> QED  BY <1>3, <1>11, <2>1 DEF RemovalTimer
<1>12. ASSUME NEW w \in Clients, Finish(w) \/ ReadyForQuery(w)
       PROVE  OnlyDeadRemoved'
  BY <1>3, <1>5, <1>12, TaskTypes DEF Finish, ReadyForQuery, Task, clientVars
<1>13. ASSUME NEW w \in Clients, Reject(w) \/ FailLogin(w)
       PROVE  OnlyDeadRemoved'
  <2>1. w \in Dead'
    BY <1>13 DEF Reject, FailLogin, Dead
  <2>2. Task("connectFailed", w) \in Removals'
    BY <2>1, TaskTypes DEF Removals, Task
  <2> QED  BY <1>3, <1>13, <2>2 DEF Reject, FailLogin
<1>14. ASSUME NEW w \in Clients, Disconnected(w)
       PROVE  OnlyDeadRemoved'
  <2>1. w \in Dead'
    BY <1>14 DEF Disconnected, Dead, TypeOK, ClientTypeOK
  <2>2. Task("remove", w) \in Removals'
    BY <2>1, TaskTypes DEF Removals, Task
  <2> QED  BY <1>2, <1>3, <1>14, <2>2 DEF Disconnected
<1>15. CASE UNCHANGED vars \/ Dispatch \/ EndPerform
            \/ \E w \in Clients : Connect(w) \/ Refuse(w) \/ Authenticate(w) \/ Close(w)
  BY <1>2, <1>15
     DEF vars, clientVars, Dispatch, EndPerform, Connect, Refuse, Authenticate, Close
<1> QED
  BY <1>6, <1>7, <1>8, <1>9, <1>10, <1>11, <1>12, <1>13, <1>14, <1>15
     DEF Next, Handlers

LEMMA RemovedIsDead ==
  ASSUME OnlyDeadRemoved, RunRemove
  PROVE  Head(queue).id \in Dead
  BY Taken DEF OnlyDeadRemoved, RunRemove, Take, Removals

LEMMA NoStrayConnectionStep ==
  ASSUME TypeOK, OnlyDeadRemoved, NoStrayConnection, [Next]_vars
  PROVE  NoStrayConnection'
<1> SUFFICES ASSUME NEW w \in Clients, link'[w] \in {"connecting", "connected"}
             PROVE  w \in workers' \cup closing'
  BY DEF NoStrayConnection
<1>1. CASE RunRemove
  <2>1. Head(queue).id \in Dead
    BY <1>1, RemovedIsDead
  <2>2. /\ workers' = workers \ {Head(queue).id} /\ link' = link
        /\ closing' = closing \cup {v \in {Head(queue).id} : link[v] = "connected"}
    BY <1>1 DEF RunRemove, Disconnecting
  <2>3. CASE w = Head(queue).id
    BY <2>1, <2>2, <2>3 DEF Dead
  <2>4. CASE w # Head(queue).id
    BY <2>2, <2>4 DEF NoStrayConnection
  <2> QED  BY <2>3, <2>4
<1>2. CASE RunCleanup
  BY <1>2 DEF RunCleanup, poolVars, Disconnecting, Unused, Ready, isReady, NoStrayConnection
<1>3. CASE EndPerform
  BY <1>3 DEF EndPerform, CreateClient, NoStrayConnection, TypeOK, ClientTypeOK
<1>4. CASE ~RunRemove /\ ~RunCleanup /\ ~EndPerform
  <2>1. workers' = workers /\ closing \subseteq closing'
    BY <1>4 DEF vars, poolVars, clientVars, Next, Handlers, Perform, IdleTimer,
       RunPerform, RunConnected, RunConnectFailed, RunRelease, RunWake, Dispatch,
       Finish, RemovalTimer, Connect, Refuse, Authenticate, ReadyForQuery, Reject, FailLogin,
       Close, Disconnected
  <2>2. link[w] \in {"connecting", "connected"}
    BY <1>4 DEF TypeOK, ClientTypeOK, vars, clientVars, Next, Handlers, Perform,
       IdleTimer, RunPerform, RunConnected, RunConnectFailed, RunRelease, RunWake,
       Dispatch, Finish, RemovalTimer, Connect, Refuse, Authenticate, ReadyForQuery,
       Reject, FailLogin, Close, Disconnected
  <2> QED  BY <2>1, <2>2 DEF NoStrayConnection
<1> QED  BY <1>1, <1>2, <1>3, <1>4

LEMMA FirstRemovals == Init => OnlyDeadRemoved /\ NoStrayConnection
  BY DEF Init, OnlyDeadRemoved, NoStrayConnection

(* Removing workers never leaves an open connection that is neither in the *)
(* pool nor about to close.                                                *)
THEOREM ConnectionsAccountedFor == Spec => []NoStrayConnection
<1> DEFINE IInv == TypeOK /\ OnlyDeadRemoved /\ NoStrayConnection
<1>1. Init => IInv
  BY TypeInit, FirstRemovals
<1>2. IInv /\ [Next]_vars => IInv'
  BY TypeStep, OnlyDeadRemovedStep, NoStrayConnectionStep
<1> QED  BY <1>1, <1>2, PTL DEF Spec

LEMMA CutOffStep ==
  ASSUME TypeOK, ExclusiveUse, OnlyDeadRemoved, RunRemove \/ RunCleanup,
         NEW w \in closing' \ closing
  PROVE  running[w] = 0 /\ ~Returning(w)
<1>1. ~RunRemove
  <2>1. SUFFICES ASSUME RunRemove PROVE FALSE
    OBVIOUS
  <2>2. Head(queue).id \in Dead /\ w = Head(queue).id /\ link[w] = "connected"
    BY <2>1, RemovedIsDead DEF RunRemove, Disconnecting
  <2> QED  BY <2>2 DEF Dead
<1>2. w \in Ready
  BY <1>1 DEF RunCleanup, Disconnecting, Unused
<1> QED  BY <1>2 DEF Ready, isReady, ExclusiveUse, TypeOK, PoolTypeOK

(* Neither the idle timer nor a removal disconnects a client in use.       *)
THEOREM BusyClientsStay == Spec => NeverCutOff
<1> DEFINE IInv == TypeOK /\ Fresh /\ ExclusiveUse /\ OnlyDeadRemoved
           Step == RunRemove \/ RunCleanup =>
                     \A w \in closing' \ closing : running[w] = 0 /\ ~Returning(w)
<1>1. Init => IInv
  BY TypeInit, FirstUse, FirstRemovals
<1>2. IInv /\ [Next]_vars => IInv'
  BY TypeStep, FreshStep, ExclusiveUseStep, OnlyDeadRemovedStep
<1>3. IInv /\ [Next]_vars => [Step]_vars
  BY CutOffStep
<1> QED  BY <1>1, <1>2, <1>3, PTL DEF Spec, NeverCutOff
=============================================================================
