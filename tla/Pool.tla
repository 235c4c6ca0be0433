-------------------------------- MODULE Pool --------------------------------
(***************************************************************************)
(* The connection pool (Pool.swift).  Everything the pool owns is touched  *)
(* only on its serial dispatch queue, so the model is that queue, the      *)
(* handlers it runs one at a time, and the clients, which connect, log in, *)
(* fail and disconnect on threads of their own at any moment in between.   *)
(*                                                                         *)
(* A handler is one action, except for the while loop of _perform: it      *)
(* reads isReady anew for each block, so each iteration is a step and      *)
(* `performing' keeps the queue from running anything else meanwhile.      *)
(*                                                                         *)
(* Clients and blocks are numbered in the order of their creation and of   *)
(* their submission.  The array `workers' only grows at its end and is     *)
(* only filtered, hence always sorted by creation: it is the set of those  *)
(* numbers, first(where:) is the least ready one, prefix(n) the n least.   *)
(***************************************************************************)
EXTENDS Integers, Sequences, FiniteSets

CONSTANTS
  maximumConnections,
  Faults,       \* what can go wrong with a client, see FaultKinds
  MaxBlocks,    \* bound: calls of perform
  MaxClients,   \* bound: clients ever created
  MaxTicks      \* bound: firings of the idle timer

(* refuse: the TCP connection cannot be established;                       *)
(* reject: the server answers the login with a FATAL error;                *)
(* drop:   an established TCP connection is lost.                          *)
FaultKinds == {"refuse", "reject", "drop"}

ASSUME PoolAssumption ==
  /\ maximumConnections \in Nat \ {0}
  /\ Faults \subseteq FaultKinds
  /\ MaxBlocks \in Nat /\ MaxClients \in Nat /\ MaxTicks \in Nat

Clients == 1 .. MaxClients

VARIABLES
  (* the pool's properties *)
  performQueue, workers, isAvailable, numberOfWorkersUsed,
  (* its dispatch queue: blocks waiting to run; the handler in progress *)
  queue, performing, observing, trapped,
  (* the clients, as Worker.isReady and createClient see them *)
  link, isAuthenticated, owed, observed, closing, expiring,
  (* the program: blocks submitted, handed to a client and running *)
  submitted, started, running, ticks

poolVars   == <<performQueue, workers, isAvailable, numberOfWorkersUsed>>
loopVars   == <<performing, observing, trapped>>
clientVars == <<link, isAuthenticated, owed, observed, closing, expiring>>
userVars   == <<submitted, started, running, ticks>>
vars == <<poolVars, queue, loopVars, clientVars, userVars>>

(***************************************************************************)
(* link[w]: "none" until created, "connecting", "refused" (the attempt     *)
(* failed), "connected", "closed" (the channel is inactive), "gone" (the   *)
(* client has emitted `disconnected').                                     *)
(* owed:     clients whose connect completion has not been called          *)
(* observed: clients whose `disconnected' event the pool observes          *)
(* closing:  clients whose socket has been asked to close                  *)
(* expiring: clients with the 30 second removal timer armed                *)
(***************************************************************************)
Links == {"none", "connecting", "refused", "connected", "closed", "gone"}

Task(t, id) == [type |-> t, id |-> id]

Tasks ==
  [type : {"perform"}, id : 1 .. MaxBlocks]
    \cup [type : {"wake", "cleanup"}, id : {0}]
    \cup [type : {"connected", "connectFailed", "release", "remove"}, id : Clients]

PoolTypeOK ==
  /\ performQueue \in Seq(1 .. MaxBlocks)
  /\ workers \subseteq Clients /\ Cardinality(workers) <= maximumConnections
  /\ isAvailable \in [Clients -> BOOLEAN]
  /\ numberOfWorkersUsed \in Nat

LoopTypeOK ==
  /\ queue \in Seq(Tasks)
  /\ performing \in BOOLEAN /\ trapped \in BOOLEAN
  /\ observing \in 0 .. MaxClients

ClientTypeOK ==
  /\ link \in [Clients -> Links]
  /\ isAuthenticated \subseteq Clients
  /\ owed \subseteq Clients /\ observed \subseteq Clients
  /\ closing \subseteq Clients /\ expiring \subseteq Clients

UserTypeOK ==
  /\ submitted \in 0 .. MaxBlocks /\ started \in 0 .. MaxBlocks
  /\ running \in [Clients -> 0 .. MaxBlocks]
  /\ ticks \in 0 .. MaxTicks

(* Every variable has its type, and the pool never holds more workers than *)
(* maximumConnections.                                                     *)
TypeOK == PoolTypeOK /\ LoopTypeOK /\ ClientTypeOK /\ UserTypeOK

Init ==
  /\ performQueue = <<>> /\ workers = {}
  /\ isAvailable = [w \in Clients |-> FALSE]
  /\ numberOfWorkersUsed = 0
  /\ queue = <<>>
  /\ performing = FALSE /\ observing = 0 /\ trapped = FALSE
  /\ link = [w \in Clients |-> "none"]
  /\ isAuthenticated = {} /\ owed = {} /\ observed = {}
  /\ closing = {} /\ expiring = {}
  /\ submitted = 0 /\ started = 0 /\ ticks = 0
  /\ running = [w \in Clients |-> 0]

-----------------------------------------------------------------------------
(* The program that uses the pool, and the timers.                         *)

\* perform(_:) hands its block to the pool's queue.
Perform ==
  /\ ~trapped
  /\ submitted < MaxBlocks
  /\ submitted' = submitted + 1
  /\ queue' = Append(queue, Task("perform", submitted + 1))
  /\ UNCHANGED <<poolVars, loopVars, clientVars, started, running, ticks>>

\* A block calls the completion it was given.
Finish(w) ==
  /\ ~trapped
  /\ running[w] # 0
  /\ running' = [running EXCEPT ![w] = 0]
  /\ queue' = Append(queue, Task("release", w))
  /\ UNCHANGED <<poolVars, loopVars, clientVars, submitted, started, ticks>>

\* The idle timer fires; a dispatch source coalesces firings not yet handled.
IdleTimer ==
  /\ ~trapped
  /\ ticks < MaxTicks
  /\ \A i \in 1 .. Len(queue) : queue[i].type # "cleanup"
  /\ ticks' = ticks + 1
  /\ queue' = Append(queue, Task("cleanup", 0))
  /\ UNCHANGED <<poolVars, loopVars, clientVars, submitted, started, running>>

\* 30 seconds after a failed login.
RemovalTimer(w) ==
  /\ ~trapped
  /\ w \in expiring
  /\ expiring' = expiring \ {w}
  /\ queue' = Append(queue, Task("remove", w))
  /\ UNCHANGED <<poolVars, loopVars, userVars,
                 link, isAuthenticated, owed, observed, closing>>

-----------------------------------------------------------------------------
(* A client: Client.connect and what follows on the client's own queues.   *)

Connect(w) ==
  /\ ~trapped
  /\ link[w] = "connecting"
  /\ link' = [link EXCEPT ![w] = "connected"]
  /\ UNCHANGED <<poolVars, queue, loopVars, userVars,
                 isAuthenticated, owed, observed, closing, expiring>>

\* NIOSocket.connect installs no failure handler: nobody is told.
Refuse(w) ==
  /\ ~trapped
  /\ "refuse" \in Faults
  /\ link[w] = "connecting"
  /\ link' = [link EXCEPT ![w] = "refused"]
  /\ UNCHANGED <<poolVars, queue, loopVars, userVars,
                 isAuthenticated, owed, observed, closing, expiring>>

\* The server accepts the login; isAuthenticated is set at once ...
Authenticate(w) ==
  /\ ~trapped
  /\ link[w] = "connected" /\ w \in owed /\ w \notin isAuthenticated
  /\ isAuthenticated' = isAuthenticated \cup {w}
  /\ UNCHANGED <<poolVars, queue, loopVars, userVars,
                 link, owed, observed, closing, expiring>>

\* ... and connect's completion is called at the first ReadyForQuery, which
\* may still be on its way through the client's queues when the socket closes.
ReadyForQuery(w) ==
  /\ ~trapped
  /\ w \in isAuthenticated /\ w \in owed
  /\ owed' = owed \ {w}
  /\ queue' = Append(queue, Task("connected", w))
  /\ UNCHANGED <<poolVars, loopVars, userVars,
                 link, isAuthenticated, observed, closing, expiring>>

\* A FATAL ErrorResponse: the completion gets the error, the socket is closed.
Reject(w) ==
  /\ ~trapped
  /\ "reject" \in Faults
  /\ link[w] = "connected" /\ w \in owed
  /\ owed' = owed \ {w}
  /\ closing' = closing \cup {w}
  /\ queue' = Append(queue, Task("connectFailed", w))
  /\ UNCHANGED <<poolVars, loopVars, userVars,
                 link, isAuthenticated, observed, expiring>>

\* A message of the login could not be written any more: the completion gets
\* the error of the write, and there is nothing left to close.
FailLogin(w) ==
  /\ ~trapped
  /\ link[w] \in {"closed", "gone"} /\ w \in owed /\ w \notin isAuthenticated
  /\ owed' = owed \ {w}
  /\ queue' = Append(queue, Task("connectFailed", w))
  /\ UNCHANGED <<poolVars, loopVars, userVars,
                 link, isAuthenticated, observed, closing, expiring>>

\* The channel becomes inactive: we closed it, or it was lost.
Close(w) ==
  /\ ~trapped
  /\ link[w] = "connected"
  /\ w \in closing \/ "drop" \in Faults
  /\ link' = [link EXCEPT ![w] = "closed"]
  /\ UNCHANGED <<poolVars, queue, loopVars, userVars,
                 isAuthenticated, owed, observed, closing, expiring>>

\* The client emits `disconnected' to whoever observes it by now.
Disconnected(w) ==
  /\ ~trapped
  /\ link[w] = "closed"
  /\ link' = [link EXCEPT ![w] = "gone"]
  /\ queue' = IF w \in observed THEN Append(queue, Task("remove", w)) ELSE queue
  /\ UNCHANGED <<poolVars, loopVars, userVars,
                 isAuthenticated, owed, observed, closing, expiring>>

-----------------------------------------------------------------------------
(* The handlers on the pool's queue.                                       *)

\* Mutant: a worker is ready whenever its client is.
isReadyAlways(w) == link[w] = "connected" /\ w \in isAuthenticated

isReady(w) == isAvailable[w] /\ link[w] = "connected" /\ w \in isAuthenticated

Ready == {w \in workers : isReady(w)}

Larger(a, b) == IF a < b THEN b ELSE a

\* The queue takes its next block, of type t.
Take(t) ==
  /\ ~performing /\ ~trapped
  /\ queue # <<>> /\ Head(queue).type = t

\* Mutant: remove only filters the worker out of the array.
DisconnectingNone(ws) == closing

\* client.disconnect(): there is a socket to close only once it is connected.
Disconnecting(ws) == closing \cup {w \in ws : link[w] = "connected"}

\* Mutant: the block is inserted in front of those that wait.
RunPerformFirst ==
  /\ Take("perform")
  /\ performQueue' = <<Head(queue).id>> \o performQueue
  /\ performing' = TRUE
  /\ queue' = Tail(queue)
  /\ UNCHANGED <<workers, isAvailable, numberOfWorkersUsed, observing, trapped,
                 clientVars, userVars>>

\* The block perform(_:) dispatched: append, then _perform.
RunPerform ==
  /\ Take("perform")
  /\ performQueue' = Append(performQueue, Head(queue).id)
  /\ performing' = TRUE
  /\ queue' = Tail(queue)
  /\ UNCHANGED <<workers, isAvailable, numberOfWorkersUsed, observing, trapped,
                 clientVars, userVars>>

\* Mutant: the client is observed, but _perform is not called.
RunConnectedOnly ==
  /\ Take("connected")
  /\ observed' = observed \cup {Head(queue).id}
  /\ queue' = Tail(queue)
  /\ UNCHANGED <<poolVars, loopVars, userVars,
                 link, isAuthenticated, owed, closing, expiring>>

\* connect succeeded: _perform, then observe the client's disconnected event.
RunConnected ==
  /\ Take("connected")
  /\ performing' = TRUE
  /\ observing' = Head(queue).id
  /\ queue' = Tail(queue)
  /\ UNCHANGED <<poolVars, trapped, clientVars, userVars>>

\* Mutant: the error is printed and nothing else.
RunConnectFailedOnly ==
  /\ Take("connectFailed")
  /\ queue' = Tail(queue)
  /\ UNCHANGED <<poolVars, loopVars, clientVars, userVars>>

\* connect failed: remove the worker in 30 seconds.
RunConnectFailed ==
  /\ Take("connectFailed")
  /\ expiring' = expiring \cup {Head(queue).id}
  /\ queue' = Tail(queue)
  /\ UNCHANGED <<poolVars, loopVars, userVars,
                 link, isAuthenticated, owed, observed, closing>>

\* Mutant: becameAvailable is not emitted.
RunReleaseOnly ==
  /\ Take("release")
  /\ isAvailable' = [isAvailable EXCEPT ![Head(queue).id] = TRUE]
  /\ queue' = Tail(queue)
  /\ UNCHANGED <<performQueue, workers, numberOfWorkersUsed, loopVars,
                 clientVars, userVars>>

\* Worker.perform's completion: available again; becameAvailable dispatches
\* the pool's observer to the queue.
RunRelease ==
  /\ Take("release")
  /\ isAvailable' = [isAvailable EXCEPT ![Head(queue).id] = TRUE]
  /\ queue' = Append(Tail(queue), Task("wake", 0))
  /\ UNCHANGED <<performQueue, workers, numberOfWorkersUsed, loopVars,
                 clientVars, userVars>>

RunWake ==
  /\ Take("wake")
  /\ performing' = TRUE
  /\ queue' = Tail(queue)
  /\ UNCHANGED <<poolVars, observing, trapped, clientVars, userVars>>

RunRemove ==
  /\ Take("remove")
  /\ workers' = workers \ {Head(queue).id}
  /\ closing' = Disconnecting({Head(queue).id})
  /\ queue' = Tail(queue)
  /\ UNCHANGED <<performQueue, isAvailable, numberOfWorkersUsed, loopVars,
                 link, isAuthenticated, owed, observed, expiring, userVars>>

\* Mutant: the first n workers, ready or not.
UnusedAny(n) == {w \in workers : Cardinality({v \in workers : v <= w}) <= n}

\* The workers cleanupIdleWorkers removes: the first n of the ready ones.
Unused(n) ==
  {w \in Ready : Cardinality({v \in Ready : v <= w}) <= n}

\* cleanupIdleWorkers; prefix(_:) with a negative length stops the process.
RunCleanup ==
  /\ Take("cleanup")
  /\ LET n == Cardinality(workers) - numberOfWorkersUsed
     IN  \/ /\ n < 0
            /\ trapped' = TRUE
            /\ UNCHANGED <<poolVars, queue, closing>>
         \/ /\ n >= 0
            /\ workers' = workers \ Unused(n)
            /\ closing' = Disconnecting(Unused(n))
            /\ numberOfWorkersUsed' = 0
            /\ queue' = Tail(queue)
            /\ UNCHANGED <<performQueue, isAvailable, trapped>>
  /\ UNCHANGED <<performing, observing, userVars,
                 link, isAuthenticated, owed, observed, expiring>>

\* One iteration of _perform's loop: the first ready worker takes the block.
Dispatch ==
  /\ performing /\ performQueue # <<>>
  /\ \E w \in Ready :
       /\ \A v \in Ready : w <= v
       /\ performQueue' = Tail(performQueue)
       /\ isAvailable' = [isAvailable EXCEPT ![w] = FALSE]
       /\ running' = [running EXCEPT ![w] = Head(performQueue)]
       /\ started' = Head(performQueue)
       /\ numberOfWorkersUsed' =
            Larger(numberOfWorkersUsed, Cardinality(workers \ (Ready \ {w})))
  /\ UNCHANGED <<workers, queue, loopVars, clientVars, submitted, ticks>>

\* Mutant: one client too many.
HasRoomForOneMore == Cardinality(workers) <= maximumConnections

HasRoom == Cardinality(workers) < maximumConnections

\* createClient: a new worker, last in the array, starts to connect.
CreateClient ==
  \E w \in Clients :
    /\ link[w] = "none"
    /\ \A v \in Clients : v < w => link[v] # "none"
    /\ workers' = workers \cup {w}
    /\ isAvailable' = [isAvailable EXCEPT ![w] = TRUE]
    /\ link' = [link EXCEPT ![w] = "connecting"]
    /\ owed' = owed \cup {w}

\* The loop ends: the queue is empty, or no worker is ready and at most one
\* client is created for whatever waits.
EndPerform ==
  /\ performing
  /\ performQueue = <<>> \/ Ready = {}
  /\ IF performQueue # <<>> /\ HasRoom
     THEN CreateClient
     ELSE UNCHANGED <<workers, isAvailable, link, owed>>
  /\ performing' = FALSE
  /\ observed' = IF observing = 0 THEN observed ELSE observed \cup {observing}
  /\ observing' = 0
  /\ UNCHANGED <<performQueue, numberOfWorkersUsed, queue, trapped,
                 isAuthenticated, closing, expiring, userVars>>

-----------------------------------------------------------------------------
Handlers ==
  \/ RunPerform \/ RunConnected \/ RunConnectFailed \/ RunRelease
  \/ RunWake \/ RunRemove \/ RunCleanup \/ Dispatch \/ EndPerform

Next ==
  \/ Perform \/ IdleTimer \/ Handlers
  \/ \E w \in Clients :
       \/ Finish(w) \/ RemovalTimer(w)
       \/ Connect(w) \/ Refuse(w) \/ Authenticate(w) \/ ReadyForQuery(w)
       \/ Reject(w) \/ FailLogin(w) \/ Close(w) \/ Disconnected(w)

Spec == Init /\ [][Next]_vars

(***************************************************************************)
(* Dispatch queues run what they hold; blocks call their completion, as    *)
(* perform's documentation obliges them to; a connection attempt ends one  *)
(* way or another, a server that is not cut off completes the login, and a *)
(* requested close takes place.  Nothing is assumed of failures, of the    *)
(* idle timer or of new submissions.                                       *)
(***************************************************************************)
Fairness ==
  /\ WF_vars(Handlers)
  /\ \A w \in Clients :
       /\ WF_vars(Finish(w))
       /\ WF_vars(RemovalTimer(w))
       /\ WF_vars(Connect(w) \/ Refuse(w))
       /\ WF_vars(Authenticate(w) \/ Reject(w))
       /\ WF_vars(link[w] = "connected" /\ ReadyForQuery(w))
       /\ WF_vars(w \in closing /\ Close(w))
       /\ WF_vars(Disconnected(w))

FairSpec == Spec /\ Fairness
-----------------------------------------------------------------------------
(* Properties.                                                             *)

(* A client has one user at a time: while a block runs on it, and until    *)
(* the completion of that block has been handled on the pool's queue, the  *)
(* pool does not count it as available; and a client is not forgotten: one *)
(* that is not available runs a block or is on its way back.  Violated if  *)
(* isAvailable is cleared or set a step too early, too late or not at all. *)
Holds(q, t) == \E i \in 1 .. Len(q) : q[i] = t

HoldsOnce(q, t) == \A i, j \in 1 .. Len(q) : q[i] = t /\ q[j] = t => i = j

Returning(w) == Holds(queue, Task("release", w))

ExclusiveUse ==
  \A w \in Clients :
    /\ running[w] # 0 => ~isAvailable[w]
    /\ Returning(w) => running[w] = 0 /\ ~isAvailable[w]
    /\ HoldsOnce(queue, Task("release", w))
    /\ link[w] # "none" /\ ~isAvailable[w] => running[w] # 0 \/ Returning(w)

(* No block is lost, repeated or overtaken on its way from perform(_:)     *)
(* through the dispatch queue and performQueue to a client: the blocks not *)
(* yet started are in the two queues, in the order of their submission.    *)
Arriving(q) == {i \in 1 .. Len(q) : q[i].type = "perform"}

Carries(q, first, last) ==    \* q holds exactly those blocks, in that order
  /\ \A i \in Arriving(q) : q[i].id \in first .. last
  /\ \A i, j \in Arriving(q) : i < j => q[i].id < q[j].id
  /\ \A b \in first .. last : \E i \in Arriving(q) : q[i].id = b

InOrder ==
  /\ started + Len(performQueue) <= submitted
  /\ \A i \in 1 .. Len(performQueue) : performQueue[i] = started + i
  /\ Carries(queue, started + Len(performQueue) + 1, submitted)

(* No lost wake-up among the clients the pool has: a block never waits     *)
(* beside a ready client unless something that will run _perform is on its *)
(* way: a task in the dispatch queue, or the completion the client owes.   *)
(* (A client whose login was rejected looks ready until its socket closes.)*)
(* (Pool.swift calls _perform in four places; leave one out and it fails.) *)
WakePending ==
  \E i \in 1 .. Len(queue) : queue[i].type \in {"perform", "wake", "connected"}

NoLostWakeup ==
  ~performing /\ performQueue # <<>> =>
    \A w \in Ready \ (owed \cup closing) : WakePending

(* Every connection that is open or being opened belongs to a worker of    *)
(* the pool, or has been asked to close: removing a worker never leaves a  *)
(* connection of the server behind that nobody can use or close.           *)
NoStrayConnection ==
  \A w \in Clients :
    link[w] \in {"connecting", "connected"} => w \in workers \cup closing

(* What the pool disconnects, in cleanupIdleWorkers or in remove, is never *)
(* running a block, nor a block's completion away from being free.         *)
NeverCutOff ==
  [][RunRemove \/ RunCleanup =>
       \A w \in closing' \ closing : running[w] = 0 /\ ~Returning(w)]_vars

(* Expected of the code, and violated by it.  "Blocks will be queued up    *)
(* until a client is available.  If needed, and `maximumConnections' has   *)
(* not been reached yet, a new client will be created": a block never      *)
(* waits for an empty pool with nothing on its way that would fill it.     *)
NeverStranded ==
  ~performing /\ queue = <<>> /\ performQueue # <<>> =>
    workers # {} \/ \E w \in Clients : running[w] # 0

(* Expected of the code, and violated by it: checking for idle workers     *)
(* disconnects clients that are not being used, and does not stop the      *)
(* process for having more workers used than there are left.               *)
NeverTrapped == ~trapped

(* The pool is a dispatcher: clients connecting, failing and leaving only  *)
(* decide when blocks start, never their order, number or overlap.         *)
Promise == INSTANCE Dispatcher

Dispatches == Promise!Spec

(* As long as no client has been closed or refused, every block submitted  *)
(* is started, however the clients' logins and the blocks interleave.      *)
EveryBlockStarts ==
  [](\A w \in Clients : w \notin closing /\ link[w] \notin {"refused", "closed"})
    => \A b \in 1 .. MaxBlocks : submitted >= b ~> started >= b

Exhausted ==      \* the bound on clients stops _perform
  performing /\ performQueue # <<>> /\ Ready = {} /\ HasRoom /\ link[MaxClients] # "none"

(* A client whose login failed, or whose connection is lost or closed      *)
(* while the pool observes it, leaves the pool in the end and makes room   *)
(* for another, unless the process has been stopped by prefix(_:).  (One   *)
(* that is lost before createClient's observer is registered stays.)       *)
DeadClientsLeave ==
  \A w \in Clients :
    \/ link[w] = "closed" /\ w \in observed
    \/ Holds(queue, Task("connectFailed", w))
    ~> w \notin workers \/ trapped \/ Exhausted
=============================================================================
