# PG.swift in TLA+

A verification project for PG.swift, a PostgreSQL client library written in
Swift on dispatch queues and SwiftNIO. The modules here model the library's own
logic: the connection pool, the client and its query queue, the connection's
message processing, the socket's reading, the event emitter on which all of them
hang, the bytes of the messages, the conversions of values, and the two static
functions that create and drop databases. TLC checks them on small instances;
TLAPS proves every safety property that holds of the pool, the client, the
emitter, the reader, the messages, the values and the two static functions for
every value of their constants; liveness is left to TLC.

Paths below are relative to the repository. Note that it has both `Sources/PG`
and `Sources/pg`.

## 1. Inventory

| Part | State it keeps | Operations | Interacts with |
|---|---|---|---|
| `Pool` (`Sources/PG/Pool.swift`) | `workers` (client, `isAvailable`), `performQueue`, `numberOfWorkersUsed`, a serial queue, an idle timer | `perform`, `exec`, `_perform`, `createClient`, `remove`, `cleanupIdleWorkers`, `Worker.perform` | calls `Client.connect`/`disconnect`; observes `disconnected` and `becameAvailable` |
| `Client` (`Sources/pg/Client.swift`) | `connection`, `queryQueue`, `preparedStatements`, a serial queue; each operation's observers, `fields`, `rows`; `connect`'s completion | `connect`, `startup`, `disconnect`, `exec`, `prepare`, `executeQuery`, `createDatabase`, `dropDatabase` | sends through `Connection`; observes its events on the client's queue |
| `Connection` (`Sources/pg/Connection.swift`, `Sources/PG/Connection+*.swift`) | `transactionStatus`, `isAuthenticated`, parameters, a serial queue | `read`, `process`, `simpleQuery`, `parse`, `bind`, `describePortal`, `execute`, `sync`, `sendStartup`, `sendPassword` | asks the socket for bytes; emits an event per message |
| `NIOSocket` (`Sources/PG/AsyncSocket.swift`) | `channel`, `inputBuffer`, `readQueue`, a serial queue | `connect`, `close`, `write`, `read`, `performRead`, `channelRead`, `errorCaught` | SwiftNIO's event loop; emits `connected` and `closed` |
| `EventEmitter` (`Sources/pg/EventEmitter.swift`) | `observers`, a serial queue per event | `emit`, `observe`, `once`, `remove` | every part |
| `Query`, `Statement` (`Sources/pg/Query.swift`) | text, bindings, statement, the `completed` event shared by all copies of a query | `createStatement`, `update` | used by `Client` |
| Messages, `QueryResult`, `ServerError`, `NetworkOrderable`, `Field` | the bytes of one message | `read`, `write`, `QueryResult.init` | used by `Connection` and `Client` |
| Types (`Sources/PG/Types`, `Sources/pg/Types`) | none | text and binary conversions, `TypeParser` | used by `bind` and by rows |

What is hard about this code is that everything is asynchronous and nothing
waits: `observe` and `remove` return before they have done anything; an event
becomes a task on the observer's queue and is run there whatever has happened
since; a connection's status is set on one queue and its consequences are drawn
on another; clients connect, fail and leave while the pool's queue hands them
out. `hazards` in `PROJECT.json` lists 40 places where that, a boundary or a
failure can bite, with the property that would notice.

What makes each part correct:

- **Pool**: one user per client; blocks in order and none lost; no wake-up lost;
  no more connections than allowed, none left open outside the pool, none closed
  under its user; every block started while nothing fails.
- **Client**: every callback gets its own query's outcome; the login's completion
  reports the login, failed writes included; the statements it believes prepared are; one exchange at a
  time, in order; every request answered.
- **Reading**: every message whole, once and in order, wherever the stream is cut.
- **EventEmitter**: an event reaches exactly its audience, in order.
- **Messages**: what one side meant is what the other understands.
- **Types**: a value comes back as it was or not at all, in either form.
- **createDatabase, dropDatabase**: what the completion is told is true of the
  server, whatever other calls do meanwhile, and the connection is given back.

## 2. Modules

| Module | Models | Abstract specification |
|---|---|---|
| `Pool` | the pool, its queue, and clients as the pool sees them | `Dispatcher` |
| `PoolProofs` | theorems about `Pool` | |
| `Client` | client, connection's processing, socket's loss, server | `Executor` |
| `ClientProofs` | theorems about `Client` | |
| `ClientAnswersProofs` | theorems about what `Client`'s callbacks are told | |
| `Database` | `createDatabase` and `dropDatabase`, several calls on one server | |
| `DatabaseProofs` | theorems about `Database` | |
| `Reading` | `NIOSocket.read`, `performRead`, `Connection.read` | `Channel` |
| `ReadingProofs` | theorems about `Reading` | |
| `EventEmitter` | one event with several threads and observers | |
| `EventEmitterProofs` | theorems about `EventEmitter` | |
| `Types` | the conversions of values, `TypeParser`, `Query.update` | |
| `Protocol` | the bytes of the messages; composes `Types` with them | |
| `ProtocolProofs` | theorems about `Protocol` and `Types` | |
| `RecursionLemmas` | recursive functions over numbers and lists, for the two proof modules that need them | |

Every module is its own model-checking module: the bounds are constants, and the
`MC_*.cfg` files give them values. An operator whose comment calls it a *mutant*
is a wrong variant of the operator that follows it, named in `PROJECT.json`; no
specification uses it. Substituting it shows that the property it is listed with
would notice that mistake.

### Pool

The pool touches its properties only on a serial dispatch queue. `queue` is that
queue: tasks named after what put them there (`perform`, `connected`,
`connectFailed`, `release`, `wake`, `remove`, `cleanup`). A handler is one action,
except that `_perform`'s loop reads `isReady` anew for every block while clients
change on threads of their own: `Dispatch` is one turn of the loop, `EndPerform`
what follows it, and `performing` keeps the queue from running anything else in
between. `workers` is a set of numbers in order of creation: the array only grows
at its end and is only filtered. A client is `link[w]`, `isAuthenticated`, and the
four things the pool has to do with it: whether its completion is still owed,
whether its `disconnected` event is observed, whether it was asked to close and
whether its 30 second removal timer is armed. A login that the server rejects
(`Reject`) and one that could not be written, because the connection was closed
first (`FailLogin`), call the client's completion with an error.

### Client

Three threads: the program (`Startup`, `Exec`, `Prepare`, `Disconnect`), the
connection's queue (`Process...`: one message, its effect on `transactionStatus`,
and one task on the client's queue per observer registered at that moment), and
the client's queue (`Run...`: one task). `Operation` is the closure `exec` or
`prepare` enqueues, with all it does in one step: skip, fail, or register its
observers, append the statement and send. A socket may be closed on request, be
lost, or break (which emits `closed` twice); messages not yet processed may be
lost with it. The server is modelled from the protocol as the client uses it: it
replies to a login and to one request at a time, keeps statements by name, and
refuses a name that is taken or unknown. A write fails on a closed channel
(`Send`), or with the channel that closes before it was flushed (`Cut`); its
completion emits `Connection.error`, which startup's observer takes
(`ReportFailedWrite`, then `RunError`), so `connect`'s completion may be called
with it although the server has not replied. A command that completes is told as
a success only if `QueryResult.init` does not throw (`Readable`): for a tag without
a number (`BEGIN`, `SET`, `CREATE INDEX`: the message `uncounted`), or if rows were
miscounted, the callback is told the error of the `catch` (`unreadable`), and the
observers are removed all the same. Answers, tasks and messages carry the
number of the request that caused them, so that a property can say whose rows are
whose. `EventEmitter`'s queues are collapsed here: the audience of an event is the
set of observers registered when it is emitted, which is what
`EventEmitter!ReachesItsAudience` establishes.

### Database

Each call has a client, a connection and a chain of callbacks of its own; `stage`
is the callback it waits for. The two functions differ only in the lookup that a
create begins with, so one set of actions serves both. What `exec` and `connect`
do is taken from `Client`: a sent query is answered by its own result or error or
by `connecitonLost`, a queued one is not answered when the connection is lost, and
`exec` without a connection answers at once, in the caller's step. A login that
could not be written is told to the completion (`HearFailedWrite`). The server
holds the set of databases that all calls share. `history` records what has been
true of a call's database while the call was under way; it is what
`OutcomeIsTold` compares the completion's argument with, and `told` what the
completion was called with, after which answer and at which stage.

### Reading

`Reading` numbers the bytes of the server's stream and cuts them into chunks
anywhere. A header is looked up by the position it is read at; a reader that lost
its place would read an arbitrary length. `performRead` is a step per turn of its
loop, because its completions enqueue further requests while the event loop
enqueues chunks.

### EventEmitter

The module is the queue of one event with its blocks (`observe`, `remove`, `emit`),
the callers that wait in `emit`, and one target queue. `Assign` is the assignment
of `once`'s variable, which comes after the observer is registered. An observer
may emit the event again, from its own queue or from inside the emit that calls
it (`Emitting`, `Callers`); then it waits like any other caller. `RunRemove`
takes out the one position at which the observer stands, since `TypeOK` says
there is at most one.

### Types and Protocol

Both are sets of pure functions: a step of `Protocol` chooses what the sender
means, `wire` is what it writes and `got` what the receiver reads. A loop of the
code over the fields, columns or values of a message is `Repeat`, a recursive
function of the number of turns taken (`ReadFields`, `ReadList`). On one side of
each step is the code, on the other the protocol as the server implements it. The
widths of the integers are the program's. The bytes of a message have 256 values;
those of a converted value have `Radix` values, 2 in the run, so that TLC can try
every value of every width, the extremes included, and any even number, 256 among
them, in the theorems. `Rounded`
stands for every date and float: Foundation converts them, and only whether there
is a value is modelled.

## 3. Runs

| Run | Bounds | What it shows |
|---|---|---|
| `pool_safety` | 2 connections, 2 blocks, 3 clients, 1 idle check, all faults; 3.1 M states | `TypeOK`, `ExclusiveUse`, `InOrder`, `NoLostWakeup`, `NoStrayConnection`, `NeverCutOff`, and `Dispatches` (refinement of `Dispatcher`) |
| `pool_live` | 2 connections, 2 blocks, 3 clients, rejected logins and lost connections; 0.27 M states | `EveryBlockStarts` while no client fails, `DeadClientsLeave` |
| `pool_stranded` | 2 connections, 2 blocks, 4 clients, rejected logins | **violated** `NeverStranded`: `remove` does not call `_perform` |
| `pool_trapped` | 3 clients, lost connections, 1 idle check | **violated** `NeverTrapped`: `prefix(_:)` with a negative length |
| `client_safety` | 3 requests (`prepare`, and `exec` of prepared statements), two statements of one name, commands whose tag is not read, disconnects and the writes that fail with them; 1.3 M states | `TypeOK`, `OwnAnswers`, `CompletionReportsLogin`, `StatementsAgree`, `ObservedWhileRunning`, and `Executes` (refinement of `Executor`) |
| `client_live` | 3 requests, simple, extended and `prepare`, a socket that may break, a transaction; 0.36 M states | `SentQueriesAnswered`, `EveryRequestAnswered` |
| `client_shared` | 3 calls of `exec` that may share a query | **violated** `OwnAnswers`: the callback of a query that is executed again gets the outcome of another query |
| `client_stalled` | 3 requests | **violated** `EveryExecAnswered`: a `prepare` with nothing to do stalls the queue |
| `database` | 2 calls, one name, every failure; 10,097 states | `OutcomeIsTold`, `ConnectionsAreReturned`, `EveryCallIsAnswered` |
| `reading` | 3 messages, bodies of 0 or 3 bytes, 2 chunks waiting; 0.18 M states | `TypeOK`, `NeverTrapped`, `OneReadAtATime`, `KeepsItsPlace`, `Delivers` (refinement of `Channel`), `EveryMessageProcessed` |
| `emitter` | 2 observers (direct and queued, both by `once`, both may emit), 2 threads, 3 events; 0.18 M states | `TypeOK`, `ReachesItsAudience`, `CalledInOrder`, `OnceIsLastCall`, `EveryoneIsCalled`, `EveryEmitReturns` |
| `protocol` | up to 3 fields, columns, parameters or messages; strings of at most one byte; bytes of 2 values in the conversions; 39,153 states | `ErrorsAreRead`, `RowsAreRead`, `ResultsCountRows`, `MessagesAreFramed`, `RequestsAreUnderstood`, `EchoesAreExact`, `ColumnsAreRead`, `UpdatedBindingsFit` |

Why the bounds are enough. *Pool*: two blocks and two workers suffice for a block
to wait behind another and for two workers to become free in either order; a
third client replaces one that has left; a single idle check after a loss already
reaches the trap. *Client*: two queries interleave (one finishing while the next
is sent), a third waits behind them or reuses the statement of the first; two
statements of one name are needed for a clash and no more. *Reading*: with three
messages the reader is between messages, inside a header and inside a body while
others wait; a body of no bytes is the boundary case, one of three can be cut
twice. *Database*: two calls for one name are every race between a create and a
create, a create and a drop, and two drops; a third call changes the server no
differently, and the theorems hold for any number. *EventEmitter*: three events
are one that is being emitted, one behind it and one that an observer emits; an
observer of each kind is registered, called, and removed by the program or by
itself; observers do not depend on each other, except through the queues. An
observer that is not made by `once` is one whose variable is never assigned.
*Protocol*: the empty string, one byte, and lists of none to three reach every
branch; the bytes 65 and 83 are chosen since 83 is also the type of an error
field, so that misread values are possible. With `Radix` 2 an `Int16` has 4 values
and an `Int64` 256; sign, wrap-around and both extremes occur for every width.

`CHECK_DEADLOCK FALSE` is set everywhere: all systems here may simply stop, when
the program submits nothing more or after a trap, and `Protocol` is one step.

### Fairness

`Pool!Fairness`: a dispatch queue runs what it holds; a block calls the completion
it was given, as the documentation of `perform` requires; a connection attempt
ends; a server that is not cut off completes or rejects the login; a requested
close takes place and is reported; armed timers fire. Nothing is assumed of
failures, the idle timer or new calls. `Client!Fairness`: both queues run, the
server replies, a requested close happens, and a broken channel closes.
`Reading!Fairness`: the network delivers what was sent, both queues run. These
are weak fairness on the queues' steps: each is a serial queue whose next block
stays enabled until it runs. `EventEmitter!Fairness`: both queues run; a thread
or an observer need not emit. `Database!Fairness`: a connection attempt is accepted
or refused, the client's queue sends and hears, the server answers, a requested
close happens. No fairness is assumed of the completion of a failed write
(`FailLogin`, `ReportFailedWrite`, `HearFailedWrite`): a write may be dropped
without one, once `channel` is nil (`AsyncSocket.swift:81`).

### Disagreements found

1. `Pool.remove` frees a place without serving the queue: a block waits in an
   empty pool (`Pool.swift:139`).
2. `cleanupIdleWorkers` subtracts a maximum of the past from a present count and
   may trap (`Pool.swift:149`).
3. A `once` observer is called again for what was emitted before its removal took
   effect (`EventEmitter.swift:127`), and the copies of a `Query` share their
   `completed` event: the callback of a `Query` that is executed a second time may
   be given the outcome of another query (`Client.swift:348`, run `client_shared`).
4. An operation that sends nothing stalls the queue on an idle connection
   (`Client.swift:464`, also 470 and 425).

More disagreements between code and documentation have no run of their own. The
properties leave them open: they hold of the code as it is, and would hold of code
that did what the documentation says (of `connect`'s completion, one of its two
documents).

- **A create that did nothing reports no error.** `createDatabase` calls its
  completion with `connect`'s `error`, which is nil, when its lookup fails or the
  connection is lost during it (`Client.swift:144`); line 129 promises "once the
  database has been created or an error occurs". `OutcomeIsTold` claims nothing
  where the lookup failed (`LookupFailed`). The connection stays open then, and when
  the database exists (excepted in `ConnectionsAreReturned`). The client is not freed
  either, which would disconnect it: the callback of a `once` observer refers to
  the variable that holds the observer (`EventEmitter.swift:125`).
- **The row count of `INSERT`** is the OID in its tag, usually 0, and not the number
  of rows inserted that `QueryResult.swift:38` promises. `ResultsCountRows` claims
  nothing about the count of an `INSERT`.
- **`Int` and `UInt` read binary columns of two and four bytes as 0**
  (`Integer+PostgresCodable.swift:112`), although `QueryResult.swift:144` and `:159`
  say that `Int` handles all sizes. `ColumnsAreRead` claims nothing about them
  (`Narrow`).
- **`exec` on a client that is not connected** calls back with `notConnected` at once
  (`Client.swift:351`), although line 338 says that the query "will be enqued until
  the connection is ready". `OwnAnswers` allows that answer and requires it nowhere.
- **`connect`'s completion.** The two overloads disagree: `connect(with:completion:)`
  documents "Called when the connection has been established and authenticated"
  (`Client.swift:237`), `connect(completion:)` "Note that this does not mean that the
  client has authenticated" (line 220), and the second only calls the first. The code
  waits for `ReadyForQuery` (line 295), that is line 237;
  `CompletionReportsLogin` states that one. Where a completion can be called
  because a write failed, it says no more than that the connection was lost before
  the login was accepted.
- **Copies of a `Query`.** Two calls of `exec` with one `Query` that are both waiting
  are both told of the first outcome, and `prepare`'s callback may be called again,
  with a success or an error of a later request (same cause as 3). `OwnAnswers`
  permits both.
- **An error field of unknown type** is skipped without its value, whose letters are
  then read as field types. `ErrorsAreRead` claims only what precedes it.
- **A `Bool` column in text mode**, `t` or `f`, is always nil, since the initialiser
  that is called knows only `true` and `false`; an unsigned value in the upper
  half comes back as nil in text mode; `Float` and `Double` have no binary form, so
  a binary column of theirs is nil. `EchoesAreExact` claims that a value is never
  another one, and allows nil in these cases.
- **An observer without a queue that emits the same event** waits for itself for
  ever: the condition of `EveryEmitReturns` and `EveryoneIsCalled` excludes it.

That a completed `BEGIN`, `SET` or `CREATE INDEX` is told to the callback as an error
is not among them: `QueryResult.swift:8` documents `invalidCommandResponse` for it.
`OwnAnswers` distinguishes that outcome (`unreadable`) from an error of the server.

## 4. Proofs

### The pool

`PoolProofs` proves, for every `maximumConnections`, every set of faults and every
bound, with `PoolAssumption` (the constants are numbers, at least one connection)
as its only assumption:

| Theorem | Property |
|---|---|
| `TypeCorrect` | `TypeOK`, which includes the limit on connections |
| `OneUserPerClient` | `ExclusiveUse` |
| `BlocksInOrder` | `InOrder` |
| `PoolDispatches` | `Dispatches`: `Pool` implements `Dispatcher` |
| `WakeupsAreKept` | `NoLostWakeup` |
| `ConnectionsAccountedFor` | `NoStrayConnection` |
| `BusyClientsStay` | `NeverCutOff` |

The argument. `TypeOK` is inductive; the limit on workers needs finite-set facts,
and holds because `EndPerform` creates a client only when `HasRoom`.
`ExclusiveUse` is not inductive alone: a client that does not exist yet must have
no release task, no block and no availability (`Fresh`), or its creation would
break it; `TypeOK /\ Fresh /\ ExclusiveUse` is. `InOrder` is inductive with
`TypeOK`; its lemmas say how `Carries` (a queue holds exactly the blocks from one
number to another, in order) changes when a task is appended or taken.
`PoolDispatches` follows from `ExclusiveUse` (the client that is handed a block
runs none) and `InOrder` (the block is the next). `NoLostWakeup` needs
`ExclusiveUse`, to know that a client becoming available comes with a `wake`
task. `NoStrayConnection` needs that removal is only ever on its way for clients
that are dead or closing (`OnlyDeadRemoved`), and `NeverCutOff` follows from that
and `ExclusiveUse`.

### The client

`ClientProofs` proves, for any statements, replies, faults and number of requests,
shared queries included, with `ClientAssumption` (what the constants may be) as its
only assumption:

| Theorem | Property |
|---|---|
| `ClientTypeCorrect` | `TypeOK`: among it, one request at a time |
| `ClientReportsLogin` | `CompletionReportsLogin` |
| `ClientStatementsAgree` | `StatementsAgree` |
| `ClientObservesWhileRunning` | `ObservedWhileRunning` |
| `ClientExecutes` | `Executes`: `Client` implements `Executor` |

The argument. What makes the client correct is spread over its queue, the messages
and the server, so the invariant has a part for each. `Turn`: the connection is
with one party, a message to the server, its reply, or the challenge the client has
yet to answer, and while it is, `transactionStatus` is not idle; a reply ends with
the message that hands the connection back. `Queued`: the operations in
`queryQueue` and then those on the queue are in the order of the calls. `LoggedIn`:
what belongs to a request comes after the server's `ReadyForQuery`. `Completed`:
the completion has been called, or the task that calls it stands before every error
of a request. `Parses`: what the server has under a name the client has in its list,
so that `NameTaken` keeps a name from being parsed twice. `Observed`: an operation
that was not begun has no observers and no tasks, and whoever has observers is still
waited for. The steps are first described in the invariant's terms (`Loses`,
`Processes`, `ServerReplies`, `Executed`, `Calls`, `ObserverRuns`: the lemmas
`...Effect`), and then shown to keep it (`...Keeps`). `ClientExecutes` follows from
the same descriptions (`...Maps`): the connection carries one exchange (`Alone`),
and the operation that is begun is the oldest (`OrderedBegin`).

`ClientAnswersProofs` proves what the callbacks of requests are told:

| Theorem | Property |
|---|---|
| `ClientUnsharedAnswers` | `Unmistaken(r)` of every `prepare` and of every exec whose Query no other exec runs and whose own reply is recognised, whatever the other requests are |
| `ClientOwnAnswers` | `OwnAnswers`, if `ShareQueries` is false and `"empty"` is not in `Replies` |

Both hypotheses of the second are needed. Run `client_shared` shows what happens to
callers that share a Query; and after an `EmptyQueryResponse`, which `process` does
not recognise, the observers of the exec stay and take the next reply. The first
theorem says that neither does harm to anyone else. The outcomes are those the code
tells, the `catch` around `QueryResult.init` included: an exec is told a failure
only if the server sent an error for it, a result only whole, and that its command
is invalid only if it completed with a tag `QueryResult` does not read, whatever
`Replies` holds (`setting`, `begin`).

The argument. The reply to a request is a sequence of messages, and at any moment
each of them has not been received, or is a task on the client's queue, or has been
gathered by the observers of the request. `Matches` says that what is gathered and
what is to come are the reply (`Whole`: the rows are counted, `Describable`: so is the
description), that only messages of the request that has the connection, and tasks
of those before it, are on their way (`Sourced`, `Sequel`), that the observers of a
request stand only where its messages can reach them (`Roles`, `Exclusive`), that
nothing has been gathered before it was sent and nothing is after it was answered
(`Fresh`, `Final`), and what has been answered so far is right (`Answered`). The
message that ends a reply is a task behind those that carry the rows, so that the
exec is concluded when all of them have been gathered (`ConcludesExec`); the observers
of a request that has been sent are those of no other, so that no later message is
taken for one of its own. As for `ClientProofs`, each step is shown to keep it
(`...Matches`).

### The event emitter

`EventEmitterProofs` proves, for any observers, threads and number of events, with
`EmitterAssumption` (which observers are queued, made by `once` or emitting is a
choice among the observers; the names of the queues are not threads):

| Theorem | Property |
|---|---|
| `EmitterTypeCorrect` | `TypeOK`: no observer is in the list twice |
| `EmitterReachesItsAudience` | `ReachesItsAudience` |
| `EmitterCallsInOrder` | `CalledInOrder` |
| `EmitterOnceIsLastCall` | `OnceIsLastCall` |

The argument. The audience of an event is fixed when `emit` is called, but whom it
reaches is decided when its block runs. The invariant follows an observer along
the queue: it is going to be in the list at a position of the queue exactly if it
is there now, or its `observe` block stands before that position, and its `remove`
block does not (`Reaching`, proved equal to the audience for every `emit` block).
That is not inductive without knowing that an observer is registered by one block
and removed after it (`Registered`), that the blocks of emits are in the order of
their events (`Ordered`), and that a caller waits for every event in the queue
(`Awaited`); these are `QueueInv`. `ReachedInv` says of the event that is being
emitted that its audience is called, dispatched or among `rest`. `OrderInv` orders
an observer's calls before its tasks and those before the event under way, and
`OnceInv` bounds by `after` what can still reach an observer that has removed itself.

### The reader

`ReadingProofs` proves, for any set of body lengths, any number of messages and
chunks, and any cut of the stream:

| Theorem | Property |
|---|---|
| `ReadingTypeCorrect` | `TypeOK` |
| `ReadingNeverTraps` | `NeverTrapped` |
| `ReadingAsksOnce` | `OneReadAtATime` |
| `ReadingDelivers` | `Delivers`: `Reading` implements `Channel` |
| `ReadingKeepsItsPlace` | `KeepsItsPlace` |

The argument. Everything follows from where the reader stands in the stream.
`InPlace` says that there is one request outstanding, on the queue or in
`readQueue`, that it asks for the bytes that follow what has been read (`Asks`), and
that the buffer and the chunks on the queue are, in order, the rest of what
has arrived (`Buffered`, `Waiting`, with the positions at which the queued chunks
begin as the witness). With the sent messages a chain without gaps (`Chained`) the
header at that position is the next message's, so its body is asked for whole; and
what was handed over is a prefix of what was sent (`Handed`). `KeepsItsPlace` states
the same place with the bytes themselves, the waiting chunks joined by a fold. The
fold is a recursive function; `Flattened` shows that a function which satisfies its
equations is the one it defines, since two that differ would differ first at some
smallest index (`Least`), and `BlocksJoined` supplies the function from the positions
of the chunks.

### createDatabase and dropDatabase

`DatabaseProofs` proves, for any number of calls, any names and any faults, with
`DatabaseAssumption`:

| Theorem | Property |
|---|---|
| `DatabaseTellsTheOutcome` | `OutcomeIsTold` |
| `DatabaseReturnsConnections` | `ConnectionsAreReturned` |

The argument. An answer may be out of date when it is heard, so the invariant
(`Good`) says of each stage what an answer on its way proves about the call's
history (`Answered`), that the history has seen the present (`Follows`), and that a
call has changed nothing before its own statement was executed (`Changed`). A step
of one call disturbs another only through the set of databases, which `Follows`
absorbs (lemmas `OthersStayGood`, `OthersFollow`). Of a create whose lookup failed
only the second conjunct of `OutcomeIsTold` is claimed, and proved.

### The messages and the values

`ProtocolProofs` proves, for any letters, lengths and numbers within what the widths
in a message allow, and for any even radix of the bytes of a value:

| Theorem | Property |
|---|---|
| `ProtocolErrors` | `ErrorsAreRead` |
| `ProtocolRows` | `RowsAreRead` |
| `ProtocolResults` | `ResultsCountRows` |
| `ProtocolFraming` | `MessagesAreFramed` |
| `ProtocolRequests` | `RequestsAreUnderstood` |
| `ProtocolEchoes` | `EchoesAreExact` |
| `ProtocolColumns` | `ColumnsAreRead` |
| `ProtocolUpdates` | `UpdatedBindingsFit` |

The assumptions are `ProtocolAssumption` and `TypesAssumption`. Letters are bytes
other than 0, a list has no more items than its two-byte count can say, and a
message no more bytes than its four-byte length can: what a program that exceeded
them would send is not a message of the protocol.

The argument. Every step of `Protocol` replaces all four variables by one new
message, so an invariant holds if it holds of every message that may be meant, and
the steps need no induction. The messages do: they are lists of any length. Each
reader has a lemma that says that from what was written, followed by anything, it
reads what was meant and leaves what followed, and a list of such pieces is then
read by induction over the items that are left. Integers go through the powers of
the radix: what `BigEndian` writes are the digits, and `Decoded` puts them together
again, with the sign if the type has one.

### Recursion

Induction over data by a theorem that takes an operator is out of the provers'
reach. Two ways around it are in `RecursionLemmas` and used by `ReadingProofs` and
`ProtocolProofs`: an induction is over a *set* of numbers (one that holds 0 and with
each number its successor holds them all), and a function that satisfies the
equations of a recursive definition is the one it defines, since two that differ
would differ first at some smallest index. A proof then exhibits the function, the
positions of the chunks for instance, or what has been read after each item.

### Only model-checked

The liveness properties (`EveryBlockStarts`, `DeadClientsLeave`,
`SentQueriesAnswered`, `EveryRequestAnswered`, `EveryCallIsAnswered`,
`EveryMessageProcessed`, `EveryoneIsCalled`, `EveryEmitReturns`), which are out of
the prover's reach, and the four runs that end in a violation. Every safety
property of the other runs is a theorem; `OwnAnswers` with the two hypotheses named
above, since it does not hold of every value of the constants (run
`client_shared`).

## 5. Not modelled

- Connecting a client again after a loss, and with it the statements that
  `preparedStatements` still lists for the new connection (the repository's README
  lists reconnects as not handled yet); custom sockets of `connect(with:)`.
- The answer to an empty query string (`EmptyQueryResponse`) is in `Client` as the
  reply `empty`, and no run uses it: it is not recognised, and every property about
  answers fails with it for that one reason.
- `Pool.deinit`; the report of a refused connection, which the code does not make
  (`AsyncSocket.swift:60` has no failure handler): `Refuse` is in `Pool` and in
  `Database`, as a connection of which nobody hears.
- The text of dates and floats (Foundation and the server); columns looked up by
  name; the MD5 hash of a password; `ParameterStatus` and `BackendKeyData`, which
  are only stored; `Result`, `Utils` and the URL parser of `Client.Config`.
- A write that fails while its channel stays open (SwiftNIO has a few reasons for
  one), and the several failures of one request's messages, which count as one.
- A statement that the server executes only after the client has noticed the loss
  of its connection (`Database`).
- SwiftNIO, Foundation's dispatch and the server, beyond how the code uses them.
- Build files, templates, tests, and the bundled Sourcery.app.

## 6. Plan

1. `Client`: connecting again, as an action that renews link and observers and keeps
   `preparedStatements`, once the repository handles it.
2. `Pool` over the clients of `Client` instead of its own view of them, and
   `Pool.deinit`.
