---------------------------- MODULE EventEmitter ----------------------------
(***************************************************************************)
(* An event (EventEmitter.swift).  Its list of observers belongs to a      *)
(* serial queue: observe and remove add a block to it and return at once,  *)
(* emit adds one and waits for it.  An observer is called from the emit's  *)
(* block, or gets a task on a queue of its own (here one, `target').       *)
(* A `once' observer removes itself when it is called, through a variable  *)
(* that `once' assigns only after it has registered the observer.          *)
(* An observer may emit the event again: from the task on its own queue,   *)
(* or from inside the emit that calls it, which then waits for itself.     *)
(*                                                                         *)
(* Events are numbered in the order emit is called.                        *)
(***************************************************************************)
EXTENDS Naturals, Sequences, FiniteSets

CONSTANTS
  Observers,
  Queued,        \* observers that name a queue
  Once,          \* observers registered by once
  Emitting,      \* observers that may emit the event again when they are called
  Threads,       \* the threads that emit
  MaxEvents      \* bound: events emitted

ASSUME EmitterAssumption ==
  /\ Queued \subseteq Observers /\ Once \subseteq Observers
  /\ Emitting \subseteq Observers /\ MaxEvents \in Nat
  /\ {"emitter", "target"} \cap Threads = {}

VARIABLES
  queue,         \* the emitter's queue
  observers,     \* its list of observers
  event, rest,   \* the event being emitted (0: none), and whom it still has to reach
  target,        \* the queue of the observers in Queued
  waiting,       \* the event that each caller of emit waits for, 0: none
  emitted,       \* how many events have been emitted
  known,         \* observers that have been registered
  assigned,      \* those in Once whose variable has been assigned
  removed,       \* those that have been removed, or have removed themselves
  audience,      \* the observers registered and not removed when an event was emitted
  calls          \* each observer's calls

vars == <<queue, observers, event, rest, target, waiting, emitted, known, assigned,
          removed, audience, calls>>

Events == 1 .. MaxEvents

\* Observers emit from a block of the emitter's queue, or of the target queue.
Callers == Threads \cup {"emitter", "target"}

Block(t, arg) == [type |-> t, arg |-> arg]
Blocks == [type : {"observe", "remove"}, arg : Observers]
            \cup [type : {"emit"}, arg : Events]

\* A call: of which event, whether it removed the observer, and how many
\* events had been emitted by then.
Calls == [event : Events, removing : BOOLEAN, after : Events]

(* Every variable has its type, the emitter is busy with at most one event *)
(* at a time, and an observer is in the list at most once.                 *)
TypeOK ==
  /\ queue \in Seq(Blocks)
  /\ observers \in Seq(Observers)
  /\ \A i, j \in DOMAIN observers : observers[i] = observers[j] => i = j
  /\ event \in 0 .. MaxEvents /\ rest \in Seq(Observers)
  /\ event # 0 => \E c \in Callers : waiting[c] = event
  /\ target \in Seq([observer : Observers, event : Events])
  /\ waiting \in [Callers -> 0 .. MaxEvents] /\ emitted \in 0 .. MaxEvents
  /\ known \subseteq Observers /\ assigned \subseteq known \cap Once
  /\ removed \subseteq known
  /\ audience \in [Events -> SUBSET Observers]
  /\ calls \in [Observers -> Seq(Calls)]

Init ==
  /\ queue = <<>> /\ observers = <<>> /\ event = 0 /\ rest = <<>> /\ target = <<>>
  /\ waiting = [c \in Callers |-> 0] /\ emitted = 0
  /\ known = {} /\ assigned = {} /\ removed = {}
  /\ audience = [e \in Events |-> {}] /\ calls = [o \in Observers |-> <<>>]

-----------------------------------------------------------------------------
(* The threads that use the event.                                         *)

Observe(o) ==
  /\ o \notin known
  /\ known' = known \cup {o}
  /\ queue' = Append(queue, Block("observe", o))
  /\ UNCHANGED <<observers, event, rest, target, waiting, emitted, assigned,
                 removed, audience, calls>>

\* once assigns its variable when observe has returned.
Assign(o) ==
  /\ o \in (known \cap Once) \ assigned
  /\ assigned' = assigned \cup {o}
  /\ UNCHANGED <<queue, observers, event, rest, target, waiting, emitted, known,
                 removed, audience, calls>>

\* Whoever observe or once has returned an observer to removes it.
Remove(o) ==
  /\ o \in known \ removed /\ (o \in Once => o \in assigned)
  /\ removed' = removed \cup {o}
  /\ queue' = Append(queue, Block("remove", o))
  /\ UNCHANGED <<observers, event, rest, target, waiting, emitted, known, assigned,
                 audience, calls>>

\* queue.sync: adds a block behind those given, and waits for its end.
Emission(c, blocks) ==
  /\ emitted < MaxEvents
  /\ emitted' = emitted + 1
  /\ waiting' = [waiting EXCEPT ![c] = emitted']
  /\ audience' = [audience EXCEPT ![emitted'] = known \ removed']
  /\ queue' = Append(blocks, Block("emit", emitted'))

Emit(t) ==
  /\ waiting[t] = 0
  /\ UNCHANGED removed
  /\ Emission(t, queue)
  /\ UNCHANGED <<observers, event, rest, target, known, assigned, calls>>

-----------------------------------------------------------------------------
(* A call of an observer, in the block of `c'.  A `once' observer first    *)
(* removes itself, if the variable that holds it has been assigned.  Then  *)
(* the callback runs, and may emit.                                        *)

\* A mutant: the observer stays.
CallOnly(c, o, e) ==
  /\ calls' = [calls EXCEPT ![o] = Append(@, [event |-> e, after |-> emitted,
                                              removing |-> o \in assigned])]
  /\ UNCHANGED removed
  /\ \/ UNCHANGED <<queue, waiting, emitted, audience>>
     \/ o \in Emitting /\ Emission(c, queue)

Call(c, o, e) ==
  /\ calls' = [calls EXCEPT ![o] = Append(@, [event |-> e, after |-> emitted,
                                              removing |-> o \in assigned])]
  /\ removed' = IF o \in assigned THEN removed \cup {o} ELSE removed
  /\ LET blocks == IF o \in assigned THEN Append(queue, Block("remove", o)) ELSE queue
     IN \/ queue' = blocks /\ UNCHANGED <<waiting, emitted, audience>>
        \/ o \in Emitting /\ Emission(c, blocks)

-----------------------------------------------------------------------------
(* The emitter's queue.                                                    *)

At(t) == event = 0 /\ queue # <<>> /\ Head(queue).type = t

\* A mutant: an observer is added again and again.
RunObserveTwice ==
  /\ At("observe")
  /\ observers' = observers \o <<Head(queue).arg, Head(queue).arg>>
  /\ queue' = Tail(queue)
  /\ UNCHANGED <<event, rest, target, waiting, emitted, known, assigned, removed,
                 audience, calls>>

RunObserve ==
  /\ At("observe")
  /\ observers' = Append(observers, Head(queue).arg)
  /\ queue' = Tail(queue)
  /\ UNCHANGED <<event, rest, target, waiting, emitted, known, assigned, removed,
                 audience, calls>>

Omit(s, i) == [k \in 1 .. Len(s) - 1 |-> s[IF k < i THEN k ELSE k + 1]]

\* filter: an observer is in the list at most once, and is taken out there.
RunRemove ==
  /\ At("remove")
  /\ \/ \E i \in DOMAIN observers :
          observers[i] = Head(queue).arg /\ observers' = Omit(observers, i)
     \/ /\ \A k \in DOMAIN observers : observers[k] # Head(queue).arg
        /\ UNCHANGED observers
  /\ queue' = Tail(queue)
  /\ UNCHANGED <<event, rest, target, waiting, emitted, known, assigned, removed,
                 audience, calls>>

RunEmit ==
  /\ At("emit")
  /\ event' = Head(queue).arg /\ rest' = observers
  /\ queue' = Tail(queue)
  /\ UNCHANGED <<observers, target, waiting, emitted, known, assigned, removed,
                 audience, calls>>

\* One turn of emit's loop: queue.async, or a call, which it waits for.
Looping == event # 0 /\ waiting["emitter"] = 0

\* Mutants of the next action: the latest observer jumps the queue; the loop
\* waits for the observer's queue.
DispatchFirst ==
  /\ Looping /\ rest # <<>> /\ Head(rest) \in Queued
  /\ target' = <<[observer |-> Head(rest), event |-> event]>> \o target
  /\ rest' = Tail(rest)
  /\ UNCHANGED <<queue, observers, event, waiting, emitted, known, assigned, removed,
                 audience, calls>>

DispatchSync ==
  /\ Looping /\ rest # <<>> /\ Head(rest) \in Queued
  /\ target = <<>> /\ waiting["target"] = 0
  /\ target' = <<[observer |-> Head(rest), event |-> event]>>
  /\ rest' = Tail(rest)
  /\ UNCHANGED <<queue, observers, event, waiting, emitted, known, assigned, removed,
                 audience, calls>>

Dispatch ==
  /\ Looping /\ rest # <<>> /\ Head(rest) \in Queued
  /\ target' = Append(target, [observer |-> Head(rest), event |-> event])
  /\ rest' = Tail(rest)
  /\ UNCHANGED <<queue, observers, event, waiting, emitted, known, assigned, removed,
                 audience, calls>>

CallDirectly ==
  /\ Looping /\ rest # <<>> /\ Head(rest) \notin Queued
  /\ Call("emitter", Head(rest), event)
  /\ rest' = Tail(rest)
  /\ UNCHANGED <<observers, event, target, known, assigned>>

\* A mutant: emit returns after the first observer.
EndEmitEarly ==
  /\ event # 0
  /\ event' = 0 /\ rest' = <<>>
  /\ waiting' = [c \in Callers |-> IF waiting[c] = event THEN 0 ELSE waiting[c]]
  /\ UNCHANGED <<queue, observers, target, emitted, known, assigned, removed, audience, calls>>

\* The block ends, and emit returns.
EndEmit ==
  /\ Looping /\ rest = <<>>
  /\ event' = 0
  /\ waiting' = [c \in Callers |-> IF waiting[c] = event THEN 0 ELSE waiting[c]]
  /\ UNCHANGED <<queue, observers, rest, target, emitted, known, assigned, removed,
                 audience, calls>>

\* The queue of the observers in Queued.
RunTarget ==
  /\ target # <<>> /\ waiting["target"] = 0
  /\ Call("target", Head(target).observer, Head(target).event)
  /\ target' = Tail(target)
  /\ UNCHANGED <<observers, event, rest, known, assigned>>

EmitterQueue == RunObserve \/ RunRemove \/ RunEmit \/ Dispatch \/ CallDirectly \/ EndEmit

Next ==
  \/ \E o \in Observers : Observe(o) \/ Assign(o) \/ Remove(o)
  \/ \E t \in Threads : Emit(t)
  \/ EmitterQueue \/ RunTarget

Spec == Init /\ [][Next]_vars

(* Both dispatch queues run what they hold.  Nothing is assumed of the     *)
(* threads, nor that an observer ever emits.                               *)
Fairness == WF_vars(EmitterQueue) /\ WF_vars(RunTarget)

FairSpec == Spec /\ Fairness
-----------------------------------------------------------------------------
(* Properties.                                                             *)

Called(o) == {calls[o][i].event : i \in DOMAIN calls[o]}

Dispatched(o) == {target[i].event : i \in {j \in DOMAIN target : target[j].observer = o}}

(* Although observe and remove return before they have done anything, an   *)
(* event whose emit has returned reached exactly the observers that had    *)
(* been registered and not removed when emit was called: each of them has  *)
(* been called, or has its task.  (exec relies on it: it registers its     *)
(* observers and sends the query without waiting for them.)                *)
ReachesItsAudience ==
  \A e \in 1 .. emitted :
    (\A c \in Callers : waiting[c] # e)
      => \A o \in Observers : e \in Called(o) \cup Dispatched(o) <=> o \in audience[e]

(* An observer is called for events in the order they were emitted, each   *)
(* at most once, also when several threads emit.                           *)
CalledInOrder ==
  \A o \in Observers : \A i, j \in DOMAIN calls[o] :
    i < j => calls[o][i].event < calls[o][j].event

(* `once' is not once: an observer may be called again for what had been   *)
(* emitted when its first call came to remove it, and before `once' has    *)
(* assigned its variable it cannot remove itself at all.  But no event     *)
(* emitted after that first removing call reaches it.                      *)
OnceIsLastCall ==
  \A o \in Once : \A i, j \in DOMAIN calls[o] :
    i < j /\ calls[o][i].removing => calls[o][j].event <= calls[o][i].after

(* An event reaches everyone in its audience in the end, and the emit of   *)
(* it returns, also when observers emit the event themselves from their    *)
(* own queue.  Only an observer that emits it from inside the call breaks  *)
(* this: the emitter's queue then waits for a block behind its own, and    *)
(* every later emit with it (Client.exec from the callback of an exec of   *)
(* the same Query on a connection that is closed).                         *)
NeverWaitsForItself == [](waiting["emitter"] = 0)

EveryoneIsCalled ==
  NeverWaitsForItself =>
    \A o \in Observers, e \in Events : o \in audience[e] ~> e \in Called(o)

EveryEmitReturns ==
  NeverWaitsForItself => \A c \in Callers : waiting[c] # 0 ~> waiting[c] = 0
=============================================================================
