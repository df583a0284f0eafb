------------------------------ MODULE EventBus ------------------------------
(***************************************************************************)
(* crates/core/src/event.rs: the in-process event bus, its finalizers, the *)
(* dispatcher thread with one worker per handler (spawn_event_loop), and   *)
(* the shutdown that must lose nothing; finish_events of                   *)
(* crates/gateway-cli/src/server_runtime.rs, which waits for it.           *)
(*                                                                         *)
(* The broadcast channel keeps the last Capacity events; the dispatcher is *)
(* its one receiver.  Events are named after the task that emits them: a   *)
(* stream, which holds a finalizer while it has an event to emit, or a     *)
(* plain task, which does not.                                             *)
(***************************************************************************)
EXTENDS Integers, Sequences

CONSTANTS
    Streams,    \* tasks that emit their event under a finalizer
    Plain,      \* tasks that emit their event without one
    Shutdown,   \* the event Event::Shutdown
    Handlers,   \* the event handlers
    Capacity    \* of the broadcast channel

ASSUME CapacityAssumption == Capacity \in Nat \ {0}
ASSUME EventsAssumption == Streams \cap Plain = {} /\ Shutdown \notin Streams \cup Plain

VARIABLES
    sent,        \* every event put on the channel, in order
    next,        \* the position the dispatcher reads next
    dispatched,  \* history: the events the dispatcher passed on, in order
    lagged,      \* history: the events it was too late for
    dispatcher,  \* "run", "drain" (senders dropped, joining workers), "done"
    queue,       \* the queue of each worker
    handled,     \* history: the events each worker handled, in order
    worker,      \* "run", "flushed" or "panicked"
    stream,      \* what each stream task is doing
    emitted,     \* the plain tasks that have emitted
    finalizers,  \* active_finalizers
    shutdown,    \* where the call of shutdown() is
    early,       \* history: the streams that were open when it was called
    late         \* history: the events sent after Event::Shutdown

vars == <<sent, next, dispatched, lagged, dispatcher, queue, handled, worker,
          stream, emitted, finalizers, shutdown, early, late>>
channel == <<sent, late>>
delivery == <<next, dispatched, lagged, dispatcher, queue, handled, worker>>
producers == <<stream, emitted, finalizers>>

Events == Streams \cup Plain \cup {Shutdown}
Producers == Streams \cup Plain

TypeOK ==
    /\ sent \in Seq(Events)
    /\ next \in Nat \ {0}
    /\ dispatched \in Seq(Producers)
    /\ lagged \subseteq Events
    /\ dispatcher \in {"run", "drain", "done"}
    /\ queue \in [Handlers -> Seq(Producers)]
    /\ handled \in [Handlers -> Seq(Producers)]
    /\ worker \in [Handlers -> {"run", "flushed", "panicked"}]
    /\ stream \in [Streams -> {"idle", "open", "emitted", "closed"}]
    /\ emitted \subseteq Plain
    /\ finalizers \in Nat
    /\ shutdown \in {"idle", "wait", "send", "await", "returned", "timed_out"}
    /\ early \subseteq Streams
    /\ late \in Nat

Init ==
    /\ sent = <<>> /\ next = 1
    /\ dispatched = <<>> /\ lagged = {}
    /\ dispatcher = "run"
    /\ queue = [h \in Handlers |-> <<>>]
    /\ handled = [h \in Handlers |-> <<>>]
    /\ worker = [h \in Handlers |-> "run"]
    /\ stream = [t \in Streams |-> "idle"]
    /\ emitted = {}
    /\ finalizers = 0
    /\ shutdown = "idle"
    /\ early = {} /\ late = 0

\* EventBus::emit.  Without a receiver the event is dropped.
Emit(e) ==
    IF dispatcher = "done" THEN UNCHANGED channel
    ELSE /\ sent' = Append(sent, e)
         /\ late' = IF \E i \in DOMAIN sent : sent[i] = Shutdown THEN late + 1 ELSE late

-----------------------------------------------------------------------------
(***************************************************************************)
(* The tasks that emit.                                                    *)
(***************************************************************************)
BeginFinalizer(t) ==
    /\ stream[t] = "idle"
    /\ stream' = [stream EXCEPT ![t] = "open"]
    /\ finalizers' = finalizers + 1
    /\ UNCHANGED <<channel, delivery, emitted, shutdown, early>>

EmitStream(t) ==
    /\ stream[t] = "open"
    /\ Emit(t)
    /\ stream' = [stream EXCEPT ![t] = "emitted"]
    /\ UNCHANGED <<delivery, emitted, finalizers, shutdown, early>>

\* Mutant of FinishFinalizer: finish counts, and the drop after it counts again.
FinishFinalizerTwice(t) ==
    /\ stream[t] = "emitted"
    /\ stream' = [stream EXCEPT ![t] = "closed"]
    /\ finalizers' = finalizers - 2
    /\ UNCHANGED <<channel, delivery, emitted, shutdown, early>>

\* EventFinalizerGuard::finish, or its drop.
FinishFinalizer(t) ==
    /\ stream[t] = "emitted"
    /\ stream' = [stream EXCEPT ![t] = "closed"]
    /\ finalizers' = finalizers - 1
    /\ UNCHANGED <<channel, delivery, emitted, shutdown, early>>

EmitPlain(p) ==
    /\ p \notin emitted
    /\ Emit(p)
    /\ emitted' = emitted \cup {p}
    /\ UNCHANGED <<delivery, stream, finalizers, shutdown, early>>

-----------------------------------------------------------------------------
(***************************************************************************)
(* The dispatcher thread.                                                  *)
(***************************************************************************)
\* The slot of position i has been reused.
Overwritten(i) == Len(sent) >= i + Capacity

\* Mutant of Lag: one event too many is skipped.
LagSkipsOne ==
    /\ dispatcher = "run" /\ Overwritten(next)
    /\ next' = Len(sent) - Capacity + 2
    /\ lagged' = lagged \cup {sent[i] : i \in next..(Len(sent) - Capacity)}
    /\ UNCHANGED <<channel, dispatched, dispatcher, queue, handled, worker,
                   producers, shutdown, early>>

\* RecvError::Lagged: go on with the oldest event that is left.
Lag ==
    /\ dispatcher = "run" /\ Overwritten(next)
    /\ next' = Len(sent) - Capacity + 1
    /\ lagged' = lagged \cup {sent[i] : i \in next..(Len(sent) - Capacity)}
    /\ UNCHANGED <<channel, dispatched, dispatcher, queue, handled, worker,
                   producers, shutdown, early>>

Received(e) ==
    /\ dispatcher = "run" /\ ~Overwritten(next)
    /\ next =< Len(sent) /\ sent[next] = e
    /\ next' = next + 1

\* Mutant of Dispatch: workers with a backlog are skipped.
DispatchTry ==
    /\ \E e \in Producers :
         /\ Received(e)
         /\ dispatched' = Append(dispatched, e)
         /\ queue' = [h \in Handlers |->
                        IF worker[h] = "run" /\ queue[h] = <<>>
                        THEN Append(queue[h], e) ELSE queue[h]]
    /\ UNCHANGED <<channel, lagged, dispatcher, handled, worker, producers,
                   shutdown, early>>

\* An event goes to the queue of every worker that has not panicked.
Dispatch ==
    /\ \E e \in Producers :
         /\ Received(e)
         /\ dispatched' = Append(dispatched, e)
         /\ queue' = [h \in Handlers |->
                        IF worker[h] = "run" THEN Append(queue[h], e) ELSE queue[h]]
    /\ UNCHANGED <<channel, lagged, dispatcher, handled, worker, producers,
                   shutdown, early>>

\* Shutdown: leave the loop and drop the senders.
Drain ==
    /\ Received(Shutdown)
    /\ dispatcher' = "drain"
    /\ UNCHANGED <<channel, dispatched, lagged, queue, handled, worker,
                   producers, shutdown, early>>

\* Mutant of Join: done is signalled without waiting for the workers.
JoinNone ==
    /\ dispatcher = "drain"
    /\ dispatcher' = "done"
    /\ UNCHANGED <<channel, next, dispatched, lagged, queue, handled, worker,
                   producers, shutdown, early>>

\* Mutant of Join: a worker that panicked is waited for.
JoinFlushedOnly ==
    /\ dispatcher = "drain"
    /\ \A h \in Handlers : worker[h] = "flushed"
    /\ dispatcher' = "done"
    /\ UNCHANGED <<channel, next, dispatched, lagged, queue, handled, worker,
                   producers, shutdown, early>>

\* Every worker has been joined; done is signalled.
Join ==
    /\ dispatcher = "drain"
    /\ \A h \in Handlers : worker[h] # "run"
    /\ dispatcher' = "done"
    /\ UNCHANGED <<channel, next, dispatched, lagged, queue, handled, worker,
                   producers, shutdown, early>>

-----------------------------------------------------------------------------
(***************************************************************************)
(* The worker threads.                                                     *)
(***************************************************************************)
Handle(h) ==
    /\ worker[h] = "run" /\ queue[h] # <<>>
    /\ handled' = [handled EXCEPT ![h] = Append(@, Head(queue[h]))]
    /\ queue' = [queue EXCEPT ![h] = Tail(@)]
    /\ UNCHANGED <<channel, next, dispatched, lagged, dispatcher, worker,
                   producers, shutdown, early>>

\* handle panics: the thread is gone, and its queue with it.
Panic(h) ==
    /\ worker[h] = "run" /\ queue[h] # <<>>
    /\ worker' = [worker EXCEPT ![h] = "panicked"]
    /\ queue' = [queue EXCEPT ![h] = <<>>]
    /\ UNCHANGED <<channel, next, dispatched, lagged, dispatcher, handled,
                   producers, shutdown, early>>

\* The queue is empty and its sender dropped: flush and end.
Flush(h) ==
    /\ worker[h] = "run" /\ queue[h] = <<>> /\ dispatcher = "drain"
    /\ worker' = [worker EXCEPT ![h] = "flushed"]
    /\ UNCHANGED <<channel, next, dispatched, lagged, dispatcher, queue, handled,
                   producers, shutdown, early>>

-----------------------------------------------------------------------------
(***************************************************************************)
(* EventBus::shutdown under finish_events.                                 *)
(***************************************************************************)
CallShutdown ==
    /\ shutdown = "idle"
    /\ shutdown' = "wait"
    /\ early' = {t \in Streams : stream[t] \in {"open", "emitted"}}
    /\ UNCHANGED <<channel, delivery, producers>>

\* Mutant of FinalizersDone: shutdown does not wait for finalizers.
FinalizersIgnored ==
    /\ shutdown = "wait"
    /\ shutdown' = "send"
    /\ UNCHANGED <<channel, delivery, producers, early>>

FinalizersDone ==
    /\ shutdown = "wait" /\ finalizers = 0
    /\ shutdown' = "send"
    /\ UNCHANGED <<channel, delivery, producers, early>>

SendShutdown ==
    /\ shutdown = "send"
    /\ shutdown' = "await"
    /\ sent' = Append(sent, Shutdown)
    /\ UNCHANGED <<late, delivery, producers, early>>

\* The dispatcher signals; or the slot of Event::Shutdown is reused before it
\* was read, which drops the oneshot sender.
Return ==
    /\ shutdown = "await"
    /\ \/ dispatcher = "done"
       \/ /\ dispatcher = "run"
          /\ \E i \in DOMAIN sent : sent[i] = Shutdown /\ Overwritten(i)
    /\ shutdown' = "returned"
    /\ UNCHANGED <<channel, delivery, producers, early>>

\* finish_events gives up after five seconds, at one of the two awaits.
TimeOut ==
    /\ shutdown \in {"wait", "await"}
    /\ shutdown' = "timed_out"
    /\ UNCHANGED <<channel, delivery, producers, early>>

-----------------------------------------------------------------------------
Stream(t) == EmitStream(t) \/ FinishFinalizer(t)
Dispatcher == Lag \/ Dispatch \/ Drain \/ Join
Worker(h) == Handle(h) \/ Panic(h) \/ Flush(h)
ShutdownCall == FinalizersDone \/ SendShutdown \/ Return

Next ==
    \/ \E t \in Streams : BeginFinalizer(t) \/ Stream(t)
    \/ \E p \in Plain : EmitPlain(p)
    \/ Dispatcher
    \/ \E h \in Handlers : Worker(h)
    \/ CallShutdown \/ ShutdownCall \/ TimeOut

Spec == Init /\ [][Next]_vars

(***************************************************************************)
(* Fairness: threads are scheduled, handlers return, and a stream that is  *)
(* open ends.                                                              *)
(***************************************************************************)
FairSpec ==
    /\ Spec
    /\ \A t \in Streams : WF_vars(Stream(t))
    /\ \A h \in Handlers : WF_vars(Worker(h))
    /\ WF_vars(Dispatcher) /\ WF_vars(ShutdownCall)

-----------------------------------------------------------------------------
(***************************************************************************)
(* A slow or panicking handler costs the other handlers nothing: what the  *)
(* dispatcher took off the channel every living worker has handled or will *)
(* handle, all of it, once, in order ("prevents one slow handler from      *)
(* making every handler lose events while preserving arrival order").      *)
(***************************************************************************)
HandlersIndependent ==
    \A h \in Handlers :
       worker[h] # "panicked" => handled[h] \o queue[h] = dispatched

(***************************************************************************)
(* When shutdown() returns, every queue has been worked off and flushed    *)
(* ("Shutdown waits for every queued event and handler flush to            *)
(* complete"), as long as fewer events than the channel holds are emitted  *)
(* after Event::Shutdown; with more, its slot may be reused unread and the *)
(* call returns at once.                                                   *)
(***************************************************************************)
ShutdownDrains ==
    shutdown = "returned" /\ late < Capacity =>
       /\ dispatcher = "done"
       /\ \A h \in Handlers : worker[h] # "run" /\ queue[h] = <<>>

(***************************************************************************)
(* A stream that was open when shutdown() was called is recorded: once the *)
(* call returns every living handler has handled its event, unless the     *)
(* dispatcher had lagged behind it (begin_finalizer, shutdown).            *)
(***************************************************************************)
OpenStreamsRecorded ==
    shutdown = "returned" /\ late < Capacity =>
       \A t \in early \ lagged, h \in Handlers :
          worker[h] # "panicked" => \E i \in DOMAIN handled[h] : handled[h][i] = t

(***************************************************************************)
(* An event is lost to lag only when Capacity newer ones are on the        *)
(* channel: nothing else is skipped, and nothing is passed on twice        *)
(* (blocking_recv, Lagged).                                                *)
(***************************************************************************)
NothingSkipped ==
    \A i \in DOMAIN sent :
       i < next /\ sent[i] # Shutdown =>
         \/ sent[i] \in lagged /\ Len(sent) >= i + Capacity
         \/ \E j \in DOMAIN dispatched : dispatched[j] = sent[i]

(***************************************************************************)
(* shutdown() comes back: it waits for streams, which end, and workers,    *)
(* which drain (shutdown, spawn_event_loop).                               *)
(***************************************************************************)
ShutdownReturns == shutdown = "wait" ~> shutdown \in {"returned", "timed_out"}

(***************************************************************************)
(* Only what Capacity newer events have overwritten is lost, and every     *)
(* living worker gets all the rest, once and in order, whatever the others *)
(* do (spawn_event_loop).                                                  *)
(***************************************************************************)
DeliverySound == TypeOK /\ NothingSkipped /\ HandlersIndependent

(***************************************************************************)
(* When shutdown() returns, and fewer than Capacity events came after its  *)
(* own, every queue is worked off and every stream that was open at the    *)
(* call is recorded (shutdown, begin_finalizer).                           *)
(***************************************************************************)
ShutdownSound == ShutdownDrains /\ OpenStreamsRecorded

=============================================================================
