--------------------------- MODULE EventBusProofs ---------------------------
(***************************************************************************)
(* Proofs about the event bus, for any tasks, handlers and capacity.       *)
(***************************************************************************)
EXTENDS EventBus, FiniteSets, FiniteSetTheorems, SequenceTheorems, TLAPS

(***************************************************************************)
(* The inductive invariant, in parts.                                      *)
(***************************************************************************)
\* active_finalizers counts the streams that are open.
Open == {t \in Streams : stream[t] \in {"open", "emitted"}}
FinalizersCount == IsFiniteSet(Open) /\ finalizers = Cardinality(Open)

\* A worker that is gone has nothing queued; one that has flushed has seen
\* the dispatcher leave its loop, and all have when done is signalled.
WorkersInv ==
    \A h \in Handlers :
       /\ worker[h] # "run" => queue[h] = <<>>
       /\ worker[h] = "flushed" => dispatcher # "run"
       /\ dispatcher = "done" => worker[h] # "run"

\* Event::Shutdown is on the channel once at most, and late counts what is
\* behind it; the dispatcher leaves its loop only for it.
ShutdownInv ==
    /\ \A i \in DOMAIN sent : sent[i] = Shutdown => late = Len(sent) - i
    /\ shutdown \in {"idle", "wait", "send"} => \A i \in DOMAIN sent : sent[i] # Shutdown
    /\ (\A i \in DOMAIN sent : sent[i] # Shutdown) => late = 0
    /\ dispatcher # "run" => \E i \in DOMAIN sent : sent[i] = Shutdown /\ i < next
    /\ shutdown = "returned" /\ late < Capacity => dispatcher = "done"

\* What was open when shutdown() was called is on the channel before
\* Event::Shutdown.
EarlyInv ==
    /\ shutdown = "idle" => early = {}
    /\ \A t \in early : stream[t] # "idle"
    /\ \A t \in Streams : stream[t] \in {"emitted", "closed"} /\ shutdown = "idle" =>
         \E k \in DOMAIN sent : sent[k] = t
    /\ \A t \in early : stream[t] \in {"emitted", "closed"} =>
         \E k \in DOMAIN sent : sent[k] = t
    /\ shutdown \in {"send", "await", "returned"} => \A t \in early : stream[t] = "closed"
    /\ \A t \in early, i \in DOMAIN sent : sent[i] = Shutdown =>
         /\ stream[t] = "closed"
         /\ \E k \in 1..(i - 1) : sent[k] = t

BusInv == TypeOK /\ FinalizersCount /\ WorkersInv /\ ShutdownInv

-----------------------------------------------------------------------------
\* What Emit does to the channel.
LEMMA EmitChannel ==
    ASSUME TypeOK, NEW e \in Producers, Emit(e)
    PROVE  /\ sent' \in Seq(Events) /\ late' \in Nat
           /\ \/ dispatcher = "done" /\ sent' = sent /\ late' = late
              \/ /\ dispatcher # "done"
                 /\ sent' = Append(sent, e)
                 /\ late' = IF \E i \in DOMAIN sent : sent[i] = Shutdown
                            THEN late + 1 ELSE late
<1>1. e \in Events /\ sent \in Seq(Events) /\ late \in Nat
  BY DEF TypeOK, Producers, Events
<1>2. CASE dispatcher = "done"
  BY <1>1, <1>2 DEF Emit, channel
<1>3. CASE dispatcher # "done"
  <2>1. /\ sent' = Append(sent, e)
        /\ late' = IF \E i \in DOMAIN sent : sent[i] = Shutdown THEN late + 1 ELSE late
    BY <1>3 DEF Emit
  <2>2. Append(sent, e) \in Seq(Events)
    BY <1>1
  <2>3. late' \in Nat
    BY <1>1, <2>1
  <2> QED
    BY <1>3, <2>1, <2>2, <2>3
<1> QED
  BY <1>2, <1>3

\* The dispatcher's lag stays on the channel.
LEMMA LagType ==
    ASSUME TypeOK, Lag
    PROVE  /\ next' \in Nat \ {0} /\ next' > next /\ next' = Len(sent) - Capacity + 1
           /\ lagged' \subseteq Events
<1>1. Len(sent) >= next + Capacity /\ Len(sent) \in Nat /\ next \in Nat \ {0}
  BY DEF Lag, Overwritten, TypeOK
<1>2. next' = Len(sent) - Capacity + 1
  BY DEF Lag
<1>3. \A i \in next..(Len(sent) - Capacity) : i \in 1..Len(sent)
  BY <1>1, CapacityAssumption
<1>4. \A i \in next..(Len(sent) - Capacity) : sent[i] \in Events
  BY <1>3 DEF TypeOK
<1>5. lagged' \subseteq Events
  BY <1>4 DEF Lag, TypeOK
<1> QED
  BY <1>1, <1>2, <1>5, CapacityAssumption

LEMMA TypeStep == TypeOK /\ FinalizersCount /\ [Next]_vars => TypeOK'
<1> SUFFICES ASSUME TypeOK, FinalizersCount, [Next]_vars PROVE TypeOK'
  OBVIOUS
<1>1. ASSUME NEW t \in Streams, BeginFinalizer(t) PROVE TypeOK'
  BY <1>1 DEF BeginFinalizer, TypeOK, channel, delivery
<1>2. ASSUME NEW t \in Streams, EmitStream(t) PROVE TypeOK'
  <2>1. sent' \in Seq(Events) /\ late' \in Nat
    BY <1>2, EmitChannel DEF EmitStream, Producers
  <2> QED
    BY <1>2, <2>1 DEF EmitStream, TypeOK, delivery
<1>3. ASSUME NEW t \in Streams, FinishFinalizer(t) PROVE TypeOK'
  <2>1. t \in Open
    BY <1>3 DEF FinishFinalizer, Open
  <2>2. Cardinality(Open) \in Nat /\ Cardinality(Open) # 0
    BY <2>1, FS_EmptySet, FS_CardinalityType DEF FinalizersCount
  <2>3. finalizers - 1 \in Nat
    BY <2>2 DEF FinalizersCount
  <2> QED
    BY <1>3, <2>3 DEF FinishFinalizer, TypeOK, channel, delivery
<1>4. ASSUME NEW p \in Plain, EmitPlain(p) PROVE TypeOK'
  <2>1. sent' \in Seq(Events) /\ late' \in Nat
    BY <1>4, EmitChannel DEF EmitPlain, Producers
  <2> QED
    BY <1>4, <2>1 DEF EmitPlain, TypeOK, delivery
<1>5. CASE Lag
  BY <1>5, LagType DEF Lag, TypeOK, channel, producers
<1>6. CASE Dispatch
  BY <1>6 DEF Dispatch, Received, TypeOK, channel, producers
<1>7. CASE Drain
  BY <1>7 DEF Drain, Received, TypeOK, channel, producers
<1>8. CASE Join
  BY <1>8 DEF Join, TypeOK, channel, producers
<1>9. ASSUME NEW h \in Handlers, Handle(h) PROVE TypeOK'
  <2>1. queue[h] \in Seq(Producers) /\ queue[h] # <<>>
    BY <1>9 DEF Handle, TypeOK
  <2>2. Head(queue[h]) \in Producers /\ Tail(queue[h]) \in Seq(Producers)
    BY <2>1
  <2> QED
    BY <1>9, <2>2 DEF Handle, TypeOK, channel, producers
<1>10. ASSUME NEW h \in Handlers, Panic(h) PROVE TypeOK'
  BY <1>10 DEF Panic, TypeOK, channel, producers
<1>11. ASSUME NEW h \in Handlers, Flush(h) PROVE TypeOK'
  BY <1>11 DEF Flush, TypeOK, channel, producers
<1>12. CASE CallShutdown
  BY <1>12 DEF CallShutdown, TypeOK, channel, delivery, producers
<1>13. CASE FinalizersDone
  BY <1>13 DEF FinalizersDone, TypeOK, channel, delivery, producers
<1>14. CASE SendShutdown
  BY <1>14 DEF SendShutdown, TypeOK, delivery, producers, Events
<1>15. CASE Return
  BY <1>15 DEF Return, TypeOK, channel, delivery, producers
<1>16. CASE TimeOut
  BY <1>16 DEF TimeOut, TypeOK, channel, delivery, producers
<1>17. CASE UNCHANGED vars
  BY <1>17 DEF TypeOK, vars
<1> QED
  BY <1>1, <1>2, <1>3, <1>4, <1>5, <1>6, <1>7, <1>8, <1>9, <1>10, <1>11, <1>12,
     <1>13, <1>14, <1>15, <1>16, <1>17
     DEF Next, Stream, Dispatcher, Worker, ShutdownCall

-----------------------------------------------------------------------------
\* Only a stream that begins or ends changes the count.
LEMMA CountStep == TypeOK /\ FinalizersCount /\ [Next]_vars => FinalizersCount'
<1> SUFFICES ASSUME TypeOK, FinalizersCount, [Next]_vars PROVE FinalizersCount'
  OBVIOUS
<1>1. ASSUME NEW t \in Streams, BeginFinalizer(t) PROVE FinalizersCount'
  <2>1. Open' = Open \cup {t} /\ t \notin Open /\ finalizers' = finalizers + 1
    BY <1>1 DEF BeginFinalizer, Open, TypeOK
  <2> QED
    BY <2>1, FS_AddElement DEF FinalizersCount
<1>2. ASSUME NEW t \in Streams, FinishFinalizer(t) PROVE FinalizersCount'
  <2>1. Open' = Open \ {t} /\ t \in Open /\ finalizers' = finalizers - 1
    BY <1>2 DEF FinishFinalizer, Open, TypeOK
  <2> QED
    BY <2>1, FS_RemoveElement DEF FinalizersCount
<1>3. ASSUME NEW t \in Streams, EmitStream(t) PROVE FinalizersCount'
  <2>1. Open' = Open /\ finalizers' = finalizers
    BY <1>3 DEF EmitStream, Open, TypeOK
  <2> QED
    BY <2>1 DEF FinalizersCount
<1>4. CASE UNCHANGED <<stream, finalizers>>
  BY <1>4 DEF FinalizersCount, Open
<1>5. ASSUME NEW p \in Plain, EmitPlain(p) PROVE UNCHANGED <<stream, finalizers>>
  BY <1>5 DEF EmitPlain
<1>6. Dispatcher => UNCHANGED <<stream, finalizers>>
  BY DEF Dispatcher, Lag, Dispatch, Drain, Join, producers
<1>7. ASSUME NEW h \in Handlers, Worker(h) PROVE UNCHANGED <<stream, finalizers>>
  BY <1>7 DEF Worker, Handle, Panic, Flush, producers
<1>8. CallShutdown \/ ShutdownCall \/ TimeOut => UNCHANGED <<stream, finalizers>>
  BY DEF CallShutdown, ShutdownCall, FinalizersDone, SendShutdown, Return, TimeOut,
         producers
<1>9. UNCHANGED vars => UNCHANGED <<stream, finalizers>>
  BY DEF vars
<1> QED
  BY <1>1, <1>2, <1>3, <1>4, <1>5, <1>6, <1>7, <1>8, <1>9 DEF Next, Stream

-----------------------------------------------------------------------------
LEMMA WorkersStep == TypeOK /\ WorkersInv /\ [Next]_vars => WorkersInv'
<1> SUFFICES ASSUME TypeOK, WorkersInv, [Next]_vars PROVE WorkersInv'
  OBVIOUS
<1>1. CASE UNCHANGED <<queue, worker, dispatcher>>
  BY <1>1 DEF WorkersInv
<1>2. ASSUME NEW t \in Streams, BeginFinalizer(t) \/ Stream(t)
      PROVE  UNCHANGED <<queue, worker, dispatcher>>
  BY <1>2 DEF BeginFinalizer, Stream, EmitStream, FinishFinalizer, delivery
<1>3. ASSUME NEW p \in Plain, EmitPlain(p)
      PROVE  UNCHANGED <<queue, worker, dispatcher>>
  BY <1>3 DEF EmitPlain, delivery
<1>4. Lag => UNCHANGED <<queue, worker, dispatcher>>
  BY DEF Lag
<1>5. CASE Dispatch
  BY <1>5 DEF Dispatch, Received, WorkersInv, TypeOK
<1>6. CASE Drain
  BY <1>6 DEF Drain, Received, WorkersInv, TypeOK
<1>7. CASE Join
  BY <1>7 DEF Join, WorkersInv, TypeOK
<1>8. ASSUME NEW h \in Handlers, Handle(h) PROVE WorkersInv'
  BY <1>8 DEF Handle, WorkersInv, TypeOK
<1>9. ASSUME NEW h \in Handlers, Panic(h) PROVE WorkersInv'
  BY <1>9 DEF Panic, WorkersInv, TypeOK
<1>10. ASSUME NEW h \in Handlers, Flush(h) PROVE WorkersInv'
  BY <1>10 DEF Flush, WorkersInv, TypeOK
<1>11. CallShutdown \/ ShutdownCall \/ TimeOut => UNCHANGED <<queue, worker, dispatcher>>
  BY DEF CallShutdown, ShutdownCall, FinalizersDone, SendShutdown, Return, TimeOut,
         delivery
<1>12. UNCHANGED vars => UNCHANGED <<queue, worker, dispatcher>>
  BY DEF vars
<1> QED
  BY <1>1, <1>2, <1>3, <1>4, <1>5, <1>6, <1>7, <1>8, <1>9, <1>10, <1>11, <1>12
     DEF Next, Dispatcher, Worker

-----------------------------------------------------------------------------
\* An event other than Event::Shutdown keeps the facts about it.
LEMMA EmitShutdownInv ==
    ASSUME TypeOK, ShutdownInv, NEW e \in Producers, Emit(e),
           UNCHANGED <<delivery, shutdown>>
    PROVE  ShutdownInv'
<1>1. CASE sent' = sent /\ late' = late
  BY <1>1 DEF ShutdownInv, delivery
<1>2. CASE /\ sent' = Append(sent, e) /\ dispatcher # "done"
           /\ late' = IF \E i \in DOMAIN sent : sent[i] = Shutdown THEN late + 1 ELSE late
  <2>1. e # Shutdown /\ sent \in Seq(Events) /\ e \in Events /\ late \in Nat /\ Len(sent) \in Nat
    BY EventsAssumption DEF TypeOK, Producers, Events
  <2>2. /\ DOMAIN sent = 1..Len(sent)
        /\ DOMAIN sent' = 1..(Len(sent) + 1) /\ Len(sent') = Len(sent) + 1
        /\ sent'[Len(sent) + 1] = e
        /\ \A i \in 1..Len(sent) : sent'[i] = sent[i]
    BY <1>2, <2>1
  <2>3. \A i \in DOMAIN sent' : sent'[i] = Shutdown => i \in DOMAIN sent /\ sent[i] = Shutdown
    BY <2>1, <2>2
  <2>4. \A i \in DOMAIN sent : i \in DOMAIN sent' /\ sent'[i] = sent[i]
    BY <2>1, <2>2
  <2>5. UNCHANGED <<dispatcher, next, shutdown>>
    BY DEF delivery
  <2>6. \A i \in DOMAIN sent' : sent'[i] = Shutdown => late' = Len(sent') - i
    BY <1>2, <2>1, <2>2, <2>3 DEF ShutdownInv
  <2>7. shutdown' \in {"idle", "wait", "send"} => \A i \in DOMAIN sent' : sent'[i] # Shutdown
    BY <2>3, <2>5 DEF ShutdownInv
  <2>8. (\A i \in DOMAIN sent' : sent'[i] # Shutdown) => late' = 0
    BY <1>2, <2>4 DEF ShutdownInv
  <2>9. dispatcher' # "run" => \E i \in DOMAIN sent' : sent'[i] = Shutdown /\ i < next'
    BY <2>4, <2>5 DEF ShutdownInv
  <2>10. late' >= late
    BY <1>2, <2>1
  <2>11. shutdown' = "returned" /\ late' < Capacity => dispatcher' = "done"
    <3>1. late' \in Nat
      BY <1>2, <2>1
    <3> QED
      BY <3>1, <2>1, <2>5, <2>10, CapacityAssumption DEF ShutdownInv
  <2> QED
    BY <2>6, <2>7, <2>8, <2>9, <2>11 DEF ShutdownInv
<1> QED
  BY <1>1, <1>2, EmitChannel

LEMMA ShutdownStep == TypeOK /\ ShutdownInv /\ [Next]_vars => ShutdownInv'
<1> SUFFICES ASSUME TypeOK, ShutdownInv, [Next]_vars PROVE ShutdownInv'
  OBVIOUS
<1>1. CASE UNCHANGED <<sent, late, dispatcher, next, shutdown>>
  BY <1>1 DEF ShutdownInv
<1>2. ASSUME NEW t \in Streams, BeginFinalizer(t) \/ FinishFinalizer(t)
      PROVE  UNCHANGED <<sent, late, dispatcher, next, shutdown>>
  BY <1>2 DEF BeginFinalizer, FinishFinalizer, delivery, channel
<1>3. ASSUME NEW t \in Streams, EmitStream(t) PROVE ShutdownInv'
  BY <1>3, EmitShutdownInv DEF EmitStream, Producers
<1>4. ASSUME NEW p \in Plain, EmitPlain(p) PROVE ShutdownInv'
  BY <1>4, EmitShutdownInv DEF EmitPlain, Producers
<1>5. CASE Lag
  <2>1. UNCHANGED <<sent, late, dispatcher, shutdown>> /\ dispatcher = "run"
    BY <1>5 DEF Lag, channel
  <2> QED
    BY <2>1 DEF ShutdownInv
<1>6. CASE Dispatch
  <2>1. UNCHANGED <<sent, late, dispatcher, shutdown>> /\ dispatcher = "run"
    BY <1>6 DEF Dispatch, Received, channel
  <2> QED
    BY <2>1 DEF ShutdownInv
<1>7. CASE Drain
  <2>1. /\ UNCHANGED <<sent, late, shutdown>> /\ dispatcher = "run"
        /\ next' = next + 1 /\ sent[next] = Shutdown /\ next =< Len(sent)
    BY <1>7 DEF Drain, Received, channel
  <2>2. next \in DOMAIN sent /\ next < next'
    BY <2>1 DEF TypeOK
  <2>3. shutdown = "returned" /\ late < Capacity => dispatcher = "done"
    BY DEF ShutdownInv
  <2> QED
    BY <2>1, <2>2, <2>3 DEF ShutdownInv
<1>8. CASE Join
  <2>1. UNCHANGED <<sent, late, next, shutdown>> /\ dispatcher' = "done" /\ dispatcher # "run"
    BY <1>8 DEF Join, channel
  <2> QED
    BY <2>1 DEF ShutdownInv
<1>9. ASSUME NEW h \in Handlers, Worker(h)
      PROVE  UNCHANGED <<sent, late, dispatcher, next, shutdown>>
  BY <1>9 DEF Worker, Handle, Panic, Flush, channel
<1>10. CASE CallShutdown \/ FinalizersDone
  <2>1. /\ UNCHANGED <<sent, late, dispatcher, next>>
        /\ shutdown \in {"idle", "wait"} /\ shutdown' \in {"wait", "send"}
    BY <1>10 DEF CallShutdown, FinalizersDone, channel, delivery
  <2> QED
    BY <2>1 DEF ShutdownInv
<1>11. CASE SendShutdown
  <2>1. /\ UNCHANGED <<late, dispatcher, next>> /\ sent' = Append(sent, Shutdown)
        /\ shutdown = "send" /\ shutdown' = "await"
    BY <1>11 DEF SendShutdown, delivery
  <2>2. late = 0 /\ dispatcher = "run" /\ \A i \in DOMAIN sent : sent[i] # Shutdown
    BY <2>1 DEF ShutdownInv
  <2>3. sent \in Seq(Events) /\ Shutdown \in Events /\ Len(sent) \in Nat
    BY DEF TypeOK, Events
  <2>4. /\ DOMAIN sent' = 1..(Len(sent) + 1) /\ Len(sent') = Len(sent) + 1
        /\ sent'[Len(sent) + 1] = Shutdown
        /\ \A i \in 1..Len(sent) : sent'[i] = sent[i]
        /\ DOMAIN sent = 1..Len(sent)
    BY <2>1, <2>3
  <2>5. \A i \in DOMAIN sent' : sent'[i] = Shutdown => late' = Len(sent') - i
    BY <2>1, <2>2, <2>3, <2>4
  <2>6. Len(sent) + 1 \in DOMAIN sent'
    BY <2>3, <2>4
  <2>7. \E i \in DOMAIN sent' : sent'[i] = Shutdown
    BY <2>6, <2>4
  <2> QED
    BY <2>1, <2>2, <2>5, <2>7 DEF ShutdownInv
<1>12. CASE Return
  <2>1. UNCHANGED <<sent, late, dispatcher, next>> /\ shutdown = "await" /\ shutdown' = "returned"
    BY <1>12 DEF Return, channel, delivery
  <2>2. ASSUME NEW i \in DOMAIN sent, sent[i] = Shutdown, Overwritten(i)
        PROVE  late >= Capacity
    <3>1. late = Len(sent) - i /\ Len(sent) >= i + Capacity /\ i \in Nat /\ Len(sent) \in Nat
      BY <2>2 DEF ShutdownInv, Overwritten, TypeOK
    <3> QED
      BY <3>1, CapacityAssumption
  <2>3. late \in Nat /\ Capacity \in Nat
    BY CapacityAssumption DEF TypeOK
  <2>4. late < Capacity => dispatcher = "done"
    BY <1>12, <2>2, <2>3 DEF Return
  <2> QED
    BY <2>1, <2>4 DEF ShutdownInv
<1>13. CASE TimeOut
  <2>1. UNCHANGED <<sent, late, dispatcher, next>> /\ shutdown' = "timed_out"
    BY <1>13 DEF TimeOut, channel, delivery
  <2> QED
    BY <2>1 DEF ShutdownInv
<1>14. UNCHANGED vars => UNCHANGED <<sent, late, dispatcher, next, shutdown>>
  BY DEF vars
<1> QED
  BY <1>1, <1>2, <1>3, <1>4, <1>5, <1>6, <1>7, <1>8, <1>9, <1>10, <1>11, <1>12, <1>13, <1>14
     DEF Next, Stream, Dispatcher, ShutdownCall

(***************************************************************************)
(* Every state of the event bus has its type, active_finalizers never goes *)
(* below zero, and the parts above hold (EventBus, spawn_event_loop).      *)
(***************************************************************************)
THEOREM TypeCorrect == Spec => [](TypeOK /\ BusInv)
<1>1. Init => BusInv
  <2> SUFFICES ASSUME Init PROVE BusInv
    OBVIOUS
  <2>1. TypeOK
    BY DEF Init, TypeOK
  <2>2. Open = {} /\ finalizers = 0
    BY DEF Init, Open
  <2>3. FinalizersCount
    BY <2>2, FS_EmptySet DEF FinalizersCount
  <2>4. WorkersInv /\ ShutdownInv
    BY DEF Init, WorkersInv, ShutdownInv
  <2> QED
    BY <2>1, <2>3, <2>4 DEF BusInv
<1>2. BusInv /\ [Next]_vars => BusInv'
  BY TypeStep, CountStep, WorkersStep, ShutdownStep DEF BusInv
<1>3. BusInv => TypeOK
  BY DEF BusInv
<1> QED
  BY <1>1, <1>2, <1>3, PTL DEF Spec

(***************************************************************************)
(* shutdown() does not return before the workers have drained and flushed, *)
(* for any number of tasks, handlers and queued events.                    *)
(***************************************************************************)
THEOREM ShutdownDrainsCorrect == Spec => []ShutdownDrains
<1>1. BusInv => ShutdownDrains
  BY DEF BusInv, ShutdownInv, WorkersInv, ShutdownDrains
<1> QED
  BY <1>1, TypeCorrect, PTL

-----------------------------------------------------------------------------
\* An element moves from the head of one sequence to the end of another.
LEMMA MoveHead ==
    ASSUME NEW S, NEW s \in Seq(S), NEW t \in Seq(S), t # <<>>
    PROVE  Append(s, Head(t)) \o Tail(t) = s \o t
  OBVIOUS

LEMMA AppendConcat ==
    ASSUME NEW S, NEW s \in Seq(S), NEW t \in Seq(S), NEW e \in S
    PROVE  s \o Append(t, e) = Append(s \o t, e)
  OBVIOUS

LEMMA HandlersStep ==
    TypeOK /\ WorkersInv /\ HandlersIndependent /\ [Next]_vars => HandlersIndependent'
<1> SUFFICES ASSUME TypeOK, WorkersInv, HandlersIndependent, [Next]_vars
             PROVE  HandlersIndependent'
  OBVIOUS
<1>1. CASE UNCHANGED <<queue, handled, worker, dispatched>>
  BY <1>1 DEF HandlersIndependent
<1>2. ASSUME NEW t \in Streams, BeginFinalizer(t) \/ Stream(t)
      PROVE  UNCHANGED <<queue, handled, worker, dispatched>>
  BY <1>2 DEF BeginFinalizer, Stream, EmitStream, FinishFinalizer, delivery
<1>3. ASSUME NEW p \in Plain, EmitPlain(p)
      PROVE  UNCHANGED <<queue, handled, worker, dispatched>>
  BY <1>3 DEF EmitPlain, delivery
<1>4. Lag \/ Drain \/ Join => UNCHANGED <<queue, handled, worker, dispatched>>
  BY DEF Lag, Drain, Join
<1>5. CASE Dispatch
  <2>1. PICK e \in Producers :
          /\ dispatched' = Append(dispatched, e)
          /\ queue' = [h \in Handlers |->
                         IF worker[h] = "run" THEN Append(queue[h], e) ELSE queue[h]]
    BY <1>5 DEF Dispatch
  <2>2. UNCHANGED <<handled, worker>> /\ dispatcher = "run"
    BY <1>5 DEF Dispatch, Received
  <2>3. SUFFICES ASSUME NEW h \in Handlers, worker[h] # "panicked"
                 PROVE  handled[h] \o queue'[h] = dispatched'
    BY <2>2 DEF HandlersIndependent
  <2>4. worker[h] = "run"
    BY <2>2, <2>3 DEF WorkersInv, TypeOK
  <2>5. queue'[h] = Append(queue[h], e) /\ handled[h] \o queue[h] = dispatched
    BY <2>1, <2>3, <2>4 DEF HandlersIndependent
  <2>6. handled[h] \in Seq(Producers) /\ queue[h] \in Seq(Producers) /\ e \in Producers
    BY <2>1 DEF TypeOK
  <2>7. handled[h] \o Append(queue[h], e) = Append(handled[h] \o queue[h], e)
    <3>1. \A s, t \in Seq(Producers), x \in Producers : s \o Append(t, x) = Append(s \o t, x)
      BY AppendConcat
    <3> QED
      BY <2>6, <3>1, Zenon
  <2>8. dispatched' = Append(dispatched, e)
    BY <2>1
  <2> HIDE DEF Producers
  <2> QED
    BY <2>5, <2>7, <2>8, Zenon
<1>6. ASSUME NEW h \in Handlers, Handle(h) PROVE HandlersIndependent'
  <2>1. /\ UNCHANGED <<worker, dispatched>> /\ queue[h] # <<>>
        /\ handled' = [handled EXCEPT ![h] = Append(handled[h], Head(queue[h]))]
        /\ queue' = [queue EXCEPT ![h] = Tail(queue[h])]
    BY <1>6 DEF Handle
  <2>2. handled[h] \in Seq(Producers) /\ queue[h] \in Seq(Producers)
    BY DEF TypeOK
  <2>3. Append(handled[h], Head(queue[h])) \o Tail(queue[h]) = handled[h] \o queue[h]
    BY <2>1, <2>2, MoveHead
  <2>4. \A g \in Handlers : handled'[g] \o queue'[g] = handled[g] \o queue[g]
    BY <2>1, <2>3 DEF TypeOK
  <2> QED
    BY <2>1, <2>4 DEF HandlersIndependent
<1>7. ASSUME NEW h \in Handlers, Panic(h) PROVE HandlersIndependent'
  <2>1. /\ UNCHANGED <<handled, dispatched>>
        /\ worker' = [worker EXCEPT ![h] = "panicked"]
        /\ queue' = [queue EXCEPT ![h] = <<>>]
    BY <1>7 DEF Panic
  <2> QED
    BY <2>1 DEF HandlersIndependent, TypeOK
<1>8. ASSUME NEW h \in Handlers, Flush(h) PROVE HandlersIndependent'
  <2>1. /\ UNCHANGED <<handled, dispatched, queue>>
        /\ worker[h] = "run" /\ worker' = [worker EXCEPT ![h] = "flushed"]
    BY <1>8 DEF Flush
  <2> QED
    BY <2>1 DEF HandlersIndependent, TypeOK
<1>9. CallShutdown \/ ShutdownCall \/ TimeOut =>
        UNCHANGED <<queue, handled, worker, dispatched>>
  BY DEF CallShutdown, ShutdownCall, FinalizersDone, SendShutdown, Return, TimeOut,
         delivery
<1>10. UNCHANGED vars => UNCHANGED <<queue, handled, worker, dispatched>>
  BY DEF vars
<1> QED
  BY <1>1, <1>2, <1>3, <1>4, <1>5, <1>6, <1>7, <1>8, <1>9, <1>10
     DEF Next, Dispatcher, Worker

(***************************************************************************)
(* What the dispatcher takes off the channel every handler that has not    *)
(* panicked handles, all of it, once and in order, whatever the others do. *)
(***************************************************************************)
THEOREM HandlersIndependentCorrect == Spec => []HandlersIndependent
<1>1. Init => HandlersIndependent
  BY DEF Init, HandlersIndependent
<1>2. BusInv /\ HandlersIndependent /\ [Next]_vars => HandlersIndependent'
  BY HandlersStep DEF BusInv
<1> QED
  BY <1>1, <1>2, TypeCorrect, PTL DEF Spec

-----------------------------------------------------------------------------
\* The channel only grows.
LEMMA ChannelGrows ==
    ASSUME TypeOK, Next
    PROVE  /\ Len(sent') \in Nat /\ Len(sent') >= Len(sent)
           /\ \A i \in DOMAIN sent : i \in DOMAIN sent' /\ sent'[i] = sent[i]
           /\ \A i \in DOMAIN sent' : i \in DOMAIN sent \/ i = Len(sent) + 1
<1>1. sent \in Seq(Events) /\ Len(sent) \in Nat /\ DOMAIN sent = 1..Len(sent)
  BY DEF TypeOK
<1>2. sent' = sent \/ \E e \in Events : sent' = Append(sent, e)
  <2>1. ASSUME NEW t \in Streams, BeginFinalizer(t) \/ FinishFinalizer(t) PROVE sent' = sent
    BY <2>1 DEF BeginFinalizer, FinishFinalizer, channel
  <2>2. ASSUME NEW e \in Producers, Emit(e)
        PROVE  sent' = sent \/ \E f \in Events : sent' = Append(sent, f)
    BY <2>2, EmitChannel DEF Producers, Events
  <2>3. ASSUME NEW t \in Streams, EmitStream(t)
        PROVE  sent' = sent \/ \E f \in Events : sent' = Append(sent, f)
    BY <2>2, <2>3 DEF EmitStream, Producers
  <2>4. ASSUME NEW p \in Plain, EmitPlain(p)
        PROVE  sent' = sent \/ \E f \in Events : sent' = Append(sent, f)
    BY <2>2, <2>4 DEF EmitPlain, Producers
  <2>5. Dispatcher => sent' = sent
    BY DEF Dispatcher, Lag, Dispatch, Drain, Join, channel
  <2>6. ASSUME NEW h \in Handlers, Worker(h) PROVE sent' = sent
    BY <2>6 DEF Worker, Handle, Panic, Flush, channel
  <2>7. CallShutdown \/ FinalizersDone \/ Return \/ TimeOut => sent' = sent
    BY DEF CallShutdown, FinalizersDone, Return, TimeOut, channel
  <2>8. SendShutdown => sent' = Append(sent, Shutdown) /\ Shutdown \in Events
    BY DEF SendShutdown, Events
  <2> QED
    BY <2>1, <2>3, <2>4, <2>5, <2>6, <2>7, <2>8 DEF Next, Stream, ShutdownCall
<1>3. CASE sent' = sent
  BY <1>1, <1>3
<1>4. ASSUME NEW e \in Events, sent' = Append(sent, e)
      PROVE  /\ Len(sent') = Len(sent) + 1 /\ DOMAIN sent' = 1..(Len(sent) + 1)
             /\ \A i \in 1..Len(sent) : sent'[i] = sent[i]
  BY <1>1, <1>4
<1> QED
  BY <1>1, <1>2, <1>3, <1>4

\* The dispatcher's position and the history it leaves behind.
SkipInv == NothingSkipped /\ next =< Len(sent) + 1

LEMMA SkipStep == TypeOK /\ SkipInv /\ [Next]_vars => SkipInv'
<1> SUFFICES ASSUME TypeOK, SkipInv, [Next]_vars PROVE SkipInv'
  OBVIOUS
<1> DEFINE Found(i) == \/ sent[i] \in lagged /\ Len(sent) >= i + Capacity
                       \/ \E j \in DOMAIN dispatched : dispatched[j] = sent[i]
<1>0. /\ sent \in Seq(Events) /\ Len(sent) \in Nat /\ DOMAIN sent = 1..Len(sent)
      /\ next \in Nat \ {0} /\ Capacity \in Nat \ {0} /\ next =< Len(sent) + 1
  BY CapacityAssumption DEF TypeOK, SkipInv
<1>1. \A i \in DOMAIN sent : i < next /\ sent[i] # Shutdown => Found(i)
  BY DEF SkipInv, NothingSkipped
<1>2. CASE UNCHANGED <<sent, next, lagged, dispatched>>
  BY <1>2 DEF SkipInv, NothingSkipped
<1>3. CASE Next /\ UNCHANGED <<next, lagged, dispatched>>
  <2>1. ASSUME NEW i \in DOMAIN sent', i < next, sent'[i] # Shutdown
        PROVE  \/ sent'[i] \in lagged /\ Len(sent') >= i + Capacity
               \/ \E j \in DOMAIN dispatched : dispatched[j] = sent'[i]
    <3>1. i \in DOMAIN sent \/ i = Len(sent) + 1
      BY <1>3, ChannelGrows
    <3>2. i \in DOMAIN sent /\ i \in Nat
      BY <1>0, <2>1, <3>1
    <3>3. sent'[i] = sent[i] /\ Len(sent') >= Len(sent) /\ Len(sent') \in Nat
      BY <1>3, <3>2, ChannelGrows
    <3>4. Found(i)
      BY <1>1, <2>1, <3>2, <3>3
    <3> QED
      BY <1>0, <3>2, <3>3, <3>4
  <2>2. next =< Len(sent') + 1
    <3>1. Len(sent') >= Len(sent) /\ Len(sent') \in Nat
      BY <1>3, ChannelGrows
    <3> QED
      BY <1>0, <3>1
  <2> QED
    BY <1>3, <2>1, <2>2 DEF SkipInv, NothingSkipped
<1>4. CASE Lag
  <2>1. /\ next' = Len(sent) - Capacity + 1 /\ UNCHANGED <<sent, dispatched>>
        /\ lagged' = lagged \cup {sent[i] : i \in next..(Len(sent) - Capacity)}
        /\ Len(sent) >= next + Capacity
    BY <1>4 DEF Lag, channel, Overwritten
  <2>2. ASSUME NEW i \in DOMAIN sent, i < next', sent[i] # Shutdown
        PROVE  \/ sent[i] \in lagged' /\ Len(sent) >= i + Capacity
               \/ \E j \in DOMAIN dispatched : dispatched[j] = sent[i]
    <3>1. CASE i < next
      BY <1>1, <2>1, <2>2, <3>1
    <3>2. CASE i >= next
      <4>1. i \in next..(Len(sent) - Capacity) /\ Len(sent) >= i + Capacity
        BY <1>0, <2>1, <2>2, <3>2
      <4> QED
        BY <2>1, <4>1
    <3>3. i \in Nat
      BY <1>0
    <3> QED
      BY <1>0, <3>1, <3>2, <3>3
  <2>3. next' =< Len(sent) + 1
    BY <1>0, <2>1
  <2> QED
    BY <2>1, <2>2, <2>3 DEF SkipInv, NothingSkipped
<1>5. CASE Dispatch
  <2>1. PICK e \in Producers : Received(e) /\ dispatched' = Append(dispatched, e)
    BY <1>5 DEF Dispatch
  <2>2. UNCHANGED <<sent, lagged>> /\ next' = next + 1 /\ sent[next] = e /\ next =< Len(sent)
    BY <1>5, <2>1 DEF Dispatch, Received, channel
  <2>3. dispatched \in Seq(Producers) /\ e \in Producers /\ Len(dispatched) \in Nat
    BY <2>1 DEF TypeOK
  <2>4. /\ \A j \in DOMAIN dispatched : j \in DOMAIN dispatched' /\ dispatched'[j] = dispatched[j]
        /\ Len(dispatched) + 1 \in DOMAIN dispatched'
        /\ dispatched'[Len(dispatched) + 1] = e
    BY <2>1, <2>3
  <2>5. ASSUME NEW i \in DOMAIN sent, i < next', sent[i] # Shutdown
        PROVE  \/ sent[i] \in lagged /\ Len(sent) >= i + Capacity
               \/ \E j \in DOMAIN dispatched' : dispatched'[j] = sent[i]
    <3>1. CASE i < next
      <4>1. Found(i)
        BY <1>1, <2>5, <3>1
      <4> QED
        BY <2>4, <4>1
    <3>2. CASE i = next
      BY <2>2, <2>4, <3>2
    <3> QED
      BY <1>0, <2>2, <2>5, <3>1, <3>2
  <2>6. next' =< Len(sent) + 1
    BY <1>0, <2>2
  <2> QED
    BY <2>2, <2>5, <2>6 DEF SkipInv, NothingSkipped
<1>6. CASE Drain
  <2>1. /\ UNCHANGED <<sent, lagged, dispatched>>
        /\ next' = next + 1 /\ sent[next] = Shutdown /\ next =< Len(sent)
    BY <1>6 DEF Drain, Received, channel
  <2>2. ASSUME NEW i \in DOMAIN sent, i < next', sent[i] # Shutdown
        PROVE  Found(i)
    BY <1>0, <1>1, <2>1, <2>2
  <2>3. next' =< Len(sent) + 1
    BY <1>0, <2>1
  <2> QED
    BY <2>1, <2>2, <2>3 DEF SkipInv, NothingSkipped
<1>7. ASSUME NEW t \in Streams, BeginFinalizer(t) \/ Stream(t)
      PROVE  UNCHANGED <<next, lagged, dispatched>>
  BY <1>7 DEF BeginFinalizer, Stream, EmitStream, FinishFinalizer, delivery
<1>8. ASSUME NEW p \in Plain, EmitPlain(p) PROVE UNCHANGED <<next, lagged, dispatched>>
  BY <1>8 DEF EmitPlain, delivery
<1>9. ASSUME NEW h \in Handlers, Worker(h) PROVE UNCHANGED <<next, lagged, dispatched>>
  BY <1>9 DEF Worker, Handle, Panic, Flush
<1>10. Join \/ CallShutdown \/ ShutdownCall \/ TimeOut =>
         UNCHANGED <<next, lagged, dispatched>>
  BY DEF Join, CallShutdown, ShutdownCall, FinalizersDone, SendShutdown, Return, TimeOut,
         delivery
<1>11. UNCHANGED vars => UNCHANGED <<sent, next, lagged, dispatched>>
  BY DEF vars
<1> QED
  BY <1>2, <1>3, <1>4, <1>5, <1>6, <1>7, <1>8, <1>9, <1>10, <1>11
     DEF Next, Dispatcher

(***************************************************************************)
(* Events are lost only to lag, and then only when Capacity newer ones are *)
(* on the channel (blocking_recv in spawn_event_loop), for any capacity.   *)
(***************************************************************************)
THEOREM NothingSkippedCorrect == Spec => []NothingSkipped
<1>1. Init => SkipInv
  BY DEF Init, SkipInv, NothingSkipped
<1>2. BusInv /\ SkipInv /\ [Next]_vars => SkipInv'
  BY SkipStep DEF BusInv
<1>3. SkipInv => NothingSkipped
  BY DEF SkipInv
<1> QED
  BY <1>1, <1>2, <1>3, TypeCorrect, PTL DEF Spec

-----------------------------------------------------------------------------
\* Nothing the streams of a shutdown need is undone by an emission.
LEMMA EmitEarly ==
    ASSUME TypeOK, ShutdownInv, EarlyInv, Next, NEW t \in Streams, stream[t] = "open",
           EmitStream(t)
    PROVE  EarlyInv'
<1>1. /\ UNCHANGED <<shutdown, early>> /\ stream' = [stream EXCEPT ![t] = "emitted"]
      /\ Emit(t)
  BY DEF EmitStream
<1>2. t \in Producers /\ t # Shutdown
  BY EventsAssumption DEF Producers
<1>3. \A s \in Streams \ {t} : stream'[s] = stream[s]
  BY <1>1 DEF TypeOK
<1>4. stream'[t] = "emitted"
  BY <1>1 DEF TypeOK
<1>5. /\ sent \in Seq(Events) /\ Len(sent) \in Nat /\ DOMAIN sent = 1..Len(sent)
      /\ early \subseteq Streams /\ t \in Events
  BY DEF TypeOK, Events
<1>6. ASSUME shutdown = "idle" \/ t \in early
      PROVE  \E k \in DOMAIN sent' : sent'[k] = t
  <2>1. \A i \in DOMAIN sent : sent[i] # Shutdown
    BY <1>6 DEF EarlyInv, ShutdownInv
  <2>2. dispatcher = "run"
    BY <2>1 DEF ShutdownInv
  <2>3. sent' = Append(sent, t)
    BY <1>1, <1>2, <2>2, EmitChannel
  <2>4. Len(sent) + 1 \in DOMAIN sent' /\ sent'[Len(sent) + 1] = t
    BY <1>5, <2>3
  <2> QED
    BY <2>4
<1>7. \A i \in DOMAIN sent : i \in DOMAIN sent' /\ sent'[i] = sent[i]
  BY ChannelGrows
<1>8. \A i \in DOMAIN sent' : sent'[i] = Shutdown => i \in DOMAIN sent /\ sent[i] = Shutdown
  <2>1. CASE sent' = sent
    BY <2>1
  <2>2. CASE sent' = Append(sent, t)
    <3>1. DOMAIN sent' = 1..(Len(sent) + 1) /\ sent'[Len(sent) + 1] = t
      BY <1>5, <2>2
    <3> QED
      BY <1>2, <1>5, <1>7, <3>1
  <2> QED
    BY <1>1, <1>2, <2>1, <2>2, EmitChannel
<1>9. ASSUME NEW s \in Streams, stream'[s] \in {"emitted", "closed"},
             shutdown = "idle" \/ s \in early
      PROVE  \E k \in DOMAIN sent' : sent'[k] = s
  <2>1. CASE s = t
    BY <1>6, <1>9, <2>1
  <2>2. CASE s # t
    <3>1. stream[s] \in {"emitted", "closed"}
      BY <1>3, <1>9, <2>2
    <3>2. \E k \in DOMAIN sent : sent[k] = s
      BY <1>9, <3>1 DEF EarlyInv
    <3> QED
      BY <1>7, <3>2
  <2> QED
    BY <2>1, <2>2
<1>10. ASSUME NEW s \in early, NEW i \in DOMAIN sent', sent'[i] = Shutdown
       PROVE  stream'[s] = "closed" /\ \E k \in 1..(i - 1) : sent'[k] = s
  <2>1. i \in DOMAIN sent /\ sent[i] = Shutdown
    BY <1>8, <1>10
  <2>2. stream[s] = "closed" /\ \E k \in 1..(i - 1) : sent[k] = s
    BY <2>1 DEF EarlyInv
  <2>3. s # t /\ s \in Streams
    BY <1>5, <2>2
  <2>4. \A k \in 1..(i - 1) : k \in DOMAIN sent
    BY <1>5, <2>1
  <2> QED
    BY <1>3, <1>7, <2>2, <2>3, <2>4
<1>11. \A s \in early : stream'[s] # "idle" /\ (stream[s] = "closed" => stream'[s] = "closed")
  BY <1>3, <1>4, <1>5 DEF EarlyInv
<1>12. shutdown \in {"send", "await", "returned"} => \A s \in early : stream'[s] = "closed"
  BY <1>11 DEF EarlyInv
<1>13. shutdown = "idle" => early = {}
  BY DEF EarlyInv
<1> QED
  BY <1>1, <1>5, <1>9, <1>10, <1>11, <1>12, <1>13 DEF EarlyInv

LEMMA EarlyStep == BusInv /\ EarlyInv /\ [Next]_vars => EarlyInv'
<1> SUFFICES ASSUME BusInv, EarlyInv, [Next]_vars PROVE EarlyInv'
  OBVIOUS
<1> USE DEF BusInv
<1>0. /\ sent \in Seq(Events) /\ Len(sent) \in Nat /\ DOMAIN sent = 1..Len(sent)
      /\ early \subseteq Streams
  BY DEF TypeOK
<1>1. CASE UNCHANGED <<sent, stream, shutdown, early>>
  BY <1>1 DEF EarlyInv
<1>2. ASSUME NEW t \in Streams, BeginFinalizer(t) PROVE EarlyInv'
  <2>1. /\ UNCHANGED <<sent, shutdown, early>> /\ stream[t] = "idle"
        /\ stream' = [stream EXCEPT ![t] = "open"]
    BY <1>2 DEF BeginFinalizer, channel
  <2>2. /\ \A s \in Streams \ {t} : stream'[s] = stream[s]
        /\ stream'[t] = "open" /\ t \notin early
    BY <2>1 DEF TypeOK, EarlyInv
  <2>3. \A s \in early : stream'[s] = stream[s]
    BY <1>0, <2>2
  <2> QED
    BY <2>1, <2>2, <2>3 DEF EarlyInv
<1>3. ASSUME NEW t \in Streams, EmitStream(t), Next PROVE EarlyInv'
  <2>1. stream[t] = "open"
    BY <1>3 DEF EmitStream
  <2> QED
    BY <1>3, <2>1, EmitEarly
<1>4. ASSUME NEW t \in Streams, FinishFinalizer(t) PROVE EarlyInv'
  <2>1. /\ UNCHANGED <<sent, shutdown, early>> /\ stream[t] = "emitted"
        /\ stream' = [stream EXCEPT ![t] = "closed"]
    BY <1>4 DEF FinishFinalizer, channel
  <2>2. /\ \A s \in Streams \ {t} : stream'[s] = stream[s]
        /\ stream'[t] = "closed"
    BY <2>1 DEF TypeOK
  <2>3. \A s \in Streams : /\ stream[s] = "closed" => stream'[s] = "closed"
                           /\ stream[s] # "idle" => stream'[s] # "idle"
                           /\ stream'[s] \in {"emitted", "closed"} =>
                                stream[s] \in {"emitted", "closed"}
    BY <2>1, <2>2
  <2> QED
    BY <1>0, <2>1, <2>3 DEF EarlyInv
<1>5. ASSUME NEW p \in Plain, EmitPlain(p), Next PROVE EarlyInv'
  <2>1. UNCHANGED <<stream, shutdown, early>> /\ Emit(p) /\ p \in Producers /\ p # Shutdown
    BY <1>5, EventsAssumption DEF EmitPlain, Producers
  <2>2. \A i \in DOMAIN sent : i \in DOMAIN sent' /\ sent'[i] = sent[i]
    BY <1>5, ChannelGrows
  <2>3. \A i \in DOMAIN sent' : sent'[i] = Shutdown => i \in DOMAIN sent /\ sent[i] = Shutdown
    <3>1. CASE sent' = sent
      BY <3>1
    <3>2. CASE sent' = Append(sent, p)
      <4>1. p \in Events
        BY DEF Events
      <4>2. DOMAIN sent' = 1..(Len(sent) + 1) /\ sent'[Len(sent) + 1] = p
        BY <1>0, <3>2, <4>1
      <4> QED
        BY <1>0, <2>1, <2>2, <4>2
    <3> QED
      BY <2>1, <3>1, <3>2, EmitChannel
  <2>4. \A i \in DOMAIN sent : \A k \in 1..(i - 1) : k \in DOMAIN sent
    BY <1>0
  <2>5. ASSUME NEW s \in early, NEW i \in DOMAIN sent', sent'[i] = Shutdown
        PROVE  stream[s] = "closed" /\ \E k \in 1..(i - 1) : sent'[k] = s
    <3>1. i \in DOMAIN sent /\ sent[i] = Shutdown
      BY <2>3, <2>5
    <3>2. stream[s] = "closed" /\ \E k \in 1..(i - 1) : sent[k] = s
      BY <3>1 DEF EarlyInv
    <3> QED
      BY <2>2, <2>4, <3>1, <3>2
  <2>6. \A s \in Streams : (\E k \in DOMAIN sent : sent[k] = s) =>
                             \E k \in DOMAIN sent' : sent'[k] = s
    BY <2>2
  <2> QED
    BY <1>0, <2>1, <2>5, <2>6 DEF EarlyInv
<1>6. CASE CallShutdown
  <2>1. /\ UNCHANGED <<sent, stream>> /\ shutdown = "idle" /\ shutdown' = "wait"
        /\ early' = {t \in Streams : stream[t] \in {"open", "emitted"}}
    BY <1>6 DEF CallShutdown, channel, producers
  <2>2. \A i \in DOMAIN sent : sent[i] # Shutdown
    BY <2>1 DEF ShutdownInv
  <2> QED
    BY <2>1, <2>2 DEF EarlyInv
<1>7. CASE FinalizersDone
  <2>1. UNCHANGED <<sent, stream, early>> /\ finalizers = 0 /\ shutdown' = "send"
    BY <1>7 DEF FinalizersDone, channel, producers
  <2>2. Open = {}
    BY <2>1, FS_EmptySet DEF FinalizersCount
  <2>3. \A t \in early : stream[t] = "closed"
    BY <1>0, <2>2 DEF Open, EarlyInv, TypeOK
  <2> QED
    BY <2>1, <2>3 DEF EarlyInv
<1>8. CASE SendShutdown
  <2>1. /\ UNCHANGED <<stream, early>> /\ sent' = Append(sent, Shutdown)
        /\ shutdown = "send" /\ shutdown' = "await"
    BY <1>8 DEF SendShutdown, producers
  <2>2. Shutdown \in Events
    BY DEF Events
  <2>3. /\ DOMAIN sent' = 1..(Len(sent) + 1)
        /\ \A i \in DOMAIN sent : i \in DOMAIN sent' /\ sent'[i] = sent[i]
    BY <1>0, <2>1, <2>2
  <2>4. \A i \in DOMAIN sent : sent[i] # Shutdown
    BY <2>1 DEF ShutdownInv
  <2>5. \A t \in early : stream[t] = "closed" /\ \E k \in DOMAIN sent : sent[k] = t
    BY <2>1 DEF EarlyInv
  <2>6. ASSUME NEW t \in early, NEW i \in DOMAIN sent', sent'[i] = Shutdown
        PROVE  \E k \in 1..(i - 1) : sent'[k] = t
    <3>1. i = Len(sent) + 1
      BY <1>0, <2>3, <2>4, <2>6
    <3>2. DOMAIN sent = 1..(i - 1)
      BY <1>0, <3>1
    <3> QED
      BY <2>3, <2>5, <3>2
  <2> QED
    BY <2>1, <2>3, <2>5, <2>6 DEF EarlyInv
<1>9. CASE Return \/ TimeOut
  <2>1. /\ UNCHANGED <<sent, stream, early>>
        /\ (shutdown = "await" /\ shutdown' = "returned") \/ shutdown' = "timed_out"
    BY <1>9 DEF Return, TimeOut, channel, producers
  <2> QED
    BY <2>1 DEF EarlyInv
<1>10. Dispatcher => UNCHANGED <<sent, stream, shutdown, early>>
  BY DEF Dispatcher, Lag, Dispatch, Drain, Join, channel, producers
<1>11. ASSUME NEW h \in Handlers, Worker(h) PROVE UNCHANGED <<sent, stream, shutdown, early>>
  BY <1>11 DEF Worker, Handle, Panic, Flush, channel, producers
<1>12. UNCHANGED vars => UNCHANGED <<sent, stream, shutdown, early>>
  BY DEF vars
<1> QED
  BY <1>1, <1>2, <1>3, <1>4, <1>5, <1>6, <1>7, <1>8, <1>9, <1>10, <1>11, <1>12
     DEF Next, Stream, ShutdownCall

\* The parts together.
LEMMA RecordedFollows ==
    BusInv /\ HandlersIndependent /\ NothingSkipped /\ EarlyInv => OpenStreamsRecorded
<1> SUFFICES ASSUME BusInv, HandlersIndependent, NothingSkipped, EarlyInv,
                    shutdown = "returned", late < Capacity,
                    NEW t \in early \ lagged, NEW h \in Handlers, worker[h] # "panicked"
             PROVE  \E i \in DOMAIN handled[h] : handled[h][i] = t
  BY DEF OpenStreamsRecorded
<1>1. dispatcher = "done" /\ queue[h] = <<>>
  BY DEF BusInv, ShutdownInv, WorkersInv
<1>2. PICK i \in DOMAIN sent : sent[i] = Shutdown /\ i < next
  BY <1>1 DEF BusInv, ShutdownInv
<1>3. PICK k \in 1..(i - 1) : sent[k] = t
  BY <1>2 DEF EarlyInv
<1>4. sent \in Seq(Events) /\ Len(sent) \in Nat /\ DOMAIN sent = 1..Len(sent) /\ next \in Nat
  BY DEF BusInv, TypeOK
<1>5. k \in DOMAIN sent /\ k < next
  BY <1>2, <1>3, <1>4
<1>6. t # Shutdown
  BY EventsAssumption DEF BusInv, TypeOK
<1>7. \E j \in DOMAIN dispatched : dispatched[j] = t
  BY <1>3, <1>5, <1>6 DEF NothingSkipped
<1>8. handled[h] \in Seq(Producers) /\ handled[h] \o <<>> = dispatched
  BY <1>1 DEF BusInv, TypeOK, HandlersIndependent
<1>9. handled[h] = dispatched
  BY <1>8
<1> QED
  BY <1>7, <1>9

(***************************************************************************)
(* A shutdown that returns has recorded every stream that was open when it *)
(* was called and that the dispatcher did not lag behind.                  *)
(***************************************************************************)
THEOREM OpenStreamsRecordedCorrect == Spec => []OpenStreamsRecorded
<1>1. Init => EarlyInv
  BY DEF Init, EarlyInv
<1>2. BusInv /\ EarlyInv /\ [Next]_vars => EarlyInv'
  BY EarlyStep
<1>3. BusInv /\ HandlersIndependent /\ NothingSkipped /\ EarlyInv => OpenStreamsRecorded
  BY RecordedFollows
<1> QED
  BY <1>1, <1>2, <1>3, TypeCorrect, HandlersIndependentCorrect, NothingSkippedCorrect,
     PTL DEF Spec

(***************************************************************************)
(* Delivery is sound for any handlers, any producers and any capacity.     *)
(***************************************************************************)
THEOREM DeliverySoundCorrect == Spec => []DeliverySound
<1>1. TypeOK /\ NothingSkipped /\ HandlersIndependent => DeliverySound
  BY DEF DeliverySound
<1> QED
  BY <1>1, TypeCorrect, NothingSkippedCorrect, HandlersIndependentCorrect, PTL

(***************************************************************************)
(* So is shutdown.                                                         *)
(***************************************************************************)
THEOREM ShutdownSoundCorrect == Spec => []ShutdownSound
<1>1. ShutdownDrains /\ OpenStreamsRecorded => ShutdownSound
  BY DEF ShutdownSound
<1> QED
  BY <1>1, ShutdownDrainsCorrect, OpenStreamsRecordedCorrect, PTL

=============================================================================
