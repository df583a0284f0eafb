---------------------------- MODULE NativeClient ----------------------------
(***************************************************************************)
(* The life of the operations of one native client, of the TypeScript      *)
(* binding (bindings/typescript/native): requests, streams and reloads are *)
(* registered with the client, any of them can be cancelled by its caller, *)
(* a stream is read and closed, and closing the client cancels all of them *)
(* and waits until the last has let go of its OperationGuard.              *)
(*                                                                         *)
(* The JavaScript thread and the workers of the runtime run in parallel,   *)
(* so a step is what one of them does under one lock, or one access to an  *)
(* atomic.  What an upstream answers, and whether it answers, is open.     *)
(***************************************************************************)
EXTENDS Naturals

CONSTANTS
    Streams, Reloads,        \* operations, by what they are; the rest are requests
    Operations,
    Readers, StreamOf,       \* calls of next(), and the stream that each one reads
    Closers,                 \* calls of the client's close()
    MaxItems,                \* bound: items that the upstream of a stream sends
    None

\* What the proofs need of the constants; the modules that instantiate this one assume it.
NativeAssumption ==
    /\ Streams \cup Reloads \subseteq Operations /\ Streams \cap Reloads = {}
    /\ StreamOf \in [Readers -> Streams] /\ MaxItems \in Nat
    /\ Operations \cap Readers = {} /\ None \notin Operations \cup Readers
    /\ Readers \cap {"stored", "empty"} = {}

VARIABLES
    closed,      \* ClientState.closed
    active,      \* ClientState.active: the operations whose guard is not dropped
    op,          \* where the task of an operation is
    wait,        \* where a task is in Cancellation::cancelled
    ticket,      \* whether its Notified was made after notify_waiters
    reason,      \* Cancellation.reason
    cleanup,     \* Cancellation.cleanup
    cancel,      \* where the one call of cancel() that won is
    notified,    \* whether Cancellation.notify was notified
    slot,        \* who has a stream and its guard: the ClosableStream, a reader or nobody
    nextLock,    \* the reader that holds ClosableStream.next
    reader,      \* where a call of next() is
    shut,        \* where the call of a stream's close() is
    reloadLock,  \* the operation that holds ClientState.reload_lock
    closer,      \* where a call of the client's close() is
    todo,        \* the cancellations it collected and has not cancelled yet
    items        \* items that a stream has given

vars == <<closed, active, op, wait, ticket, reason, cleanup, cancel, notified, slot,
          nextLock, reader, shut, reloadLock, closer, todo, items>>

cancelVars == <<reason, cleanup, cancel, notified>>
streamVars == <<slot, nextLock, reader, shut, items>>
clientVars == <<closed, active, closer, todo>>

Tasks == Operations \cup Readers
Reasons == {"Live", "User", "StreamClosed", "ClientClosed"}

\* The operation whose cancellation a task waits for.
Of(t) == IF t \in Readers THEN StreamOf[t] ELSE t

TypeOK ==
    /\ closed \in BOOLEAN /\ active \subseteq Operations
    /\ op \in [Operations -> {"idle", "registering", "running", "ready", "open", "blocking",
                              "ended"}]
    /\ wait \in [Tasks -> {"out", "start", "armed", "parked"}]
    /\ ticket \in [Tasks -> BOOLEAN]
    /\ reason \in [Operations -> Reasons]
    /\ cleanup \in [Operations -> {"none", "stored", "taken"}]
    /\ cancel \in [Operations -> {"none", "won", "taken", "notified", "done"}]
    /\ notified \in [Operations -> BOOLEAN]
    /\ slot \in [Streams -> Readers \cup {"stored", "empty"}]
    /\ nextLock \in [Streams -> Readers \cup {None}]
    /\ reader \in [Readers -> {"idle", "lock", "read", "got", "failed", "won", "lost",
                               "over"}]
    /\ shut \in [Streams -> {"idle", "won", "lost", "done"}]
    /\ reloadLock \in Reloads \cup {None}
    /\ closer \in [Closers -> {"idle", "collect", "cancel", "cancelling", "waiting", "done"}]
    /\ todo \in [Closers -> SUBSET Operations]
    /\ items \in [Streams -> 0 .. MaxItems]

Init ==
    /\ closed = FALSE /\ active = {}
    /\ op = [o \in Operations |-> "idle"]
    /\ wait = [t \in Tasks |-> "out"]
    /\ ticket = [t \in Tasks |-> FALSE]
    /\ reason = [o \in Operations |-> "Live"]
    /\ cleanup = [o \in Operations |-> "none"]
    /\ cancel = [o \in Operations |-> "none"]
    /\ notified = [o \in Operations |-> FALSE]
    /\ slot = [s \in Streams |-> "empty"]
    /\ nextLock = [s \in Streams |-> None]
    /\ reader = [r \in Readers |-> "idle"]
    /\ shut = [s \in Streams |-> "idle"]
    /\ reloadLock = None
    /\ closer = [k \in Closers |-> "idle"]
    /\ todo = [k \in Closers |-> {}]
    /\ items = [s \in Streams |-> 0]

-----------------------------------------------------------------------------
(* Cancellation::cancel.  The reason is set once; whoever sets it takes the *)
(* cleanup, wakes the waiters and runs the cleanup, in this order.          *)

\* The compare_exchange: the first reason stays.
SetReason(o, why) ==
    IF reason[o] = "Live"
    THEN /\ reason' = [reason EXCEPT ![o] = why]
         /\ cancel' = [cancel EXCEPT ![o] = "won"]
    ELSE UNCHANGED <<reason, cancel>>

TakeCleanup(o) ==
    /\ cancel[o] = "won"
    /\ cancel' = [cancel EXCEPT ![o] = "taken"]
    /\ cleanup' = [cleanup EXCEPT ![o] = IF @ = "stored" THEN "taken" ELSE @]
    /\ UNCHANGED <<clientVars, op, wait, ticket, reason, notified, streamVars, reloadLock>>

\* notify_waiters leaves no permit: it wakes the tasks whose Notified exists.
NotifyWaiters(o) ==
    /\ cancel[o] = "taken"
    /\ cancel' = [cancel EXCEPT ![o] = "notified"]
    /\ notified' = [notified EXCEPT ![o] = TRUE]
    /\ UNCHANGED <<clientVars, op, wait, ticket, reason, cleanup, streamVars, reloadLock>>

\* ClosableStream::discard: the stream goes, and its guard with it, unless a reader has it.
Discard(s) ==
    IF slot[s] = "stored"
    THEN /\ slot' = [slot EXCEPT ![s] = "empty"]
         /\ active' = active \ {s}
    ELSE UNCHANGED <<slot, active>>

RunCleanup(o) ==
    /\ cancel[o] = "notified"
    /\ cancel' = [cancel EXCEPT ![o] = "done"]
    /\ IF cleanup[o] = "taken" THEN Discard(o) ELSE UNCHANGED <<slot, active>>
    /\ UNCHANGED <<closed, closer, todo, op, wait, ticket, reason, cleanup, notified,
                   nextLock, reader, shut, items, reloadLock>>

\* The caller's own cancel(), from its AbortSignal.
UserCancel(o) ==
    /\ reason[o] = "Live"
    /\ SetReason(o, "User")
    /\ UNCHANGED <<clientVars, op, wait, ticket, cleanup, notified, streamVars, reloadLock>>

-----------------------------------------------------------------------------
(* Cancellation::cancelled, the first arm of every select.  It makes a      *)
(* Notified, then reads the reason, then parks; the second arm is polled    *)
(* once it is parked.                                                       *)

Arm(t) ==
    /\ wait[t] = "start"
    /\ wait' = [wait EXCEPT ![t] = "armed"]
    /\ ticket' = [ticket EXCEPT ![t] = notified[Of(t)]]
    /\ UNCHANGED <<clientVars, op, cancelVars, streamVars, reloadLock>>

\* Mutant of Park: the task parks without a look at the reason.
ParkBlindly(t) ==
    /\ wait[t] = "armed"
    /\ wait' = [wait EXCEPT ![t] = "parked"]
    /\ UNCHANGED <<clientVars, op, ticket, cancelVars, streamVars, reloadLock>>

Park(t) ==
    /\ wait[t] = "armed" /\ reason[Of(t)] = "Live"
    /\ wait' = [wait EXCEPT ![t] = "parked"]
    /\ UNCHANGED <<clientVars, op, ticket, cancelVars, streamVars, reloadLock>>

Wake(t) ==
    /\ wait[t] = "parked" /\ notified[Of(t)] /\ ~ticket[t]
    /\ wait' = [wait EXCEPT ![t] = "start"]
    /\ UNCHANGED <<clientVars, op, ticket, cancelVars, streamVars, reloadLock>>

\* The arm is ready: the task drops what it has.  An operation drops its guard; a reader
\* that has the stream drops it, with the guard, and unlocks.
Interrupted(t) ==
    /\ wait[t] = "armed" /\ reason[Of(t)] # "Live"
    /\ wait' = [wait EXCEPT ![t] = "out"]
    /\ ticket' = [ticket EXCEPT ![t] = FALSE]
    /\ IF t \in Readers
       THEN /\ reader' = [reader EXCEPT ![t] = "over"]
            /\ IF reader[t] = "read"
               THEN /\ slot' = [slot EXCEPT ![Of(t)] = "empty"]
                    /\ nextLock' = [nextLock EXCEPT ![Of(t)] = None]
                    /\ active' = active \ {Of(t)}
               ELSE UNCHANGED <<slot, nextLock, active>>
            /\ UNCHANGED op
       ELSE /\ op' = [op EXCEPT ![t] = "ended"]
            /\ active' = active \ {t}
            /\ UNCHANGED <<slot, nextLock, reader>>
    /\ UNCHANGED <<closed, closer, todo, cancelVars, shut, items, reloadLock>>

\* The second arm is taken.
Leave(t) ==
    /\ wait[t] = "parked"
    /\ wait' = [wait EXCEPT ![t] = "out"]
    /\ ticket' = [ticket EXCEPT ![t] = FALSE]

-----------------------------------------------------------------------------
(* ClientState::register, and the tasks of the operations. *)

\* The checks before the lock.
Register(o) ==
    /\ op[o] = "idle"
    /\ op' = [op EXCEPT ![o] = IF closed \/ reason[o] # "Live" THEN "ended"
                               ELSE "registering"]
    /\ UNCHANGED <<clientVars, wait, ticket, cancelVars, streamVars, reloadLock>>

\* Mutant of Insert: the checks before the lock are the only ones.
InsertUnchecked(o) ==
    /\ op[o] = "registering"
    /\ op' = [op EXCEPT ![o] = "running"]
    /\ active' = active \cup {o}
    /\ wait' = [wait EXCEPT ![o] = "start"]
    /\ UNCHANGED <<closed, closer, todo, ticket, cancelVars, streamVars, reloadLock>>

\* The same checks with the lock of `active`, and the entry.
Insert(o) ==
    /\ op[o] = "registering"
    /\ IF closed \/ reason[o] # "Live"
       THEN /\ op' = [op EXCEPT ![o] = "ended"]
            /\ UNCHANGED <<active, wait>>
       ELSE /\ op' = [op EXCEPT ![o] = "running"]
            /\ active' = active \cup {o}
            /\ wait' = [wait EXCEPT ![o] = "start"]
    /\ UNCHANGED <<closed, closer, todo, ticket, cancelVars, streamVars, reloadLock>>

\* The upstream answers: a request is over; a stream is looked at once more, and over
\* if it was refused or cancelled meanwhile.
Answer(o) ==
    /\ op[o] = "running" /\ o \notin Reloads
    /\ Leave(o)
    /\ \/ /\ op' = [op EXCEPT ![o] = "ended"]
          /\ active' = active \ {o}
       \/ /\ o \in Streams /\ reason[o] = "Live"
          /\ op' = [op EXCEPT ![o] = "ready"]
          /\ UNCHANGED active
    /\ UNCHANGED <<closed, closer, todo, cancelVars, streamVars, reloadLock>>

\* Mutant of Open: the cleanup is stored also when cancel() has been there.
OpenStores(o) ==
    /\ op[o] = "ready"
    /\ op' = [op EXCEPT ![o] = "open"]
    /\ cleanup' = [cleanup EXCEPT ![o] = "stored"]
    /\ slot' = [slot EXCEPT ![o] = "stored"]
    /\ UNCHANGED <<clientVars, wait, ticket, reason, cancel, notified, nextLock, reader, shut,
                   items, reloadLock>>

\* ClosableStream::new with set_cleanup: the cleanup is stored, or run at once when the
\* stream is cancelled already.
Open(o) ==
    /\ op[o] = "ready"
    /\ op' = [op EXCEPT ![o] = "open"]
    /\ IF reason[o] = "Live"
       THEN /\ cleanup' = [cleanup EXCEPT ![o] = "stored"]
            /\ slot' = [slot EXCEPT ![o] = "stored"]
            /\ UNCHANGED active
       ELSE /\ active' = active \ {o}
            /\ UNCHANGED <<cleanup, slot>>
    /\ UNCHANGED <<closed, closer, todo, wait, ticket, reason, cancel, notified, nextLock,
                   reader, shut, items, reloadLock>>

\* Mutant of BeginReload: the guard is dropped when the thread starts.
BeginReloadUnguarded(o) ==
    /\ o \in Reloads /\ op[o] = "running" /\ reloadLock = None
    /\ Leave(o)
    /\ reloadLock' = o
    /\ active' = active \ {o}
    /\ op' = [op EXCEPT ![o] = "blocking"]
    /\ UNCHANGED <<closed, closer, todo, cancelVars, streamVars>>

\* A reload gets the lock, and guard and lock go to a thread that nothing interrupts.
BeginReload(o) ==
    /\ o \in Reloads /\ op[o] = "running" /\ reloadLock = None
    /\ Leave(o)
    /\ reloadLock' = o
    /\ op' = [op EXCEPT ![o] = "blocking"]
    /\ UNCHANGED <<clientVars, cancelVars, streamVars>>

EndReload(o) ==
    /\ op[o] = "blocking"
    /\ reloadLock' = None
    /\ active' = active \ {o}
    /\ op' = [op EXCEPT ![o] = "ended"]
    /\ UNCHANGED <<closed, closer, todo, wait, ticket, cancelVars, streamVars>>

-----------------------------------------------------------------------------
(* ClosableStream::next and close. *)

CallNext(r) ==
    /\ reader[r] = "idle" /\ op[StreamOf[r]] = "open"
    /\ reader' = [reader EXCEPT ![r] = "lock"]
    /\ wait' = [wait EXCEPT ![r] = "start"]
    /\ UNCHANGED <<clientVars, op, ticket, cancelVars, slot, nextLock, shut, items,
                   reloadLock>>

\* The lock of next, and the stream and its guard taken out, if they are there.
TakeStream(r) ==
    LET s == StreamOf[r] IN
    /\ reader[r] = "lock" /\ wait[r] = "parked" /\ nextLock[s] = None
    /\ ticket' = [ticket EXCEPT ![r] = FALSE]
    /\ IF slot[s] = "stored"
       THEN /\ slot' = [slot EXCEPT ![s] = r]
            /\ nextLock' = [nextLock EXCEPT ![s] = r]
            /\ reader' = [reader EXCEPT ![r] = "read"]
            /\ wait' = [wait EXCEPT ![r] = "start"]
       ELSE /\ reader' = [reader EXCEPT ![r] = "over"]
            /\ wait' = [wait EXCEPT ![r] = "out"]
            /\ UNCHANGED <<slot, nextLock>>
    /\ UNCHANGED <<clientVars, op, cancelVars, shut, items, reloadLock>>

\* The upstream sends an item.
Item(r) ==
    /\ reader[r] = "read" /\ items[StreamOf[r]] < MaxItems
    /\ Leave(r)
    /\ items' = [items EXCEPT ![StreamOf[r]] = @ + 1]
    /\ reader' = [reader EXCEPT ![r] = "got"]
    /\ UNCHANGED <<clientVars, op, cancelVars, slot, nextLock, shut, reloadLock>>

\* Mutant of PutBack: the stream goes back in any case.
PutBackAlways(r) ==
    LET s == StreamOf[r] IN
    /\ reader[r] = "got"
    /\ slot' = [slot EXCEPT ![s] = "stored"]
    /\ reader' = [reader EXCEPT ![r] = "idle"]
    /\ nextLock' = [nextLock EXCEPT ![s] = None]
    /\ UNCHANGED <<clientVars, op, wait, ticket, cancelVars, shut, items, reloadLock>>

\* With the lock of the stream: it goes back only while it is not cancelled.
PutBack(r) ==
    LET s == StreamOf[r] IN
    /\ reader[r] = "got"
    /\ IF reason[s] = "Live"
       THEN /\ slot' = [slot EXCEPT ![s] = "stored"]
            /\ reader' = [reader EXCEPT ![r] = "idle"]
            /\ UNCHANGED active
       ELSE /\ slot' = [slot EXCEPT ![s] = "empty"]
            /\ reader' = [reader EXCEPT ![r] = "over"]
            /\ active' = active \ {s}
    /\ nextLock' = [nextLock EXCEPT ![s] = None]
    /\ UNCHANGED <<closed, closer, todo, op, wait, ticket, cancelVars, shut, items,
                   reloadLock>>

\* The upstream ends or fails: stream and guard are dropped, then the stream is closed.
Exhausted(r) ==
    /\ reader[r] = "read"
    /\ Leave(r)
    /\ slot' = [slot EXCEPT ![StreamOf[r]] = "empty"]
    /\ active' = active \ {StreamOf[r]}
    /\ reader' = [reader EXCEPT ![r] = "failed"]
    /\ UNCHANGED <<closed, closer, todo, op, cancelVars, nextLock, shut, items, reloadLock>>

CloseExhausted(r) ==
    /\ reader[r] = "failed"
    /\ SetReason(StreamOf[r], "StreamClosed")
    /\ reader' = [reader EXCEPT ![r] = IF reason[StreamOf[r]] = "Live" THEN "won" ELSE "lost"]
    /\ UNCHANGED <<clientVars, op, wait, ticket, cleanup, notified, slot, nextLock, shut,
                   items, reloadLock>>

\* next() returns, and unlocks; the close() that follows an error finds nothing to do.
ReturnExhausted(r) ==
    /\ \/ reader[r] = "won" /\ cancel[StreamOf[r]] = "done"
       \/ reader[r] = "lost"
    /\ reader' = [reader EXCEPT ![r] = "over"]
    /\ nextLock' = [nextLock EXCEPT ![StreamOf[r]] = None]
    /\ UNCHANGED <<clientVars, op, wait, ticket, cancelVars, slot, shut, items, reloadLock>>

\* close(), also when the stream object is dropped: cancel it, then discard.
CallClose(s) ==
    /\ shut[s] = "idle" /\ op[s] = "open"
    /\ SetReason(s, "StreamClosed")
    /\ shut' = [shut EXCEPT ![s] = IF reason[s] = "Live" THEN "won" ELSE "lost"]
    /\ UNCHANGED <<clientVars, op, wait, ticket, cleanup, notified, slot, nextLock, reader,
                   items, reloadLock>>

CloseStream(s) ==
    /\ \/ shut[s] = "won" /\ cancel[s] = "done"
       \/ shut[s] = "lost"
    /\ shut' = [shut EXCEPT ![s] = "done"]
    /\ Discard(s)
    /\ UNCHANGED <<closed, closer, todo, op, wait, ticket, cancelVars, nextLock, reader,
                   items, reloadLock>>

-----------------------------------------------------------------------------
(* ClientState::close: begin_close, then the wait for the last guard. *)

BeginClose(k) ==
    /\ closer[k] = "idle"
    /\ closed' = TRUE
    /\ closer' = [closer EXCEPT ![k] = IF closed THEN "waiting" ELSE "collect"]
    /\ UNCHANGED <<active, todo, op, wait, ticket, cancelVars, streamVars, reloadLock>>

Collect(k) ==
    /\ closer[k] = "collect"
    /\ todo' = [todo EXCEPT ![k] = active]
    /\ closer' = [closer EXCEPT ![k] = "cancel"]
    /\ UNCHANGED <<closed, active, op, wait, ticket, cancelVars, streamVars, reloadLock>>

\* One cancellation after the other; `active` is not locked, since a cleanup locks it.
CancelOne(k) ==
    \E o \in todo[k] :
        /\ closer[k] = "cancel"
        /\ SetReason(o, "ClientClosed")
        /\ IF reason[o] = "Live"
           THEN /\ closer' = [closer EXCEPT ![k] = "cancelling"]
                /\ UNCHANGED todo
           ELSE /\ todo' = [todo EXCEPT ![k] = @ \ {o}]
                /\ UNCHANGED closer
        /\ UNCHANGED <<closed, active, op, wait, ticket, cleanup, notified, streamVars,
                       reloadLock>>

Cancelled(k) ==
    \E o \in todo[k] :
        /\ closer[k] = "cancelling" /\ reason[o] = "ClientClosed" /\ cancel[o] = "done"
        /\ todo' = [todo EXCEPT ![k] = @ \ {o}]
        /\ closer' = [closer EXCEPT ![k] = "cancel"]
        /\ UNCHANGED <<closed, active, op, wait, ticket, cancelVars, streamVars, reloadLock>>

AwaitDrain(k) ==
    /\ closer[k] = "cancel" /\ todo[k] = {}
    /\ closer' = [closer EXCEPT ![k] = "waiting"]
    /\ UNCHANGED <<closed, active, todo, op, wait, ticket, cancelVars, streamVars, reloadLock>>

Drained(k) ==
    /\ closer[k] = "waiting" /\ active = {}
    /\ closer' = [closer EXCEPT ![k] = "done"]
    /\ UNCHANGED <<closed, active, todo, op, wait, ticket, cancelVars, streamVars, reloadLock>>

-----------------------------------------------------------------------------
CancelStep(o) == TakeCleanup(o) \/ NotifyWaiters(o) \/ RunCleanup(o)
WaitStep(t) == Arm(t) \/ Park(t) \/ Wake(t) \/ Interrupted(t)
CloserStep(k) == Collect(k) \/ CancelOne(k) \/ Cancelled(k) \/ AwaitDrain(k) \/ Drained(k)

Next ==
    \/ \E o \in Operations :
          \/ CancelStep(o) \/ UserCancel(o)
          \/ Register(o) \/ Insert(o) \/ Answer(o) \/ Open(o)
          \/ BeginReload(o) \/ EndReload(o)
    \/ \E t \in Tasks : WaitStep(t)
    \/ \E r \in Readers :
          CallNext(r) \/ TakeStream(r) \/ Item(r) \/ PutBack(r) \/ Exhausted(r)
          \/ CloseExhausted(r) \/ ReturnExhausted(r)
    \/ \E s \in Streams : CallClose(s) \/ CloseStream(s)
    \/ \E k \in Closers : BeginClose(k) \/ CloserStep(k)

\* Every task and thread of the process goes on, and a reload, which reads files, ends.
\* Nothing is owed by an upstream, by a caller that may read on or close, or by its signal.
Fairness ==
    /\ \A o \in Operations :
          WF_vars(CancelStep(o)) /\ WF_vars(Insert(o)) /\ WF_vars(Open(o))
          /\ WF_vars(EndReload(o))
    /\ \A t \in Tasks : WF_vars(WaitStep(t))
    /\ \A r \in Readers :
          WF_vars(PutBack(r)) /\ WF_vars(CloseExhausted(r) \/ ReturnExhausted(r))
    /\ \A s \in Streams : WF_vars(CloseStream(s))
    /\ \A k \in Closers : WF_vars(CloserStep(k))

Spec == Init /\ [][Next]_vars /\ Fairness

-----------------------------------------------------------------------------
(* The properties. *)

\* Something of an operation is still going on: its task, its blocking thread, or a stream
\* that somebody has.
Busy(o) ==
    \/ op[o] \in {"running", "ready", "blocking"}
    \/ o \in Streams /\ slot[o] # "empty"

\* The operations in ClientState.active are those that are going on, through every exit of
\* their tasks: none is forgotten, and none stays when it is over (OperationGuard).
GuardsExact == \A o \in Operations : o \in active <=> Busy(o)

\* Once a call of close() has returned nothing of the client runs and nothing will: an
\* operation that was being registered is refused, and a reload was waited for
\* (ClientState::close, register).
ClosedIsQuiet ==
    (\E k \in Closers : closer[k] = "done") => \A o \in Operations : ~Busy(o)

\* A stream that is cancelled is not left lying in its object, whether the reader, close()
\* or the cleanup comes last (ClosableStream::next, discard, set_cleanup).
CancelledNotKept ==
    \A s \in Streams :
        cancel[s] = "done" \/ shut[s] = "done" => slot[s] # "stored"

\* A call of the client's close() returns, though no upstream ever answers and nobody reads
\* or closes the streams that are open (ClientState::close).
CloseReturns == \A k \in Closers : closer[k] = "collect" ~> closer[k] = "done"

\* A call of next() that waits for an upstream returns once its stream is cancelled
\* (Cancellation::cancelled).
Interruptible(r) == reader[r] = "read" /\ reason[StreamOf[r]] # "Live"
ReadInterrupted == \A r \in Readers : Interruptible(r) ~> ~Interruptible(r)

=============================================================================
