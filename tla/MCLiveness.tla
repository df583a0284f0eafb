----------------------------- MODULE MCLiveness -----------------------------
(***************************************************************************)
(* What must eventually happen, under the fairness that each module states *)
(* of its threads and of the other parties.                                *)
(*                                                                         *)
(* As in History, the components share no variable and one of them,        *)
(* `part`, moves while the others stay where they start; each component    *)
(* is owed its steps only where it is the one that moves.                  *)
(***************************************************************************)
EXTENDS Integers, Sequences, FiniteSets, TLC

CONSTANTS
    r1, r2,                  \* requests, callers
    a1, a2, a3,              \* account bindings
    NoSession, NoBinding, NoEvent, NoFile, Nobody, None

VARIABLES
    part,
    point, call, try, recoverable, log, accumBox, accum, tapbox, tap, finalizers,
    source_done, unread, received, delivered,
    clock, failures, retry_at, cursor, bound, pc, session, query, pass, attempt, cooling,
    selected, outcome, served, seen,
    today, emitted, inbox, pinned, conn, order, db, content, archive, temp,
    quarantine, lock, archiver, pruner, cancelled, crashes, written, late,
    now, cache, refresher, queue, caller, t0, start, out, saved, minted, calls,
    disk, gens, holder, reload, loaded, asked, world, global, cpc, cgen, upc, ugen,
    noticed, signal,
    ph, lost, bars, facts, pending, done, timers, counters, finishing, flushing, waiting,
    printed, summary, orphans, due,
    policy, gen, shutdown, gone, task, req, chan, up, inner, count, sent, got,
    closed, active, op, wait, ticket, reason, cleanup, cancel, notified, slot, nextLock,
    reader, shut, reloadLock, closer, todo, items

\* A stream and a buffered response.
Managed(in, upstream, streamed) ==
    [inbound |-> in, upstream |-> upstream, stream |-> streamed, relay |-> FALSE,
     replayable |-> TRUE, dry_run |-> FALSE]
Pipeline == INSTANCE RequestPipeline WITH
    Calls <- {Managed("responses", "responses", TRUE), Managed("messages", "messages", FALSE)},
    MaxRetries <- 1, MaxFrames <- 1,
    pc <- point, attempt <- try, inbox <- accumBox, pending <- unread

\* Any of the bindings will do.
AnyOf(bindings) ==
    [passes |-> <<[matching |-> bindings, rank |-> [b \in bindings |-> 0]]>>,
     allowed |-> bindings, relay |-> FALSE, refused |-> FALSE]

\* One binding that fails again and again; and three that never cool.
Retrying == INSTANCE AccountPool WITH
    Requests <- {r1, r2}, Active <- {a1}, Fallback <- {}, Order <- (a1 :> 1), Sessions <- {},
    Queries <- {AnyOf({a1})}, Base <- 1, Ttl <- 0, MaxRetries <- 1,
    MaxCooldownExponent <- 1, FailureLimit <- 3, CursorModulus <- 1, ReadLag <- 1,
    MaxTime <- 2
Robin == INSTANCE AccountPool WITH
    Requests <- {r1, r2}, Active <- {a1, a2, a3}, Fallback <- {},
    Order <- (a1 :> 1) @@ (a2 :> 2) @@ (a3 :> 3), Sessions <- {},
    Queries <- {AnyOf({a1, a2, a3})}, Base <- 0, Ttl <- 0, MaxRetries <- 0,
    MaxCooldownExponent <- 5, FailureLimit <- 1, CursorModulus <- 4, ReadLag <- 0,
    MaxTime <- 0

Store == INSTANCE RequestStore WITH
    Ids <- {r1}, Kinds <- {"Started", "Usage", "Completed"}, MaxDay <- 2,
    CacheCap <- 1, ArchiveAfter <- 1, PruneAfter <- 1, MaxCrashes <- 1, MaxFiles <- 2

Token == INSTANCE TokenCache WITH
    Callers <- {r1, r2}, SKEW <- 1, Delay <- 1, Lifetimes <- {3}, Calls <- 1,
    LastCall <- 0, holder <- refresher, pc <- caller

Live == INSTANCE LiveRuntime WITH
    Requests <- {r1}, Fixed <- {"a"}, MaxEdits <- 0, MaxWorld <- 1,
    pc <- reload, seen <- noticed

Bar == INSTANCE Progress WITH
    Requests <- {r1, r2}, MaxAttempt <- 0, MaxLost <- 1, Tracked <- {}

Connect == INSTANCE ConnectSession WITH
    MaxReload <- 1, MaxRequests <- 2, MaxBytes <- 2, Route <- "direct"

\* A client with a stream that is read, and one with a reload; both are closed.
Reading == INSTANCE NativeClient WITH
    Streams <- {a1}, Reloads <- {}, Operations <- {a1}, Readers <- {r1},
    StreamOf <- (r1 :> a1), Closers <- {r2}, MaxItems <- 1
Reloading == INSTANCE NativeClient WITH
    Streams <- {}, Reloads <- {a1}, Operations <- {a1}, Readers <- {},
    StreamOf <- <<>>, Closers <- {r2}, MaxItems <- 0

pipelineVars == <<point, call, try, recoverable, log, accumBox, accum, tapbox, tap,
                  finalizers, source_done, unread, received, delivered>>
poolVars == <<clock, failures, retry_at, cursor, bound, pc, session, query, pass, attempt,
              cooling, selected, outcome, served, seen>>
storeVars == <<today, emitted, inbox, pinned, conn, order, db, content, archive, temp,
               quarantine, lock, archiver, pruner, cancelled, crashes, written, late>>
tokenVars == <<now, cache, refresher, queue, caller, t0, start, out, saved, minted, calls>>
liveVars == <<disk, gens, holder, reload, loaded, asked, world, global, cpc, cgen, upc,
              ugen, noticed, signal>>
barVars == <<ph, lost, bars, facts, pending, done, timers, counters, finishing, flushing,
             waiting, printed, summary, orphans, due>>
connectVars == <<policy, gen, shutdown, gone, task, req, chan, up, inner, count, sent, got>>
nativeVars == <<closed, active, op, wait, ticket, reason, cleanup, cancel, notified, slot,
                nextLock, reader, shut, reloadLock, closer, todo, items>>

Parts == {"pipeline", "retrying", "robin", "store", "token", "live", "bar", "connect",
          "reading", "reloading"}

Init ==
    /\ part \in Parts
    /\ Pipeline!Init /\ Store!Init /\ Token!Init /\ Live!Init /\ Bar!Init /\ Connect!Init
    /\ IF part = "robin" THEN Robin!Init ELSE Retrying!Init
    /\ IF part = "reloading" THEN Reloading!Init ELSE Reading!Init
    /\ part # "token" => cache = Token!Empty /\ minted = <<0>>
    /\ part # "connect" => \A g \in DOMAIN policy : policy[g] = "reject"

Next ==
    \/ /\ part = "pipeline" /\ Pipeline!Next
       /\ UNCHANGED <<part, poolVars, storeVars, tokenVars, liveVars,
                      barVars, connectVars, nativeVars>>
    \/ /\ part = "retrying" /\ Retrying!Next
       /\ UNCHANGED <<part, pipelineVars, storeVars, tokenVars, liveVars,
                      barVars, connectVars, nativeVars>>
    \/ /\ part = "robin" /\ Robin!Next
       /\ UNCHANGED <<part, pipelineVars, storeVars, tokenVars, liveVars,
                      barVars, connectVars, nativeVars>>
    \/ /\ part = "store" /\ Store!Next
       /\ UNCHANGED <<part, pipelineVars, poolVars, tokenVars, liveVars,
                      barVars, connectVars, nativeVars>>
    \/ /\ part = "token" /\ Token!Next
       /\ UNCHANGED <<part, pipelineVars, poolVars, storeVars, liveVars,
                      barVars, connectVars, nativeVars>>
    \/ /\ part = "live" /\ Live!Next
       /\ UNCHANGED <<part, pipelineVars, poolVars, storeVars, tokenVars,
                      barVars, connectVars, nativeVars>>
    \/ /\ part = "bar" /\ Bar!Next
       /\ UNCHANGED <<part, pipelineVars, poolVars, storeVars, tokenVars,
                      liveVars, connectVars, nativeVars>>
    \/ /\ part = "connect" /\ Connect!Next
       /\ UNCHANGED <<part, pipelineVars, poolVars, storeVars, tokenVars,
                      liveVars, barVars, nativeVars>>
    \/ /\ part = "reading" /\ Reading!Next
       /\ UNCHANGED <<part, pipelineVars, poolVars, storeVars, tokenVars,
                      liveVars, barVars, connectVars>>
    \/ /\ part = "reloading" /\ Reloading!Next
       /\ UNCHANGED <<part, pipelineVars, poolVars, storeVars, tokenVars,
                      liveVars, barVars, connectVars>>

vars == <<part, pipelineVars, poolVars, storeVars, tokenVars, liveVars, barVars,
          connectVars, nativeVars>>

-----------------------------------------------------------------------------
(* The fairness of each module, where its part moves. *)
Fairness ==
    /\ WF_pipelineVars(part = "pipeline" /\ Pipeline!Runner)
    /\ WF_pipelineVars(part = "pipeline" /\ (Pipeline!Poll \/ Pipeline!DropBody))
    /\ WF_pipelineVars(part = "pipeline" /\ Pipeline!Accum)
    /\ WF_pipelineVars(part = "pipeline" /\ Pipeline!Tap)
    /\ \A r \in {r1, r2} :
          /\ WF_poolVars(part = "retrying" /\ Retrying!Acquire(r))
          /\ WF_poolVars(part = "retrying" /\ Retrying!Report(r))
          /\ WF_poolVars(part = "robin" /\ Robin!Acquire(r))
          /\ WF_poolVars(part = "robin" /\ Robin!Report(r))
          /\ SF_poolVars(part = "robin" /\ Robin!Enter(r))
          /\ SF_poolVars(part = "robin" /\ Robin!Snapshot(r))
    /\ SF_storeVars(part = "store" /\ Store!Handle)
    /\ WF_storeVars(part = "store" /\ Store!ArchiveStep)
    /\ WF_storeVars(part = "store" /\ Store!PruneStep)
    /\ WF_tokenVars(part = "token" /\ Token!Tick)
    /\ \A c \in {r1, r2} : WF_tokenVars(part = "token" /\ Token!Finish(c))
    /\ WF_liveVars(part = "live" /\ Live!ReloadStep(r1))
    /\ WF_liveVars(part = "live" /\ Live!CatalogueStep)
    /\ WF_liveVars(part = "live" /\ Live!UpstreamStep)
    /\ WF_barVars(part = "bar" /\ Bar!FinishWaiting)
    /\ WF_barVars(part = "bar" /\ Bar!FlushSummary)
    /\ \A i \in Bar!Ids : /\ WF_barVars(part = "bar" /\ Bar!GraceOver(i))
                          /\ WF_barVars(part = "bar" /\ Bar!FlushOne(i))
    /\ WF_connectVars(part = "connect" /\ (Connect!NotAdmitted \/ Connect!Admitted))
    /\ WF_connectVars(part = "connect" /\ (Connect!NotAuthenticated \/ Connect!Authenticated
                                           \/ Connect!Rejected))
    /\ WF_connectVars(part = "connect" /\ Connect!Dispatched)
    /\ WF_connectVars(part = "connect" /\ (Connect!NotPrepared \/ Connect!Prepared))
    /\ WF_connectVars(part = "connect" /\ Connect!Send)
    /\ WF_connectVars(part = "connect" /\ Connect!Notice)
    /\ WF_connectVars(part = "connect" /\ task = "draining" /\ Connect!Closed)
    /\ WF_connectVars(part = "connect" /\ Connect!Recv)
    /\ WF_connectVars(part = "connect" /\ Connect!GiveUp)
    /\ WF_connectVars(part = "connect" /\ Connect!Upgraded)
    /\ WF_connectVars(part = "connect" /\ Connect!HandshakeTimeout)
    /\ WF_connectVars(part = "connect" /\ Connect!InnerDispatched)
    /\ WF_connectVars(part = "connect" /\ Connect!InnerNotice)
    /\ WF_connectVars(part = "connect" /\ task = "innerDraining" /\ Connect!InnerClosed)
    /\ WF_nativeVars(part = "reading" /\ Reading!CancelStep(a1))
    /\ WF_nativeVars(part = "reading" /\ (Reading!Insert(a1) \/ Reading!Open(a1)))
    /\ \A t \in {a1, r1} : WF_nativeVars(part = "reading" /\ Reading!WaitStep(t))
    /\ WF_nativeVars(part = "reading" /\ (Reading!PutBack(r1) \/ Reading!CloseExhausted(r1)
                                          \/ Reading!ReturnExhausted(r1)))
    /\ WF_nativeVars(part = "reading" /\ Reading!CloseStream(a1))
    /\ WF_nativeVars(part = "reading" /\ Reading!CloserStep(r2))
    /\ WF_nativeVars(part = "reloading" /\ Reloading!CancelStep(a1))
    /\ WF_nativeVars(part = "reloading" /\ (Reloading!Insert(a1) \/ Reloading!EndReload(a1)))
    /\ WF_nativeVars(part = "reloading" /\ Reloading!WaitStep(a1))
    /\ WF_nativeVars(part = "reloading" /\ Reloading!CloserStep(r2))

Spec == Init /\ [][Next]_vars /\ Fairness

-----------------------------------------------------------------------------
(* The properties; the comments in the modules say more. *)

\* Whoever waits is answered: an attempt is completed, a request that asks the pool is
\* settled, a call for a token returns, an event that waits for the maintenance lock is
\* handled, and a successful attempt gets its line.
EveryoneAnswered ==
    /\ Pipeline!EveryAttemptEnds /\ Retrying!RequestSettles /\ Token!CallsEnd
    /\ Store!EventHandled /\ Bar!CompletionPrinted

\* Every healthy binding of the best rank is used again and again (select_tier).
RoundRobinRetained ==
    \A b \in {a1, a2, a3} :
        []<>(part = "robin" => \E r \in {r1, r2} : pc[r] = "send" /\ selected[r] = b)

\* Whatever reloads interleave with the refresh tasks, the generation in use comes to know
\* the published catalogue and is refreshed from the upstream (refresh_loop, replace).
ReloadSettles == Live!CatalogueReturns /\ Live!ReloadRefreshed

\* After the shutdown signal a proxy connection ends, a client that never finishes its
\* handshake does not hold its connection (handle_v2_client, run_connect), and closing a
\* native client ends its reads and returns, whatever the upstreams do (ClientState::close).
SessionsEnd ==
    /\ Connect!ShutdownEnds /\ Connect!HandshakeBounded
    /\ Reading!CloseReturns /\ Reloading!CloseReturns
    /\ (part = "reading" /\ Reading!Interruptible(r1)) ~>
          (part = "reading" /\ ~Reading!Interruptible(r1))

=============================================================================
