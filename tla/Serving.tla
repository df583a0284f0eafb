------------------------------- MODULE Serving -------------------------------
(***************************************************************************)
(* What a running gateway does beside its requests: it reloads its         *)
(* configuration and refreshes its catalogues, lists models, signs leaf    *)
(* certificates, serves a CONNECT session, shows progress and translates   *)
(* streams between endpoints; and the operations of a native client, which *)
(* runs the same pipeline inside a JavaScript process.                     *)
(*                                                                         *)
(* As in History, the components share no variable and one of them,        *)
(* `part`, moves while the others stay where they start.  The native       *)
(* client is looked at in two settings, which are records.                 *)
(***************************************************************************)
EXTENDS Integers, Sequences, FiniteSets

CONSTANTS
    Requests,                \* requests of a component
    Fixed, MaxEdits, MaxWorld,                              \* the live runtime's
    Bindings, ProviderOf, ModelIds, Catalogue, Listings, Allowed, Task,     \* discovery's
    REFRESH_CONCURRENCY, Rounds,
    Connects, Hosts, HostOf, Capacity, RefreshAfter, Validity, MaxDelay,    \* the leaves'
    MaxClock,
    MaxReload, MaxRequests, MaxBytes, Route,                \* the CONNECT session's
    MaxAttempt, MaxLost, Tracked,                           \* the display's
    MaxParts, MaxEvents, Interleaved,                       \* the translation's
    Reading, Reloading,      \* settings of the native client
    Nobody, NoLeaf, None

VARIABLES
    part,
    disk, gens, holder, pc, loaded, asked, world, global, cpc, cgen, upc, ugen, seen, signal,
    gate, stage, todo, asking, cached, published, answers, rounds,
    clock, call, now, cache, leaf,
    policy, gen, shutdown, gone, task, req, chan, upgrade, inner, count, sent, got,
    ph, lost, bars, facts, pending, done, timers, counters, finishing, flushing, waiting,
    printed, summary, orphans, due,
    from, to, up, argsSeen, acc, terminalSeen, finished, em, over,
    closed, active, op, wait, ticket, reason, cleanup, cancel, notified, slot, nextLock,
    reader, shut, reloadLock, closer, todoClose, items

Live == INSTANCE LiveRuntime

Models == INSTANCE Discovery WITH Models <- ModelIds, pc <- stage

Leaf == INSTANCE LeafCache WITH pc <- call, got <- leaf

Connect == INSTANCE ConnectSession WITH up <- upgrade

Bar == INSTANCE Progress

Sse == INSTANCE SseTranslate

Native(k) == INSTANCE NativeClient WITH
    Streams <- k.streams, Reloads <- k.reloads, Operations <- k.operations,
    Readers <- k.readers, StreamOf <- k.streamOf, Closers <- k.closers,
    MaxItems <- k.maxItems, todo <- todoClose

\* The tunnel is looked at where its route puts nothing between client and target.
ASSUME ServingAssumption ==
    /\ Live!LiveAssumption /\ Models!DiscoveryAssumption /\ Leaf!LeafAssumption
    /\ Connect!SessionAssumption /\ Route \in {"direct", "socks5"}
    /\ Bar!ProgressAssumption /\ Sse!SseAssumption
    /\ Native(Reading)!NativeAssumption /\ Native(Reloading)!NativeAssumption

liveVars == <<disk, gens, holder, pc, loaded, asked, world, global, cpc, cgen, upc, ugen,
              seen, signal>>
modelVars == <<gate, stage, todo, asking, cached, published, answers, rounds>>
leafVars == <<clock, call, now, cache, leaf>>
connectVars == <<policy, gen, shutdown, gone, task, req, chan, upgrade, inner, count, sent,
                 got>>
barVars == <<ph, lost, bars, facts, pending, done, timers, counters, finishing, flushing,
             waiting, printed, summary, orphans, due>>
sseVars == <<from, to, up, argsSeen, acc, terminalSeen, finished, em, over>>
nativeVars == <<closed, active, op, wait, ticket, reason, cleanup, cancel, notified, slot,
                nextLock, reader, shut, reloadLock, closer, todoClose, items>>

Parts == {"live", "models", "leaf", "connect", "bar", "sse", "reading", "reloading"}

Init ==
    /\ part \in Parts
    /\ Live!Init /\ Models!Init /\ Leaf!Init /\ Connect!Init /\ Bar!Init /\ Sse!Init
    /\ IF part = "reloading" THEN Native(Reloading)!Init ELSE Native(Reading)!Init
    /\ part # "live" => disk.fixed = CHOOSE f \in Fixed : TRUE
    /\ part # "connect" => \A g \in DOMAIN policy : policy[g] = "reject"
    /\ part # "sse" => from = "chat" /\ to = "messages"

Next ==
    \/ /\ part = "live" /\ Live!Next
       /\ UNCHANGED <<part, modelVars, leafVars, connectVars, barVars, sseVars, nativeVars>>
    \/ /\ part = "models" /\ Models!Next
       /\ UNCHANGED <<part, liveVars, leafVars, connectVars, barVars, sseVars, nativeVars>>
    \/ /\ part = "leaf" /\ Leaf!Next
       /\ UNCHANGED <<part, liveVars, modelVars, connectVars, barVars, sseVars, nativeVars>>
    \/ /\ part = "connect" /\ Connect!Next
       /\ UNCHANGED <<part, liveVars, modelVars, leafVars, barVars, sseVars, nativeVars>>
    \/ /\ part = "bar" /\ Bar!Next
       /\ UNCHANGED <<part, liveVars, modelVars, leafVars, connectVars, sseVars, nativeVars>>
    \/ /\ part = "sse" /\ Sse!Next
       /\ UNCHANGED <<part, liveVars, modelVars, leafVars, connectVars, barVars, nativeVars>>
    \/ /\ part = "reading" /\ Native(Reading)!Next
       /\ UNCHANGED <<part, liveVars, modelVars, leafVars, connectVars, barVars, sseVars>>
    \/ /\ part = "reloading" /\ Native(Reloading)!Next
       /\ UNCHANGED <<part, liveVars, modelVars, leafVars, connectVars, barVars, sseVars>>

vars == <<part, liveVars, modelVars, leafVars, connectVars, barVars, sseVars, nativeVars>>

Spec == Init /\ [][Next]_vars

-----------------------------------------------------------------------------
(* The properties; the comments in the modules say more. *)

\* A reload that was answered with success stays in effect, and what needs a restart
\* stays as it was at the start (LiveRuntime::replace, install_admin_reloader).
ReloadStands ==
    part = "live" => Live!TypeOK /\ Live!AnswerStands /\ Live!ServedAsStarted

\* Routing reads the union of the last good lists of a provider's accounts, whichever of
\* their requests fail or are dropped (DiscoveryRuntime, publish_upstream); the cache of
\* leaf certificates keeps its bound with all CONNECTs at once (certified_key_for_at).
CachesSound ==
    /\ part = "models" => Models!TypeOK /\ Models!PublishedIsUnion
    /\ part = "leaf" => Leaf!TypeOK /\ Leaf!Bounded

\* The one place of the upgrade channel is free when an upgrade is sent, a CONNECT is run
\* as the generation decided that authenticated it, a request inside TLS by one no older
\* than itself, and the client gets what the target sent, in order and whole.
ConnectSound ==
    part = "connect" =>
        /\ Connect!TypeOK
        /\ Connect!SendNeverBlocks /\ Connect!OneGeneration /\ Connect!InnerIsCurrent
        /\ Connect!TunnelOpaque

\* Nothing that a client has is taken back by a step: a profile that has listed models
\* answers no error later, a leaf is valid when it is returned and a fresh one stays, and
\* a shutdown ends no session in the middle of a request.
NothingTakenBack ==
    [][/\ part = "models" => Models!OnceListedStaysListed
       /\ part = "leaf" => Leaf!ReturnsValid /\ Leaf!FreshKept
       /\ part = "connect" => Connect!EndsIdle]_<<modelVars, leafVars, connectVars>>

\* An attempt has at most one line, with the usage that came while it was owed; the closing
\* line accounts for every bar; the footer is off only by orphaned completions
\* (finalize_pending).
ProgressExact ==
    part = "bar" =>
        /\ Bar!TypeOK
        /\ Bar!OneLine /\ Bar!SummaryComplete /\ Bar!FooterDrift /\ Bar!LineCarriesUsage

\* Items of a Responses stream come one after another, a stream has one terminal event and
\* only when it is complete, with the provider's reason, and its items are the response a
\* client without a stream would get (EndpointTranslator, ResponsesEmitter).
TranslationFaithful ==
    part = "sse" =>
        /\ Sse!TypeOK
        /\ Sse!ItemsSequential /\ Sse!OneTerminal /\ Sse!NotCompletedEarly
        /\ Sse!VerdictCarried /\ Sse!StreamAgrees

\* Through every exit of the tasks of a native client its table has the operations that are
\* going on; nothing of it runs once close() has returned, and a cancelled stream is not
\* left in its object (ClientState, ClosableStream, Cancellation).
NativeClientQuiet ==
    /\ part = "reading" =>
          /\ Native(Reading)!TypeOK
          /\ Native(Reading)!GuardsExact /\ Native(Reading)!ClosedIsQuiet /\ Native(Reading)!CancelledNotKept
    /\ part = "reloading" =>
          /\ Native(Reloading)!TypeOK /\ Native(Reloading)!GuardsExact /\ Native(Reloading)!ClosedIsQuiet

=============================================================================
