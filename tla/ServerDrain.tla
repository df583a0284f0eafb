---------------------------- MODULE ServerDrain ----------------------------
(***************************************************************************)
(* The end of a serving process, from the first reason to stop to the last *)
(* record: the supervisor of the listeners (gateway-cli/src/cli/serve.rs), *)
(* each listener's connection tasks and their bounded drain (router/src/   *)
(* server.rs, router/src/proxy/mod.rs), the detached tasks that finish a   *)
(* request's record (requests/src/pipeline/stages.rs), and the shutdown of *)
(* the event bus, bounded too (gateway-cli/src/server_runtime.rs).         *)
(*                                                                         *)
(* Both bounds are timers that may fire at any time after they start.      *)
(***************************************************************************)
EXTENDS Naturals, Functions

CONSTANTS
  Listeners,
  HttpListeners,   \* the LLM API listeners; the others are forward proxies
  Connections,     \* connections clients may open, each with one request
  ListenerOf       \* the listener a connection is made to

DrainAssumption ==
  /\ HttpListeners \subseteq Listeners
  /\ ListenerOf \in [Connections -> Listeners]

VARIABLES
  lst,         \* each listener: "new", "serving", "draining", "done"
  failed,      \* listeners whose result is an error
  conn,        \* each connection's task
  fin,         \* the finalizer of each connection's request
  stop,        \* the supervisor's watch channel: listeners should stop
  collected,   \* listeners whose result the supervisor has taken
  outcome,     \* the result of the process so far
  main         \* the main task: "supervising", "flushing", "marked", "exited"

vars == <<lst, failed, conn, fin, stop, collected, outcome, main>>

Live == {"idle", "busy"}
LiveAt(l) == {c \in Connections : ListenerOf[c] = l /\ conn[c] \in Live}

TypeOK ==
  /\ lst \in [Listeners -> {"new", "serving", "draining", "done"}]
  /\ failed \subseteq Listeners
  /\ conn \in [Connections -> {"new", "closed", "aborted"} \cup Live]
  /\ fin \in [Connections -> {"none", "active", "done"}]
  /\ stop \in BOOLEAN /\ outcome \in {"ok", "error"}
  /\ collected \subseteq {l \in Listeners : lst[l] = "done"}
  /\ main \in {"supervising", "flushing", "marked", "exited"}

Init ==
  /\ lst = [l \in Listeners |-> "new"] /\ failed = {}
  /\ conn = [c \in Connections |-> "new"] /\ fin = [c \in Connections |-> "none"]
  /\ stop = FALSE /\ collected = {} /\ outcome = "ok" /\ main = "supervising"

-----------------------------------------------------------------------------
\* A listener ends with a result.
End(l, ok) ==
  /\ lst' = [lst EXCEPT ![l] = "done"]
  /\ failed' = IF ok THEN failed ELSE failed \cup {l}

\* serve_http, serve_v2_policy: bind, which may fail.
Bind(l) ==
  /\ lst[l] = "new"
  /\ \/ lst' = [lst EXCEPT ![l] = "serving"] /\ UNCHANGED failed
     \/ End(l, FALSE)
  /\ UNCHANGED <<conn, fin, stop, collected, outcome, main>>

\* A connection is accepted and its task joins the JoinSet.
Accept(c) ==
  /\ lst[ListenerOf[c]] = "serving" /\ conn[c] = "new"
  /\ conn' = [conn EXCEPT ![c] = "idle"]
  /\ UNCHANGED <<lst, failed, fin, stop, collected, outcome, main>>

\* An API listener stops when accept fails; a forward proxy logs and goes on.
AcceptFails(l) ==
  /\ lst[l] = "serving" /\ l \in HttpListeners
  /\ lst' = [lst EXCEPT ![l] = "draining"] /\ failed' = failed \cup {l}
  /\ UNCHANGED <<conn, fin, stop, collected, outcome, main>>

\* The supervisor's signal: the listener is dropped, its connections are told.
Stop(l) ==
  /\ lst[l] = "serving" /\ stop
  /\ lst' = [lst EXCEPT ![l] = "draining"]
  /\ UNCHANGED <<failed, conn, fin, stop, collected, outcome, main>>

\* A request arrives on a connection; its record gets a finalizer, a detached
\* task that the event bus counts.
Request(c) ==
  /\ conn[c] = "idle" /\ fin[c] = "none"
  /\ conn' = [conn EXCEPT ![c] = "busy"] /\ fin' = [fin EXCEPT ![c] = "active"]
  /\ UNCHANGED <<lst, failed, stop, collected, outcome, main>>

\* The response has been written.
Respond(c) ==
  /\ conn[c] = "busy" /\ conn' = [conn EXCEPT ![c] = "idle"]
  /\ UNCHANGED <<lst, failed, fin, stop, collected, outcome, main>>

\* The client closes an idle connection, or graceful_shutdown does.
Close(c) ==
  /\ conn[c] = "idle" /\ conn' = [conn EXCEPT ![c] = "closed"]
  /\ UNCHANGED <<lst, failed, fin, stop, collected, outcome, main>>

\* The finalizer sees its channel end, when the response is written or its
\* connection task is gone, emits the last events and ends.
Finalize(c) ==
  /\ fin[c] = "active" /\ conn[c] # "busy"
  /\ fin' = [fin EXCEPT ![c] = "done"]
  /\ UNCHANGED <<lst, failed, conn, stop, collected, outcome, main>>

\* drain_connections: every task has been joined.
Drained(l) ==
  /\ lst[l] = "draining" /\ LiveAt(l) = {}
  /\ End(l, TRUE)
  /\ UNCHANGED <<conn, fin, stop, collected, outcome, main>>

\* Mutant of GraceExpires: the tasks are aborted but not joined.
GraceExpiresNoJoin(l) ==
  /\ lst[l] = "draining" /\ LiveAt(l) # {}
  /\ End(l, FALSE)
  /\ UNCHANGED <<conn, fin, stop, collected, outcome, main>>

\* Mutant of GraceExpires: the cancelled connections are not reported.
GraceExpiresSilently(l) ==
  /\ lst[l] = "draining" /\ LiveAt(l) # {}
  /\ conn' = [c \in Connections |-> IF c \in LiveAt(l) THEN "aborted" ELSE conn[c]]
  /\ End(l, TRUE)
  /\ UNCHANGED <<fin, stop, collected, outcome, main>>

\* SHUTDOWN_GRACE_PERIOD is over: the tasks left are aborted and joined.
GraceExpires(l) ==
  /\ lst[l] = "draining" /\ LiveAt(l) # {}
  /\ conn' = [c \in Connections |-> IF c \in LiveAt(l) THEN "aborted" ELSE conn[c]]
  /\ End(l, FALSE)
  /\ UNCHANGED <<fin, stop, collected, outcome, main>>

-----------------------------------------------------------------------------
\* supervise_listeners: the signal arrives, or waiting for it fails.
Signal(ok) ==
  /\ main = "supervising" /\ ~stop
  /\ stop' = TRUE
  /\ outcome' = IF ok THEN outcome ELSE "error"
  /\ UNCHANGED <<lst, failed, conn, fin, collected, main>>

\* Mutant of Collect: a listener counts before it has ended.
CollectEarly(l) ==
  /\ main = "supervising" /\ l \notin collected /\ lst[l] # "new"
  /\ collected' = collected \cup {l} /\ stop' = TRUE
  /\ outcome' = IF l \in failed THEN "error" ELSE outcome
  /\ UNCHANGED <<lst, failed, conn, fin, main>>

\* A listener has ended: the first one stops the others.
Collect(l) ==
  /\ main = "supervising" /\ lst[l] = "done" /\ l \notin collected
  /\ collected' = collected \cup {l} /\ stop' = TRUE
  /\ outcome' = IF l \in failed THEN "error" ELSE outcome
  /\ UNCHANGED <<lst, failed, conn, fin, main>>

\* Mutant of Supervised: a failed listener ends the supervision at once.
SupervisedFailFast ==
  /\ main = "supervising" /\ (collected = Listeners \/ outcome = "error")
  /\ main' = "flushing"
  /\ UNCHANGED <<lst, failed, conn, fin, stop, collected, outcome>>

\* Every listener has been collected: finish_events begins.
Supervised ==
  /\ main = "supervising" /\ collected = Listeners
  /\ main' = "flushing"
  /\ UNCHANGED <<lst, failed, conn, fin, stop, collected, outcome>>

\* EventBus::shutdown sees no finalizer and puts the shutdown marker on the bus.
Mark ==
  /\ main = "flushing" /\ "active" \notin Range(fin)
  /\ main' = "marked"
  /\ UNCHANGED <<lst, failed, conn, fin, stop, collected, outcome>>

\* Every handler has handled what came before the marker and flushed.
Flushed ==
  /\ main = "marked" /\ main' = "exited"
  /\ UNCHANGED <<lst, failed, conn, fin, stop, collected, outcome>>

\* Mutant of CleanupTimeout: the wait for the finalizers is not under the timer.
CleanupTimeoutMarked ==
  /\ main = "marked" /\ main' = "exited" /\ outcome' = "error"
  /\ UNCHANGED <<lst, failed, conn, fin, stop, collected>>

\* The five seconds are over.
CleanupTimeout ==
  /\ main \in {"flushing", "marked"} /\ main' = "exited" /\ outcome' = "error"
  /\ UNCHANGED <<lst, failed, conn, fin, stop, collected>>

Serve(l) == Bind(l) \/ Stop(l) \/ Drained(l) \/ GraceExpires(l)
MainStep ==
  \/ \E l \in Listeners : Collect(l)
  \/ Supervised \/ Mark \/ Flushed \/ CleanupTimeout

Exited == main = "exited" /\ UNCHANGED vars

Next ==
  \/ \E l \in Listeners : Serve(l) \/ AcceptFails(l)
  \/ \E c \in Connections : Accept(c) \/ Request(c) \/ Respond(c) \/ Close(c) \/ Finalize(c)
  \/ \E ok \in BOOLEAN : Signal(ok)
  \/ MainStep
  \/ Exited

Spec == Init /\ [][Next]_vars

\* The runtime polls every task and timers fire; no client is promised to close
\* or to read, no response to end, no finalizer to get its turn in time.
FairSpec == Spec /\ WF_vars(MainStep) /\ \A l \in Listeners : WF_vars(Serve(l))

-----------------------------------------------------------------------------
(***************************************************************************)
(* After the shutdown marker is on the event bus nothing emits any more:   *)
(* every connection task is joined, and every finalizer they started has   *)
(* ended, so no record is written behind the marker and lost.              *)
(***************************************************************************)
NothingAfterMark ==
  main = "marked" => \A c \in Connections : conn[c] \notin Live /\ fin[c] # "active"

(***************************************************************************)
(* A process that exits with success has lost nothing: no connection was   *)
(* cancelled, no listener failed, and every request's record was finished. *)
(***************************************************************************)
SuccessIsComplete ==
  main = "exited" /\ outcome = "ok" =>
    failed = {} /\ \A c \in Connections : conn[c] \in {"new", "closed"} /\ fin[c] # "active"

(***************************************************************************)
(* A listener that fails takes none of its siblings' connections down      *)
(* before their own grace period: the flush starts only when each of them  *)
(* has drained.                                                            *)
(***************************************************************************)
SiblingsDrained == main # "supervising" => \A l \in Listeners : lst[l] = "done"

(***************************************************************************)
(* Once something has asked the process to stop it exits, even if no       *)
(* client ever closes its connection and a finalizer never ends.           *)
(***************************************************************************)
Terminates == stop ~> main = "exited"

=============================================================================
