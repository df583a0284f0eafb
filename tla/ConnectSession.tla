--------------------------- MODULE ConnectSession ---------------------------
(***************************************************************************)
(* One client connection of the forward proxy                              *)
(* (router/src/proxy/v2_transport.rs, connect_proxy.rs).                   *)
(*                                                                         *)
(* The connection first speaks HTTP with the proxy.  A CONNECT is          *)
(* authenticated and decided by one generation of the configuration,       *)
(* prepared (the upstream is dialled, or a certificate is made), put into  *)
(* a channel of one place and answered; the HTTP connection is then over   *)
(* and the task takes the upgrade out of the channel.  It pumps a tunnel,  *)
(* or terminates TLS and serves the requests inside it, each under the     *)
(* generation that is current when it comes.  At every await the shutdown  *)
(* signal may win.                                                         *)
(*                                                                         *)
(* The channel's sender lives in the HTTP connection's service, which the  *)
(* task still owns while it waits for the upgrade: the channel is never    *)
(* closed, so a connection that never had a CONNECT waits for shutdown.    *)
(***************************************************************************)
EXTENDS Naturals, Sequences

CONSTANTS
    MaxReload,     \* configuration reloads while the connection lives (bound)
    MaxRequests,   \* requests on the connection, and inside TLS (bound)
    MaxBytes,      \* what the tunnel's target sends (bound)
    Route,         \* how the upstream is reached: ProxyRoute, or "direct"
    None

Actions == {"tunnel", "intercept", "reject"}
Routes  == {"direct", "http", "https", "socks5"}

SessionAssumption ==
    /\ MaxReload \in Nat /\ MaxRequests \in Nat /\ MaxBytes \in Nat
    /\ Route \in Routes

VARIABLES
    policy,    \* what each generation does with this CONNECT
    gen,       \* the current generation
    shutdown,  \* the shutdown signal
    gone,      \* the client's socket has failed
    task,      \* where handle_v2_client is
    req,       \* the request on the HTTP connection
    chan,      \* the upgrade channel
    up,        \* the upgrade being run
    inner,     \* the request inside TLS
    count,     \* how many requests have come, outside and inside
    sent,      \* how many bytes the target has sent
    got        \* the bytes the client has got through the tunnel

vars == <<policy, gen, shutdown, gone, task, req, chan, up, inner, count, sent, got>>

Gens  == 0..MaxReload
Tasks == {"serving", "draining", "recv", "upgraded", "tunnel", "handshake",
          "inner", "innerDraining", "ended"}

Init ==
    /\ policy \in [Gens -> Actions]
    /\ gen = 0
    /\ shutdown = FALSE
    /\ gone = FALSE
    /\ task = "serving"
    /\ req = None /\ chan = None /\ up = None /\ inner = None
    /\ count = [outer |-> 0, inner |-> 0]
    /\ sent = 0 /\ got = <<>>

-----------------------------------------------------------------------------
(* The rest of the world. *)

\* LiveRuntime installs another generation.
Reload ==
    /\ gen < MaxReload
    /\ gen' = gen + 1
    /\ UNCHANGED <<policy, shutdown, gone, task, req, chan, up, inner, count, sent, got>>

\* serve_v2_policy sends the signal to its connections.
Shutdown ==
    /\ ~shutdown
    /\ shutdown' = TRUE
    /\ UNCHANGED <<policy, gen, gone, task, req, chan, up, inner, count, sent, got>>

\* Once it is dialled, the target may speak before the client does.
Dialled == \E u \in {req, chan, up} : u # None /\ u.action = "tunnel"

TargetSends ==
    /\ Dialled
    /\ sent < MaxBytes
    /\ sent' = sent + 1
    /\ UNCHANGED <<policy, gen, shutdown, gone, task, req, chan, up, inner, count, got>>

-----------------------------------------------------------------------------
(* The HTTP connection. *)

Serving == task \in {"serving", "draining"}

quiet == <<policy, gen, shutdown, gone>>

\* A request comes; hyper takes them one at a time and none after the drain began.
Arrive(kind) ==
    /\ task = "serving"
    /\ req = None
    /\ count.outer < MaxRequests
    /\ count' = [count EXCEPT !.outer = @ + 1]
    /\ req' = [kind |-> kind, step |-> "admit", gen |-> 0, action |-> None,
               read |-> 0]
    /\ UNCHANGED <<quiet, task, chan, up, inner, sent, got>>

At(step) == Serving /\ req # None /\ req.step = step

\* The request is answered; the connection is kept alive, or drained.
Reply ==
    /\ req' = None
    /\ UNCHANGED <<quiet, task, chan, up, inner, count, sent, got>>

\* WebSocket upgrade, a CONNECT with a body, a target or Host that does not fit.
NotAdmitted == At("admit") /\ Reply

\* live.current(), then the wait for authenticate_proxy.
Admitted ==
    /\ At("admit")
    /\ req' = [req EXCEPT !.step = "auth", !.gen = gen]
    /\ UNCHANGED <<quiet, task, chan, up, inner, count, sent, got>>

NotAuthenticated == At("auth") /\ Reply

\* Mutant of Decided: the decision is taken by whatever generation is current now.
DecidedNow(r) == policy[gen]

\* connect_action_for, by the generation that authenticated.
Decided(r) == policy[r.gen]

\* ConnectAction::Reject is answered with 403.
Permitted(r) == r.kind = "http" \/ Decided(r) # "reject"

Authenticated ==
    /\ At("auth")
    /\ Permitted(req)
    /\ req' = IF req.kind = "http" THEN [req EXCEPT !.step = "dispatch"]
              ELSE [req EXCEPT !.step = IF Decided(req) = "tunnel" THEN "dial" ELSE "sign",
                               !.action = Decided(req)]
    /\ UNCHANGED <<quiet, task, chan, up, inner, count, sent, got>>

Rejected == At("auth") /\ ~Permitted(req) /\ Reply

\* dispatch_http answers a plain request.
Dispatched == At("dispatch") /\ Reply

\* connect_upstream or pinned_tls_config fails.
NotPrepared == (At("dial") \/ At("sign")) /\ Reply

\* Mutant of ReadAhead: every way to the upstream reads ahead.
ReadAheadAlways == 0..sent

\* What send_http_connect took from the stream together with the answer to its
\* CONNECT: its buffered reader may hold bytes of the target, and is dropped.
ReadAhead == IF Route \in {"http", "https"} THEN 0..sent ELSE {0}

Prepared ==
    /\ At("dial") \/ At("sign")
    /\ \E n \in IF req.step = "dial" THEN ReadAhead ELSE {0} :
         req' = [req EXCEPT !.step = "send", !.read = n]
    /\ UNCHANGED <<quiet, task, chan, up, inner, count, sent, got>>

\* Mutant of AfterConnect: the HTTP connection goes on after the answer.
AfterConnectServing == task

\* A CONNECT answered with 200 ends the HTTP connection.
AfterConnect == "recv"

\* upgrades.send(...).await, then the answer 200.
Send ==
    /\ At("send")
    /\ chan = None
    /\ chan' = [action |-> req.action, gen |-> req.gen, read |-> req.read]
    /\ req' = None
    /\ task' = AfterConnect
    /\ UNCHANGED <<quiet, up, inner, count, sent, got>>

\* Mutant of Noticed: the connection is dropped with the request it serves.
NoticedDropped == task' = "ended" /\ req' = None

\* graceful_shutdown: no further request, the one under way is finished.
Noticed == task' = "draining" /\ UNCHANGED req

Notice ==
    /\ task = "serving"
    /\ shutdown
    /\ Noticed
    /\ UNCHANGED <<quiet, chan, up, inner, count, sent, got>>

\* The client closes an idle connection, or the drain finds it idle.
Closed ==
    /\ Serving
    /\ req = None
    /\ task' = "recv"
    /\ UNCHANGED <<quiet, req, chan, up, inner, count, sent, got>>

\* header_read_timeout, or an error of the connection: the task returns it.
Failed ==
    /\ task \in {"serving", "draining", "inner", "innerDraining"}
    /\ req = None /\ inner = None
    /\ task' = "ended"
    /\ UNCHANGED <<quiet, req, chan, up, inner, count, sent, got>>

\* The client's socket fails under a request: its handler is dropped with it.
Broken ==
    /\ task \in {"serving", "draining", "inner", "innerDraining"}
    /\ req # None \/ inner # None
    /\ gone' = TRUE
    /\ task' = "ended"
    /\ req' = None /\ inner' = None
    /\ UNCHANGED <<policy, gen, shutdown, chan, up, count, sent, got>>

-----------------------------------------------------------------------------
(* The upgrade. *)

Recv ==
    /\ task = "recv"
    /\ chan # None
    /\ up' = chan
    /\ chan' = None
    /\ task' = "upgraded"
    /\ UNCHANGED <<quiet, req, inner, count, sent, got>>

\* Mutant of GivesUp: the wait for an upgrade does not look at the signal.
GivesUpLater == shutdown /\ task \in {"handshake", "tunnel"}

\* select! with the shutdown signal, at the waits that have nothing to finish.
GivesUp == shutdown /\ task \in {"recv", "handshake", "tunnel"}

GiveUp ==
    /\ GivesUp
    /\ task' = "ended"
    /\ UNCHANGED <<quiet, req, chan, up, inner, count, sent, got>>

\* on_upgrade.await hands over the client's stream.
Upgraded ==
    /\ task = "upgraded"
    /\ task' \in {IF up.action = "tunnel" THEN "tunnel" ELSE "handshake", "ended"}
    /\ UNCHANGED <<quiet, req, chan, up, inner, count, sent, got>>

\* copy_bidirectional: the next byte of the upstream's stream.  Behind an HTTPS
\* proxy the TLS layer has been taken off, so what is read is not what was sent.
Pump ==
    /\ task = "tunnel"
    /\ up.read + Len(got) < sent
    /\ got' = Append(got, IF Route = "https" THEN 0 ELSE up.read + Len(got) + 1)
    /\ UNCHANGED <<quiet, task, req, chan, up, inner, count, sent>>

TunnelEnds ==
    /\ task = "tunnel"
    /\ task' = "ended"
    /\ UNCHANGED <<quiet, req, chan, up, inner, count, sent, got>>

HandshakeDone ==
    /\ task = "handshake"
    /\ task' = "inner"
    /\ UNCHANGED <<quiet, req, chan, up, inner, count, sent, got>>

\* Mutant of HandshakeTimes: without the timeout only a client that fails ends it.
HandshakeWaits == FALSE

\* TLS_HANDSHAKE_TIMEOUT.
HandshakeTimes == task = "handshake"

HandshakeTimeout ==
    /\ HandshakeTimes
    /\ task' = "ended"
    /\ UNCHANGED <<quiet, req, chan, up, inner, count, sent, got>>

HandshakeFails ==
    /\ task = "handshake"
    /\ task' = "ended"
    /\ UNCHANGED <<quiet, req, chan, up, inner, count, sent, got>>

\* Mutant of InnerState: the generation that admitted the CONNECT serves them all.
InnerStateOfConnect == up.gen

\* state.current(), for every request.
InnerState == gen

\* A request inside TLS that fits the CONNECT's authority; others are answered
\* at once.
InnerArrive ==
    /\ task = "inner"
    /\ inner = None
    /\ count.inner < MaxRequests
    /\ count' = [count EXCEPT !.inner = @ + 1]
    /\ inner' = [gen |-> InnerState, came |-> gen]
    /\ UNCHANGED <<quiet, task, req, chan, up, sent, got>>

InnerDispatched ==
    /\ inner # None
    /\ inner' = None
    /\ UNCHANGED <<quiet, task, req, chan, up, count, sent, got>>

InnerNotice ==
    /\ task = "inner"
    /\ shutdown
    /\ task' = "innerDraining"
    /\ UNCHANGED <<quiet, req, chan, up, inner, count, sent, got>>

InnerClosed ==
    /\ task \in {"inner", "innerDraining"}
    /\ inner = None
    /\ task' = "ended"
    /\ UNCHANGED <<quiet, req, chan, up, inner, count, sent, got>>

World == Reload \/ Shutdown \/ TargetSends
Http  == \/ \E kind \in {"http", "connect"} : Arrive(kind)
         \/ NotAdmitted \/ Admitted \/ NotAuthenticated \/ Authenticated \/ Rejected
         \/ Dispatched \/ NotPrepared \/ Prepared \/ Send \/ Notice \/ Closed \/ Failed
         \/ Broken
Session == \/ Recv \/ GiveUp \/ Upgraded \/ Pump \/ TunnelEnds
           \/ HandshakeDone \/ HandshakeTimeout \/ HandshakeFails
           \/ InnerArrive \/ InnerDispatched \/ InnerNotice \/ InnerClosed

Next == World \/ Http \/ Session

Spec == Init /\ [][Next]_vars

\* The task goes on whenever it can by itself: the runtime polls it, checks and
\* authentication return, a drained connection closes, timers fire.  Nothing is
\* assumed of the client.  Of the upstream it is assumed that a dial and a dispatch
\* end one way or the other: connect_upstream has no time limit of its own, and
\* one that never ends is cut off by drain_connections (ServerDrain).
Fairness ==
    /\ WF_vars(NotAdmitted \/ Admitted)
    /\ WF_vars(NotAuthenticated \/ Authenticated \/ Rejected)
    /\ WF_vars(Dispatched) /\ WF_vars(NotPrepared \/ Prepared)
    /\ WF_vars(Send) /\ WF_vars(Notice)
    /\ WF_vars(task = "draining" /\ Closed)
    /\ WF_vars(Recv) /\ WF_vars(GiveUp) /\ WF_vars(Upgraded)
    /\ WF_vars(HandshakeTimeout) /\ WF_vars(InnerDispatched)
    /\ WF_vars(InnerNotice) /\ WF_vars(task = "innerDraining" /\ InnerClosed)

FairSpec == Spec /\ Fairness

-----------------------------------------------------------------------------
(* Properties. *)

Upgrade == [action : Actions, gen : Gens, read : 0..MaxBytes]

TypeOK ==
    /\ policy \in [Gens -> Actions] /\ gen \in Gens
    /\ shutdown \in BOOLEAN /\ gone \in BOOLEAN
    /\ task \in Tasks
    /\ req = None \/ req \in [kind : {"http", "connect"}, gen : Gens, read : 0..MaxBytes,
                              action : Actions \cup {None},
                              step : {"admit", "auth", "dispatch", "dial", "sign", "send"}]
    /\ chan = None \/ chan \in Upgrade
    /\ up = None \/ up \in Upgrade
    /\ up # None => up.action # "reject"
    /\ inner = None \/ inner \in [gen : Gens, came : Gens]
    /\ sent \in 0..MaxBytes /\ got \in Seq(0..MaxBytes)

(***************************************************************************)
(* The handler of a CONNECT finds the channel's one place free: were it    *)
(* taken, the handler and the task that empties the channel only after the *)
(* HTTP connection is over would wait for each other.                      *)
(***************************************************************************)
SendNeverBlocks == req # None /\ req.step = "send" => chan = None /\ up = None

(***************************************************************************)
(* Whenever the shutdown signal comes, the connection does not end with a  *)
(* request it is serving, on the connection or inside TLS, unless the      *)
(* client's socket has failed.                                             *)
(***************************************************************************)
EndsIdle == task' = "ended" /\ ~gone' => req = None /\ inner = None

(***************************************************************************)
(* A CONNECT is run as the generation decided that authenticated it,       *)
(* although the configuration may be reloaded at any await in between.     *)
(***************************************************************************)
OneGeneration ==
    /\ chan # None => chan.action = policy[chan.gen]
    /\ up # None => up.action = policy[up.gen]

(***************************************************************************)
(* A request inside TLS is decided by no older generation than the one     *)
(* that was current when it came.                                          *)
(***************************************************************************)
InnerIsCurrent == inner # None => inner.gen >= inner.came

(***************************************************************************)
(* The tunnel is an opaque byte stream: the client gets what the target    *)
(* sent, from the first byte on.                                           *)
(***************************************************************************)
TunnelOpaque == \A k \in 1..Len(got) : got[k] = k

(***************************************************************************)
(* After the shutdown signal the connection ends, whatever the client      *)
(* does: also one that never sent a CONNECT, one whose TLS handshake never *)
(* comes, and a tunnel with traffic.                                       *)
(***************************************************************************)
ShutdownEnds == shutdown ~> (task = "ended")

(***************************************************************************)
(* A client that never finishes the TLS handshake does not hold its        *)
(* connection for ever.                                                    *)
(***************************************************************************)
HandshakeBounded == (task = "handshake") ~> (task # "handshake")

=============================================================================
