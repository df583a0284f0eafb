-------------------------- MODULE RequestPipeline --------------------------
(***************************************************************************)
(* One call of PipelineRunner::run_with and everything it leaves running:  *)
(*   - crates/requests/src/pipeline/mod.rs: the attempts, the six stages,  *)
(*     RetryPolicy, and the guard that ends a dropped attempt;             *)
(*   - crates/requests/src/stages/send: the provider call;                 *)
(*   - crates/requests/src/pipeline/stages.rs: AccumHelper, the task that  *)
(*     records a streamed response and completes its attempt;              *)
(*   - crates/requests/src/stages/convert_response: the task that taps     *)
(*     the stream for usage; crates/convert/src/sse/pipeline.rs.           *)
(*                                                                         *)
(* The caller's future, the client that polls or drops the body, and the   *)
(* two tasks interleave; the tasks are fed by unbounded channels.  Runs    *)
(* share nothing but the event bus (module EventBus), so one is enough.    *)
(* log[a] is what attempt a puts on the bus, in order.                     *)
(***************************************************************************)
EXTENDS Integers, Sequences

CONSTANTS
    Calls,       \* what callers may ask for, see Call
    MaxRetries,  \* RetryPolicy::max_retries
    MaxFrames    \* bound of the model: frames an upstream stream has

Protocols == {"chat", "responses", "messages"}   \* enum Endpoint
Call == [inbound : Protocols \cup {"custom"},    \* RequestEndpoint of the caller
         upstream : Protocols \cup {"custom"},   \* protocol the upstream speaks
         stream : BOOLEAN,        \* the response is an SSE stream
         relay : BOOLEAN,         \* ProxySend and PassthroughConvertResponse
         replayable : BOOLEAN,    \* request_is_replayable
         dry_run : BOOLEAN]       \* NoopSend

ASSUME CallsAssumption == Calls # {} /\ \A c \in Calls : c \in Call
ASSUME RetriesAssumption == MaxRetries \in Nat /\ MaxFrames \in Nat

Stages == {"Extract", "Resolve", "BuildHeaders", "ConvertRequest", "Send",
           "ConvertResponse"}
Records == {"UpstreamReq", "UpstreamResp", "UpstreamBody", "ConvertedBody", "Usage"}

\* StageEvent::Completed with success true and false, and Error with and
\* without the stop flag.
Terminal == {"CompletedOk", "CompletedFailed"}
Events == Stages \cup Records \cup Terminal \cup {"Started", "Error", "Stop"}

\* SSE frames, by what their event type means to some protocol;
\* "response.failed" stands for "response.incomplete" too.
Frames == {"delta", "[DONE]", "response.completed", "response.failed",
           "message_stop", "error"}

VARIABLES
    pc,          \* where the caller's future is, or "stream" with the client
    call,        \* what was asked
    attempt,     \* the attempt under way
    recoverable, \* of an upstream status whose body is being read
    log,         \* history: events emitted by each attempt
    inbox,       \* AccumHelper's channel
    accum,       \* its task
    tapbox,      \* the observer channel
    tap,         \* its task
    finalizers,  \* EventBus::active_finalizers held by this run
    source_done, \* PipelineStream::source_done
    pending,     \* PipelineStream::pending
    received,    \* history: frames the upstream sent
    delivered    \* history: items the client got

runner == <<pc, call, attempt, recoverable>>
tasks == <<inbox, accum, tapbox, tap, finalizers>>
body == <<source_done, pending, received, delivered>>
vars == <<pc, call, attempt, recoverable, log, inbox, accum, tapbox, tap,
          finalizers, source_done, pending, received, delivered>>

Attempts == 0..MaxRetries
Points == Stages \cup {"idle", "await_provider", "error_body", "backoff",
                       "stream", "done"}
Notes == {"Upstream", "Converted", "UpstreamError", "ConvertedError", "Finish"}
TapMsgs == {"Usage", "Parsed", "Error", "Done"}

\* The accumulator's state: what it has gathered, and what it has yet to emit.
NoTask == [state |-> "off", upstream |-> <<>>, converted |-> 0,
           failed |-> FALSE, todo |-> <<>>]

TypeOK ==
    /\ pc \in Points
    /\ call \in Calls
    /\ attempt \in Attempts
    /\ recoverable \in BOOLEAN
    /\ log \in [Attempts -> Seq(Events)]
    /\ inbox \in Seq([note : Notes, frame : Frames])
    /\ accum \in [state : {"off", "run", "emit", "done"}, upstream : Seq(Frames),
                  converted : Nat, failed : BOOLEAN, todo : Seq(Events)]
    /\ tapbox \in Seq(TapMsgs)
    /\ tap \in {"off", "run", "stopping", "done"}
    /\ finalizers \in 0..2
    /\ source_done \in BOOLEAN
    /\ pending \in Nat
    /\ received \in Seq(Frames)
    /\ delivered \in Nat

Init ==
    /\ pc = "idle"
    /\ call = CHOOSE c \in Calls : TRUE
    /\ attempt = 0
    /\ recoverable = FALSE
    /\ log = [a \in Attempts |-> <<>>]
    /\ inbox = <<>> /\ accum = NoTask
    /\ tapbox = <<>> /\ tap = "off"
    /\ finalizers = 0
    /\ source_done = FALSE /\ pending = 0
    /\ received = <<>> /\ delivered = 0

\* First records, then stage events.
Emit(rs, es) == log' = [log EXCEPT ![attempt] = @ \o rs \o es]

-----------------------------------------------------------------------------
(***************************************************************************)
(* The runner: run_with and run_attempt.                                   *)
(***************************************************************************)
Start(c) ==
    /\ pc = "idle"
    /\ call' = c
    /\ pc' = "Extract"
    /\ Emit(<<>>, <<"Started">>)
    /\ UNCHANGED <<attempt, recoverable, tasks, body>>

NextStage == [Extract |-> "Resolve", Resolve |-> "BuildHeaders",
              BuildHeaders |-> "ConvertRequest", ConvertRequest |-> "Send"]

\* Extract, Resolve, BuildHeaders or ConvertRequest succeeds.
Prepare ==
    /\ pc \in DOMAIN NextStage
    /\ Emit(<<>>, <<pc>>)
    /\ pc' = NextStage[pc]
    /\ UNCHANGED <<call, attempt, recoverable, tasks, body>>

\* Mutant of ShouldRetry: one attempt too many.
ShouldRetryInclusive(again) == again /\ attempt =< MaxRetries /\ call.replayable

\* RetryPolicy::should_retry, for an error of the Send stage.
ShouldRetry(again) == again /\ attempt < MaxRetries /\ call.replayable

\* Mutant of Fail: the guard, not marked terminal, completes the attempt again.
FailUnmarked(rs, error, again) ==
    /\ Emit(rs, <<error, "CompletedFailed", "Error", "CompletedFailed">>)
    /\ pc' = IF ShouldRetry(again) THEN "backoff" ELSE "done"
    /\ UNCHANGED <<call, attempt, tasks, body>>

\* fail, mark_terminal, and what run_with then does with the error.
Fail(rs, error, again) ==
    /\ Emit(rs, <<error, "CompletedFailed">>)
    /\ pc' = IF ShouldRetry(again) THEN "backoff" ELSE "done"
    /\ UNCHANGED <<call, attempt, tasks, body>>

\* A stage, or the preparation of the call in Send, fails.
PrepareFails ==
    /\ pc \in DOMAIN NextStage \/ (pc = "Send" /\ ~call.dry_run)
    /\ Fail(<<>>, "Error", FALSE)
    /\ UNCHANGED recoverable

\* NoopSend: PipelineError::stop.
DryRun ==
    /\ pc = "Send" /\ call.dry_run
    /\ Fail(<<>>, "Stop", FALSE)
    /\ UNCHANGED recoverable

\* The provider is called.  ProxySend emits UpstreamReq before, DefaultSend
\* after the call, and only if the provider filled the capture.
Dispatch ==
    /\ pc = "Send" /\ ~call.dry_run
    /\ pc' = "await_provider"
    /\ Emit(IF call.relay THEN <<"UpstreamReq">> ELSE <<>>, <<>>)
    /\ UNCHANGED <<call, attempt, recoverable, tasks, body>>

Captured == IF call.relay THEN {<<>>} ELSE {<<>>, <<"UpstreamReq">>}

\* No answer, or none that could be sent for.
ProviderFails ==
    /\ pc = "await_provider"
    /\ \E rs \in Captured, again \in BOOLEAN : Fail(rs, "Error", again)
    /\ UNCHANGED recoverable

\* A status of 500 and more (recoverable) or 400 and more (not; a relay
\* forwards it).
ErrorStatus ==
    /\ pc = "await_provider"
    /\ \E rs \in Captured : Emit(rs, <<"UpstreamResp">>)
    /\ recoverable' \in {TRUE, call.relay}
    /\ pc' = "error_body"
    /\ UNCHANGED <<call, attempt, tasks, body>>

\* Its body is read; that it cannot be is noticed above 500 only.
ErrorBody ==
    /\ pc = "error_body"
    /\ \E rs \in {<<"UpstreamBody">>} \cup (IF recoverable THEN {<<>>} ELSE {}) :
         Fail(rs, "Error", recoverable)
    /\ recoverable' = FALSE

Answered ==
    /\ pc = "await_provider"
    /\ \E rs \in Captured : Emit(rs, <<"UpstreamResp", "Send">>)
    /\ pc' = "ConvertResponse"
    /\ UNCHANGED <<call, attempt, recoverable, tasks, body>>

RetryAfterBackoff ==
    /\ pc = "backoff"
    /\ attempt' = attempt + 1
    /\ log' = [log EXCEPT ![attempt + 1] = <<"Started">>]
    /\ pc' = "Extract"
    /\ UNCHANGED <<call, recoverable, tasks, body>>

\* ConvertResponse of a buffered response: read, convert, complete.
Buffered ==
    /\ pc = "ConvertResponse" /\ ~call.stream
    /\ \E rs \in {<<"UpstreamBody">>, <<"UpstreamBody", "Usage">>} :
         Emit(rs, <<"ConvertResponse", "ConvertedBody", "CompletedOk">>)
    /\ pc' = "done"
    /\ UNCHANGED <<call, attempt, recoverable, tasks, body>>

\* The records before a failure: the body cannot be read, or, for a managed
\* response, not be converted (then usage may be known).
Unconverted ==
    {<<>>} \cup (IF call.relay THEN {}
                ELSE {<<"UpstreamBody">>, <<"UpstreamBody", "Usage">>})

\* Mutant of BufferedFails: the stage of the error is not looked at.
BufferedFailsRetried ==
    /\ pc = "ConvertResponse" /\ ~call.stream
    /\ \E rs \in Unconverted : Fail(rs, "Error", TRUE)
    /\ UNCHANGED recoverable

BufferedFails ==
    /\ pc = "ConvertResponse" /\ ~call.stream
    /\ \E rs \in Unconverted : Fail(rs, "Error", FALSE)
    /\ UNCHANGED recoverable

\* ConvertResponse of a stream: both tasks start, each with a finalizer, and
\* the caller gets the body.  Nothing here awaits.
OpenStream ==
    /\ pc = "ConvertResponse" /\ call.stream
    /\ accum' = [NoTask EXCEPT !.state = "run"]
    /\ tap' = "run"
    /\ finalizers' = finalizers + 2
    /\ Emit(<<>>, <<"ConvertResponse">>)
    /\ pc' = "stream"
    /\ UNCHANGED <<call, attempt, recoverable, inbox, tapbox, body>>

\* Mutant of Cancel: no guard.
CancelSilently ==
    /\ pc \in Stages \cup {"await_provider", "error_body", "backoff"}
    /\ pc' = "done"
    /\ recoverable' = FALSE
    /\ UNCHANGED <<call, attempt, log, tasks, body>>

\* The caller's future is dropped at an await: AttemptTerminalGuard, unless
\* the attempt is over and the run only waits for the next one.
Cancel ==
    /\ pc \in Stages \cup {"await_provider", "error_body", "backoff"}
    /\ Emit(<<>>, IF pc = "backoff" THEN <<>> ELSE <<"Error", "CompletedFailed">>)
    /\ pc' = "done"
    /\ recoverable' = FALSE
    /\ UNCHANGED <<call, attempt, tasks, body>>

-----------------------------------------------------------------------------
(***************************************************************************)
(* The client polls the body.  Converted items come from the pending ones, *)
(* else from the next frame; each is noted for the accumulator before the  *)
(* client has it.                                                          *)
(***************************************************************************)
Note(n) == [note |-> n, frame |-> "delta"]
NoteFrame(f) == [note |-> "Upstream", frame |-> f]
Items(n) == IF n = 0 THEN <<>> ELSE <<Note("Converted")>>

\* How many items a frame becomes: a relay forwards it, a managed stream
\* drops an incomplete one, a translated one may split it.
Outputs ==
    IF call.relay THEN {1} ELSE IF call.inbound = call.upstream THEN 0..1 ELSE 0..2

\* What the tap makes of a frame; the parser of a relay may fail by itself.
Tapped == {"Usage", "Parsed"} \cup (IF call.relay THEN {"Error"} ELSE {})

\* What the upstream may send, by its protocol.
FramesOf(p) ==
    CASE p = "chat" -> {"delta", "[DONE]"}
      [] p = "responses" -> {"delta", "response.completed", "response.failed", "error"}
      [] p = "messages" -> {"delta", "message_stop", "error"}
      [] OTHER -> {"delta"}

\* n items become available and the first of them is handed out.
HandOut(n, notes, tapped) ==
    /\ inbox' = inbox \o notes \o Items(n)
    /\ tapbox' = tapbox \o tapped
    /\ pending' = IF n = 0 THEN 0 ELSE n - 1
    /\ delivered' = IF n = 0 THEN delivered ELSE delivered + 1

PollFrame(f, n, tapped) ==
    /\ pc = "stream" /\ ~source_done /\ pending = 0
    /\ Len(received) < MaxFrames
    /\ HandOut(n, <<NoteFrame(f)>>, <<tapped>>)
    /\ received' = Append(received, f)
    /\ UNCHANGED <<runner, log, accum, tap, finalizers, source_done>>

\* Mutant of PollPending: the item is handed out without a note.
PollPendingUnnoted ==
    /\ pc = "stream" /\ pending > 0
    /\ pending' = pending - 1
    /\ delivered' = delivered + 1
    /\ UNCHANGED <<runner, log, tasks, source_done, received>>

PollPending ==
    /\ pc = "stream" /\ pending > 0
    /\ inbox' = Append(inbox, Note("Converted"))
    /\ pending' = pending - 1
    /\ delivered' = delivered + 1
    /\ UNCHANGED <<runner, log, accum, tapbox, tap, finalizers, source_done, received>>

\* The upstream breaks off; the error reaches the client as an item.
PollError ==
    /\ pc = "stream" /\ ~source_done /\ pending = 0
    /\ inbox' = inbox \o <<Note("UpstreamError"), Note("ConvertedError")>>
    /\ tapbox' = Append(tapbox, "Error")
    /\ source_done' = TRUE
    /\ UNCHANGED <<runner, log, accum, tap, finalizers, pending, received, delivered>>

\* A frame of a managed stream cannot be parsed or translated.
PollUnconvertible(f) ==
    /\ pc = "stream" /\ ~source_done /\ pending = 0 /\ ~call.relay
    /\ Len(received) < MaxFrames
    /\ inbox' = inbox \o <<NoteFrame(f), Note("ConvertedError")>>
    /\ \E seen \in {"Usage", "Parsed"} : tapbox' = tapbox \o <<seen, "Error">>
    /\ received' = Append(received, f)
    /\ source_done' = TRUE
    /\ UNCHANGED <<runner, log, accum, tap, finalizers, pending, delivered>>

\* The upstream ends and the translator has items left (finish_transformers),
\* or fails to produce them.
PollRest ==
    /\ pc = "stream" /\ ~source_done /\ pending = 0
    /\ ~call.relay /\ call.inbound # call.upstream
    /\ source_done' = TRUE
    /\ \/ \E n \in Outputs \ {0} : HandOut(n, <<>>, <<>>)
       \/ /\ inbox' = Append(inbox, Note("ConvertedError"))
          /\ tapbox' = Append(tapbox, "Error")
          /\ UNCHANGED <<pending, delivered>>
    /\ UNCHANGED <<runner, log, accum, tap, finalizers, received>>

\* The body is over and dropped with all that refers to it: AccumInner::finish
\* once, and the tap's Done.
CloseBody ==
    /\ pc' = "done"
    /\ inbox' = Append(inbox, Note("Finish"))
    /\ tapbox' = Append(tapbox, "Done")
    /\ pending' = 0
    /\ source_done' = TRUE
    /\ UNCHANGED <<call, attempt, recoverable, log, accum, tap, finalizers,
                   received, delivered>>

\* The last poll; or the client goes away between two polls.
PollEnd == pc = "stream" /\ pending = 0 /\ CloseBody
DropBody == pc = "stream" /\ CloseBody

-----------------------------------------------------------------------------
(***************************************************************************)
(* AccumHelper's task and stream_terminal_error.                           *)
(***************************************************************************)
GoodEnd == [chat |-> {"[DONE]"}, responses |-> {"response.completed"},
            messages |-> {"message_stop"}]
BadEnd == [chat |-> {}, responses |-> {"response.failed", "error"},
           messages |-> {"error"}]

\* The first frame that ends a stream of the protocol is a good one.
EndsWell(p, frames) ==
    \E i \in DOMAIN frames :
       /\ frames[i] \in GoodEnd[p]
       /\ \A j \in 1..(i - 1) : frames[j] \notin BadEnd[p]

\* Mutant of StreamTerminalError: an end without a terminal frame is accepted.
StreamTerminalErrorLax(p, frames) == FALSE

\* Custom paths are not checked: their convention is unknown.
StreamTerminalError(p, frames) == p \in Protocols /\ ~EndsWell(p, frames)

\* What the task emits once it has been told to finish.
Epilogue ==
    LET failed == accum.failed \/ StreamTerminalError(call.inbound, accum.upstream)
    IN  <<"UpstreamBody", "ConvertedBody">>
          \o (IF failed THEN <<"Error", "CompletedFailed">> ELSE <<"CompletedOk">>)

AccumRecv ==
    /\ accum.state = "run" /\ inbox # <<>>
    /\ LET m == Head(inbox)
       IN  accum' =
             CASE m.note = "Upstream"  -> [accum EXCEPT !.upstream = Append(@, m.frame)]
               [] m.note = "Converted" -> [accum EXCEPT !.converted = @ + 1]
               [] m.note = "Finish"    -> [accum EXCEPT !.state = "emit", !.todo = Epilogue]
               [] OTHER                -> [accum EXCEPT !.failed = TRUE]
    /\ inbox' = Tail(inbox)
    /\ UNCHANGED <<runner, log, tapbox, tap, finalizers, body>>

AccumEmit ==
    /\ accum.state = "emit" /\ accum.todo # <<>>
    /\ Emit(<<>>, <<Head(accum.todo)>>)
    /\ accum' = [accum EXCEPT !.todo = Tail(@)]
    /\ UNCHANGED <<runner, inbox, tapbox, tap, finalizers, body>>

\* Mutant of AccumDone: the finalizer is released before the events are out.
AccumDoneEarly ==
    /\ accum.state = "emit" /\ finalizers > 0
    /\ finalizers' = finalizers - 1
    /\ UNCHANGED <<runner, log, inbox, accum, tapbox, tap, body>>

\* guard.finish()
AccumDone ==
    /\ accum.state = "emit" /\ accum.todo = <<>>
    /\ accum' = [accum EXCEPT !.state = "done"]
    /\ finalizers' = finalizers - 1
    /\ UNCHANGED <<runner, log, inbox, tapbox, tap, body>>

\* The tap's task: usage of a parsed frame goes out at once.
TapRecv ==
    /\ tap = "run" /\ tapbox # <<>>
    /\ Emit(IF Head(tapbox) = "Usage" THEN <<"Usage">> ELSE <<>>, <<>>)
    /\ tapbox' = Tail(tapbox)
    /\ tap' = IF Head(tapbox) \in {"Done", "Error"} THEN "stopping" ELSE "run"
    /\ UNCHANGED <<runner, inbox, accum, finalizers, body>>

TapDone ==
    /\ tap = "stopping"
    /\ tap' = "done"
    /\ finalizers' = finalizers - 1
    /\ UNCHANGED <<runner, log, inbox, accum, tapbox, body>>

-----------------------------------------------------------------------------
Runner == \/ Prepare \/ PrepareFails \/ DryRun \/ Dispatch \/ ProviderFails
          \/ ErrorStatus \/ ErrorBody \/ Answered \/ RetryAfterBackoff
          \/ Buffered \/ BufferedFails \/ OpenStream \/ Cancel

Poll == \/ \E f \in FramesOf(call.upstream) :
             \/ \E n \in Outputs, t \in Tapped : PollFrame(f, n, t)
             \/ PollUnconvertible(f)
        \/ PollPending \/ PollError \/ PollRest \/ PollEnd

Accum == AccumRecv \/ AccumEmit \/ AccumDone
Tap == TapRecv \/ TapDone

Next == (\E c \in Calls : Start(c)) \/ Runner \/ Poll \/ DropBody \/ Accum \/ Tap

Spec == Init /\ [][Next]_vars

(***************************************************************************)
(* Fairness: the runtime runs every task that is ready.  The rest is an    *)
(* assumption about the other parties, as the managed HTTP client has no   *)
(* total timeout: a provider answers, or its connection breaks, or the     *)
(* caller gives up; and a client reads its stream on or goes away.         *)
(***************************************************************************)
FairSpec ==
    /\ Spec
    /\ WF_vars(Runner) /\ WF_vars(Poll \/ DropBody)
    /\ WF_vars(Accum) /\ WF_vars(Tap)

-----------------------------------------------------------------------------
Contains(s, E) == \E i \in DOMAIN s : s[i] \in E
Has(a, E) == Contains(log[a], E)

\* Started is first, and after Completed there are only records.
WellFormed(s) ==
    \A i \in DOMAIN s :
       /\ s[i] = "Started" <=> i = 1
       /\ s[i] \in Terminal => \A j \in DOMAIN s : j > i => s[j] \in Records

(***************************************************************************)
(* Subscribers can rely on the shape of an attempt: Started comes first,   *)
(* exactly one event of the attempt is Completed, and no stage event       *)
(* follows it, whether the attempt failed, was cancelled at any await,     *)
(* was buffered or was completed by the accumulator (run_attempt, fail,    *)
(* AttemptTerminalGuard, AccumHelper).                                     *)
(***************************************************************************)
OneTerminalEvent == \A a \in Attempts : WellFormed(log[a])

(***************************************************************************)
(* A request is sent again only after an attempt that is closed as failed  *)
(* and of which nothing was answered: the client never gets parts of two   *)
(* answers (should_retry, run_with).                                       *)
(***************************************************************************)
RetryOnlyUnanswered ==
    \A a \in Attempts :
       a + 1 \in Attempts /\ log[a + 1] # <<>> =>
         Has(a, {"CompletedFailed"}) /\ ~Has(a, {"Send", "CompletedOk"})

(***************************************************************************)
(* The recorded response is the one the client got: when the accumulator   *)
(* has been told to finish it has noted every frame that was received and  *)
(* every item that was handed out (note_upstream, note_converted and the   *)
(* Finish that follows them, also when the client goes away).              *)
(***************************************************************************)
RecordIsWhole ==
    accum.state \in {"emit", "done"} =>
       accum.upstream = received /\ accum.converted = delivered

(***************************************************************************)
(* EventBus::shutdown may wait for finalizers only: when this run holds    *)
(* none, its stream has emitted everything it ever will (AccumHelper and   *)
(* the tap release theirs last).                                           *)
(***************************************************************************)
FinalizersCoverStream ==
    [][finalizers = 0 /\ accum.state # "off" => UNCHANGED log]_vars

(***************************************************************************)
(* The verdict on a stream is exact: an attempt with an error is never     *)
(* reported as a success, and a stream that is not translated succeeds     *)
(* just when no part of it failed and it ended the way its protocol ends   *)
(* (stream_terminal_error, which sees only what the accumulator gathered). *)
(***************************************************************************)
StreamVerdictExact ==
    /\ \A a \in Attempts : Has(a, {"CompletedOk"}) => ~Has(a, {"Error", "Stop"})
    /\ accum.state = "done" /\ call.inbound = call.upstream =>
         (Has(attempt, {"CompletedOk"}) <=>
            /\ ~accum.failed
            /\ call.upstream \in Protocols => EndsWell(call.upstream, received))

(***************************************************************************)
(* Every attempt that is started is completed, whatever becomes of its     *)
(* caller and its client ("Completed after the last (always)", mod.rs).    *)
(***************************************************************************)
EveryAttemptEnds == \A a \in Attempts : log[a] # <<>> ~> Has(a, Terminal)

(***************************************************************************)
(* "complete_stream_emits_successful_completion" (a test of stages.rs): a  *)
(* stream that the upstream ended well by its own protocol and that was    *)
(* converted without an error is not recorded as failed.                   *)
(***************************************************************************)
CompleteStreamSucceeds ==
    accum.state = "done" /\ ~accum.failed /\ call.upstream \in Protocols
      /\ EndsWell(call.upstream, received) /\ delivered >= Len(received)
      => Has(attempt, {"CompletedOk"})

(***************************************************************************)
(* Wherever the caller or the client is dropped, the events of each        *)
(* attempt are Started first, at most one Completed, and only records      *)
(* after it, and an attempt follows only one that failed before anything   *)
(* was answered (run_attempt, fail, AttemptTerminalGuard, should_retry).   *)
(***************************************************************************)
AttemptsSound == TypeOK /\ OneTerminalEvent /\ RetryOnlyUnanswered

=============================================================================
