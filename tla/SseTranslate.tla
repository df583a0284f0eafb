---------------------------- MODULE SseTranslate ----------------------------
(***************************************************************************)
(* The translation of a provider's event stream into another endpoint's    *)
(* (convert/src/sse): the accumulator that reads Chat, Messages or         *)
(* Responses events as deltas, EndpointTranslator, which decides when the  *)
(* stream is over, and what is emitted for each target, above all the item *)
(* lifecycle of ResponsesEmitter. The accumulated response is what a       *)
(* client gets that asked for no stream.                                   *)
(*                                                                         *)
(* The provider sends a response of a few parts, each in pieces, and may   *)
(* break off anywhere. A piece is a number; 0 is the text "{}". The events *)
(* that open an item (output_item.added, content_part.added) are one, and  *)
(* so are those that close it; every event of a Responses stream takes the *)
(* next sequence number, here its position.                                *)
(***************************************************************************)
EXTENDS Naturals, Sequences, FiniteSets

CONSTANTS
  MaxParts,      \* bound: parts of a response
  MaxEvents,     \* bound: events the provider sends
  Interleaved    \* whether a provider goes back to an earlier tool call

SseAssumption == MaxParts \in Nat /\ MaxEvents \in Nat /\ Interleaved \in BOOLEAN

VARIABLES
  from, to,       \* the two endpoints
  up,             \* the provider: its parts, the open one, what it declared
  argsSeen,       \* MessagesState.tool_arguments_seen
  acc,            \* SseAccumulator.response
  terminalSeen, finished,   \* EndpointTranslator
  em,             \* EmitState and ResponsesEmitter
  over            \* the client's stream: "open", "ended" or "failed"

vars == <<from, to, up, argsSeen, acc, terminalSeen, finished, em, over>>

Endpoints == {"chat", "messages", "responses"}
Kinds == {"text", "reasoning", "tool"}
Indexes == 0 .. MaxParts
NoItem == [kind |-> "none", call |-> 0, named |-> FALSE, body |-> <<>>, index |-> 0]
Reasons == {"none", "stop", "length", "tool_calls", "failed", "cancelled"}
WireReasons ==
  [chat |-> {"stop", "length", "tool_calls"},
   messages |-> {"end_turn", "max_tokens", "tool_use"},
   responses |-> {"completed", "max_output_tokens", "failed", "cancelled"}]
Bodies == Seq(0 .. MaxEvents)
Items == [kind : Kinds \cup {"none"}, call : Indexes, named : BOOLEAN,
          body : Bodies, index : Nat]

TypeOK ==
  /\ from \in Endpoints /\ to \in Endpoints \ {from}
  /\ up.parts \in Seq(Kinds) /\ up.open \in 0 .. Len(up.parts)
  /\ up.reason \in {"none"} \cup WireReasons[from] /\ up.over \in {"no", "done", "cut"}
  /\ up.sent \in 0 .. MaxEvents
  /\ argsSeen \in [Indexes -> {"none", "no", "yes"}]
  /\ acc.reason \in Reasons /\ acc.text \in Bodies /\ acc.reasoning \in Bodies
  /\ \A i \in Indexes : acc.calls[i].named \in BOOLEAN /\ acc.calls[i].body \in Bodies
  /\ {terminalSeen, finished, em.started} \subseteq BOOLEAN /\ em.reason \in Reasons
  /\ em.current \in Items /\ \A k \in DOMAIN em.closed : em.closed[k] \in Items
  /\ over \in {"open", "ended", "failed"}

Init ==
  /\ from \in Endpoints /\ to \in Endpoints \ {from}
  /\ up = [parts |-> <<>>, open |-> 0, reason |-> "none", over |-> "no", sent |-> 0]
  /\ argsSeen = [i \in Indexes |-> "none"]
  /\ acc = [text |-> <<>>, reasoning |-> <<>>, reason |-> "none",
            calls |-> [i \in Indexes |-> [named |-> FALSE, body |-> <<>>]]]
  /\ terminalSeen = FALSE /\ finished = FALSE
  /\ em = [started |-> FALSE, current |-> NoItem, closed |-> <<>>, reason |-> "none",
           out |-> <<>>]
  /\ over = "open"

-----------------------------------------------------------------------------
\* The endpoint-neutral deltas. The pieces of a delta are a sequence, empty for "".
Text(kind, body) == [k |-> kind, i |-> 0, named |-> FALSE, body |-> body, reason |-> "none"]
Tool(i, named, body) == [k |-> "tool", i |-> i, named |-> named, body |-> body, reason |-> "none"]
Usage == [k |-> "usage", i |-> 0, named |-> FALSE, body |-> <<>>, reason |-> "none"]
Finish(reason) == [k |-> "finish", i |-> 0, named |-> FALSE, body |-> <<>>, reason |-> reason]

\* A provider's event.
Event(t, i, body, reason) == [t |-> t, i |-> i, body |-> body, reason |-> reason]

\* The index a tool call has on the wire: its place among the calls of a Chat
\* response, among all the parts of the others.
WireIndex(i) ==
  IF from = "chat" THEN Cardinality({j \in 1 .. i - 1 : up'.parts[j] = "tool"}) ELSE i - 1
HasToolCall == \E j \in DOMAIN up'.parts : up'.parts[j] = "tool"

\* The neutral reason: finish_reason_from_messages, terminal_reason and, by the
\* items it has seen, responses_completed_finish_reason.
FinishReason(r) ==
  CASE r = "completed" -> IF HasToolCall THEN "tool_calls" ELSE "stop"
    [] r \in {"max_output_tokens", "max_tokens"} -> "length"
    [] r = "end_turn" -> "stop"
    [] r = "tool_use" -> "tool_calls"
    [] OTHER -> r

\* delta_from_chat_chunk, delta_from_messages_event with delta_from_messages_event
\* of the accumulator, delta_from_responses_event. Only the first event of a call
\* names it, but the Responses accumulator remembers the item's name.
Deltas(e) ==
  LET kind == IF e.i = 0 THEN "none" ELSE up'.parts[e.i]
      part == IF kind = "tool" THEN Tool(WireIndex(e.i), e.t = "open" \/ from = "responses", e.body)
              ELSE Text(kind, e.body)
      emptyCall == from = "messages" /\ kind = "tool" /\ argsSeen[WireIndex(e.i)] = "no"
  IN CASE e.t = "usage" -> <<Usage>>
       [] e.t = "piece" -> <<part>>
       [] e.t = "open" /\ (from = "messages" => kind = "tool") /\ from # "responses" -> <<part>>
       [] e.t = "close" /\ emptyCall -> <<Tool(WireIndex(e.i), FALSE, <<0>>)>>
       [] e.t = "end" /\ (from = "responses" => e.reason = "completed") ->
            <<Finish(FinishReason(e.reason))>>
       [] OTHER -> <<>>

ArgsSeen(e) ==
  IF from # "messages" \/ e.i = 0 \/ (e.i # 0 /\ up'.parts[e.i] # "tool") THEN argsSeen
  ELSE [argsSeen EXCEPT ![WireIndex(e.i)] =
          IF e.t = "close" THEN "none" ELSE IF e.body # <<>> THEN "yes"
          ELSE IF e.t = "open" THEN "no" ELSE @]

\* IrResponse::push_delta
PushDelta(a, d) ==
  CASE d.k = "text" -> [a EXCEPT !.text = @ \o d.body]
    [] d.k = "reasoning" -> [a EXCEPT !.reasoning = @ \o d.body]
    [] d.k = "tool" ->
         [a EXCEPT !.calls[d.i] = [named |-> @.named \/ d.named, body |-> @.body \o d.body]]
    [] d.k = "finish" -> [a EXCEPT !.reason = d.reason]
    [] OTHER -> a

\* terminal_reason
TerminalReason(e) ==
  IF e.t = "end" THEN FinishReason(e.reason) ELSE IF e.t = "stop" THEN "stop" ELSE "none"

-----------------------------------------------------------------------------
Out(ev, at, val) == [ev |-> ev, at |-> at, val |-> val]
Put(m, ev, at, val) == [m EXCEPT !.out = Append(@, Out(ev, at, val))]

\* ResponsesEmitter: close_current, close_item. Arguments that are empty become {}.
CloseCurrent(m) ==
  IF m.current.kind = "none" THEN m
  ELSE LET item == IF m.current.kind = "tool" /\ m.current.body = <<>>
                   THEN [m.current EXCEPT !.body = <<0>>] ELSE m.current
       IN Put([m EXCEPT !.current = NoItem, !.closed = Append(@, item)], "done", item.index, "none")

OpenItem(m, kind, call, named) ==
  LET index == Len(m.closed) IN
  Put([m EXCEPT !.current = [kind |-> kind, call |-> call, named |-> named,
                             body |-> <<>>, index |-> index]], "added", index, "none")

\* Mutant of HandleText: the item before is not closed.
HandleTextUnclosed(m, d) ==
  IF d.body = <<>> THEN m
  ELSE LET o == IF m.current.kind = d.k THEN m ELSE OpenItem(m, d.k, 0, FALSE)
       IN Put([o EXCEPT !.current.body = @ \o d.body], "delta", o.current.index, "none")

\* handle_text, handle_reasoning
HandleText(m, d) ==
  IF d.body = <<>> THEN m
  ELSE LET o == IF m.current.kind = d.k THEN m ELSE OpenItem(CloseCurrent(m), d.k, 0, FALSE)
       IN Put([o EXCEPT !.current.body = @ \o d.body], "delta", o.current.index, "none")

\* Mutant of SameCall: any open call will do.
SameCallAny(m, d) == m.current.kind = "tool"

SameCall(m, d) == m.current.kind = "tool" /\ m.current.call = d.i

\* handle_tool_call
HandleToolCall(m, d) ==
  LET o == IF SameCall(m, d) THEN m ELSE OpenItem(CloseCurrent(m), "tool", d.i, d.named)
      p == [o EXCEPT !.current.body = @ \o d.body, !.current.named = @ \/ d.named]
  IN IF d.body = <<>> THEN p ELSE Put(p, "delta", p.current.index, "none")

\* ResponsesEmitter::emit for one delta
ResponsesDelta(m, d) ==
  CASE d.k \in {"text", "reasoning"} -> HandleText(m, d)
    [] d.k = "tool" -> HandleToolCall(m, d)
    [] d.k = "finish" -> [m EXCEPT !.reason = d.reason]
    [] OTHER -> m

\* finish_reason_to_messages
ToMessages(reason) ==
  CASE reason = "stop" -> "end_turn"
    [] reason = "length" -> "max_tokens"
    [] reason = "tool_calls" -> "tool_use"
    [] OTHER -> reason

\* chunk_from_deltas, events_from_deltas of the Messages endpoint: one event each.
PlainDelta(m, d) ==
  IF d.k = "finish" THEN
    Put([m EXCEPT !.reason = d.reason], "finish", 0,
        IF to = "messages" THEN ToMessages(d.reason) ELSE d.reason)
  ELSE Put(m, IF d.k = "usage" THEN "usage" ELSE "delta", d.i, d.k)

\* EmitState::start, ensure_started
Started(m) ==
  LET s == [m EXCEPT !.started = TRUE] IN
  IF m.started \/ to = "chat" THEN s
  ELSE IF to = "responses" THEN Put(s, "created", 0, "none")
  ELSE Put(Put(s, "messageStart", 0, "none"), "blockStart", 0, "none")

\* EmitState::emit. A chunk of several deltas is taken as several events, so there is one
\* at most.
Emit(m, deltas) ==
  IF deltas = <<>> THEN m
  ELSE IF to = "responses" THEN ResponsesDelta(Started(m), deltas[1])
  ELSE PlainDelta(Started(m), deltas[1])

\* responses_completion_status
Status(reason) ==
  CASE reason = "length" -> "incomplete"
    [] reason \in {"failed", "cancelled"} -> reason
    [] OTHER -> "completed"

\* EmitState::finish, ResponsesEmitter::finish
EmitFinish(m) ==
  CASE to = "responses" -> Put(CloseCurrent(Started(m)), "terminal", 0, Status(m.reason))
    [] to = "messages" -> Put(Put(Started(m), "blockStop", 0, "none"), "terminal", 0, "none")
    [] to = "chat" -> Put(Started(m), "terminal", 0, "none")

-----------------------------------------------------------------------------
\* Mutant of FinishOnce: the stream may finish twice.
FinishOnceAgain(m, terminal, next) ==
  /\ finished' = TRUE
  /\ em' = IF terminal THEN EmitFinish(m) ELSE m
  /\ over' = IF terminal THEN next ELSE "failed"

\* Mutant of FinishOnce: a stream that breaks off is finished like any other.
FinishOnceAnyway(m, terminal, next) ==
  /\ finished' = TRUE
  /\ em' = IF finished THEN m ELSE EmitFinish(m)
  /\ over' = next

\* finish_once; its error fails the client's stream.
FinishOnce(m, terminal, next) ==
  /\ finished' = TRUE
  /\ em' = IF terminal /\ ~finished THEN EmitFinish(m) ELSE m
  /\ over' = IF terminal \/ finished THEN next ELSE "failed"

HasFinish(deltas) == deltas # <<>> /\ deltas[1].k = "finish"

\* Mutant of Retained: a later terminal event counts again.
RetainedAgain(deltas, reason) ==
  IF reason = "none" \/ HasFinish(deltas) THEN deltas ELSE Append(deltas, Finish(reason))

\* The deltas as the client shall see them: one finish, at the first terminal event.
Retained(deltas, reason) ==
  IF reason = "none" THEN deltas
  ELSE IF terminalSeen THEN IF HasFinish(deltas) THEN <<>> ELSE deltas
  ELSE IF HasFinish(deltas) THEN deltas ELSE Append(deltas, Finish(reason))

\* EndpointTranslator::transform of a JSON event; none follows a [DONE].
Transform(e) ==
  LET deltas == Deltas(e)
      reason == TerminalReason(e)
  IN /\ acc' = IF deltas = <<>> THEN acc ELSE PushDelta(acc, deltas[1])
     /\ argsSeen' = ArgsSeen(e)
     /\ terminalSeen' = (terminalSeen \/ reason # "none")
     /\ em' = Emit(em, Retained(deltas, reason))
     /\ UNCHANGED <<from, to, finished, over>>

Sending == over = "open" /\ up.over = "no" /\ up.sent < MaxEvents
Piece == <<up.sent + 1>>

\* The provider opens a part; a Chat chunk brings the first piece with it, a tool
\* call may come with its arguments or without.
OpenPart(kind) ==
  /\ Sending /\ up.reason = "none" /\ Len(up.parts) < MaxParts
  /\ up.open = 0 \/ from = "chat"
  /\ up' = [up EXCEPT !.parts = Append(@, kind), !.open = Len(up.parts) + 1, !.sent = @ + 1]
  /\ \E body \in {<<>>, Piece} :
       /\ body # <<>> => from = "chat" \/ (from = "messages" /\ kind = "tool")
       /\ Transform(Event("open", up'.open, body, "none"))

SendPiece(i) ==
  /\ Sending /\ up.reason = "none" /\ i \in DOMAIN up.parts
  /\ i = up.open \/ (Interleaved /\ from = "chat" /\ up.parts[i] = "tool")
  /\ up' = [up EXCEPT !.open = i, !.sent = @ + 1]
  /\ Transform(Event("piece", i, Piece, "none"))

\* content_block_stop, output_item.done
ClosePart ==
  /\ Sending /\ up.open # 0 /\ from # "chat"
  /\ up' = [up EXCEPT !.open = 0, !.sent = @ + 1]
  /\ Transform(Event("close", up.open, <<>>, "none"))

SendUsage ==
  /\ Sending /\ up' = [up EXCEPT !.sent = @ + 1]
  /\ Transform(Event("usage", 0, <<>>, "none"))

\* The chunk with the finish_reason, message_delta, or response.completed and the
\* other terminal events of a Responses stream.
Declare(r) ==
  /\ Sending /\ up.reason = "none" /\ (from # "chat" => up.open = 0)
  /\ up' = [up EXCEPT !.reason = r, !.sent = @ + 1]
  /\ Transform(Event("end", 0, <<>>, r))

MessageStop ==
  /\ Sending /\ from = "messages" /\ up.open = 0
  /\ up' = [up EXCEPT !.over = "done", !.sent = @ + 1]
  /\ Transform(Event("stop", 0, <<>>, "none"))

\* [DONE], which a provider may send without having declared a reason.
Done ==
  /\ Sending /\ from # "messages"
  /\ up' = [up EXCEPT !.over = "done", !.sent = @ + 1]
  /\ terminalSeen' = TRUE
  /\ LET infer == ~terminalSeen /\ from = "responses" /\ HasToolCall
     IN FinishOnce(Emit(em, IF infer THEN <<Finish("tool_calls")>> ELSE <<>>), TRUE, "open")
  /\ UNCHANGED <<from, to, argsSeen, acc>>

\* An event that is no JSON: the pipeline ends the stream with an error.
BadEvent ==
  /\ Sending /\ up' = [up EXCEPT !.over = "cut"] /\ over' = "failed"
  /\ UNCHANGED <<from, to, argsSeen, acc, terminalSeen, finished, em>>

\* The provider's stream ends, whether it was complete or not: finish_transformers.
Eof ==
  /\ over = "open" /\ up' = [up EXCEPT !.over = IF @ = "no" THEN "cut" ELSE @]
  /\ FinishOnce(em, terminalSeen, "ended")
  /\ UNCHANGED <<from, to, argsSeen, acc, terminalSeen>>

Next ==
  \/ \E k \in Kinds : OpenPart(k)
  \/ \E i \in 1 .. MaxParts : SendPiece(i)
  \/ \E r \in WireReasons[from] : Declare(r)
  \/ ClosePart \/ SendUsage \/ MessageStop \/ Done \/ BadEvent \/ Eof

Spec == Init /\ [][Next]_vars

-----------------------------------------------------------------------------
Terminals == {k \in DOMAIN em.out : em.out[k].ev = "terminal"}
AddedBefore(k) == {j \in 1 .. k - 1 : em.out[j].ev = "added"}
OpenBefore(k) ==
  {j \in AddedBefore(k) : \A l \in j .. k - 1 : em.out[l] # Out("done", em.out[j].at, "none")}

(***************************************************************************)
(* "Output items are emitted strictly sequentially": in a Responses stream *)
(* an item is added when none is open, with the next output index; deltas  *)
(* and done events are for the open item; and the terminal event finds     *)
(* every item closed.                                                      *)
(***************************************************************************)
ItemsSequential ==
  to = "responses" => \A k \in DOMAIN em.out :
    LET e == em.out[k] IN
    /\ e.ev \in {"added", "terminal"} => OpenBefore(k) = {}
    /\ e.ev = "added" => e.at = Cardinality(AddedBefore(k))
    /\ e.ev \in {"delta", "done"} => {em.out[j].at : j \in OpenBefore(k)} = {e.at}

(***************************************************************************)
(* The terminal event of the client's stream is its last event and so the  *)
(* only one, however the provider ended: by a reason, by message_stop, by  *)
(* [DONE], by closing the stream, or by several of them.                   *)
(***************************************************************************)
OneTerminal == \A k \in Terminals : k = Len(em.out)

(***************************************************************************)
(* "truncated stream must not become completed": the client gets the       *)
(* terminal event only if the provider declared the response over, and a   *)
(* stream that ends without it ends with an error.                         *)
(***************************************************************************)
NotCompletedEarly ==
  /\ Terminals # {} => up.reason # "none" \/ up.over = "done"
  /\ over = "ended" => Terminals # {}

\* What a reason says, in any endpoint's words.
Meaning(r) ==
  CASE r \in {"stop", "end_turn", "completed"} -> "done"
    [] r \in {"length", "max_tokens", "max_output_tokens", "incomplete"} -> "cut"
    [] r \in {"tool_calls", "tool_use"} -> "tools"
    [] OTHER -> r
Declared ==
  IF up.reason = "completed" /\ \E j \in DOMAIN up.parts : up.parts[j] = "tool" THEN "tools"
  ELSE Meaning(up.reason)

(***************************************************************************)
(* The client learns the reason the provider gave, once: by the status of  *)
(* the terminal event of a Responses stream, by the one finish event of    *)
(* the others. Events after it, message_stop among them, do not change it. *)
(***************************************************************************)
VerdictCarried ==
  over = "ended" /\ up.reason # "none" =>
    IF to = "responses"
    THEN Meaning(em.out[Len(em.out)].val) = IF Declared = "tools" THEN "done" ELSE Declared
    ELSE \E k \in DOMAIN em.out :
           /\ {j \in DOMAIN em.out : em.out[j].ev = "finish"} = {k}
           /\ Meaning(em.out[k].val) = Declared

\* The items of a tool call, and what all the items of a kind say.
ItemsOf(i) == {k \in DOMAIN em.closed : em.closed[k].kind = "tool" /\ em.closed[k].call = i}
Said(kind, items) ==
  LET upTo[n \in 0 .. Len(items)] ==
        IF n = 0 THEN <<>>
        ELSE IF items[n].kind = kind THEN upTo[n - 1] \o items[n].body ELSE upTo[n - 1]
  IN upTo[Len(items)]

(***************************************************************************)
(* A Responses client gets the response a client without a stream would:   *)
(* one item for each tool call, named, with all of its arguments, and all  *)
(* of the text and of the reasoning.                                       *)
(***************************************************************************)
StreamAgrees ==
  over = "ended" /\ to = "responses" =>
    /\ \A i \in Indexes :
         LET call == acc.calls[i] IN
         IF ~call.named THEN ItemsOf(i) = {}
         ELSE \E k \in DOMAIN em.closed :
                /\ ItemsOf(i) = {k} /\ em.closed[k].named
                /\ em.closed[k].body = IF call.body = <<>> THEN <<0>> ELSE call.body
    /\ \A kind \in {"text", "reasoning"} : acc[kind] = Said(kind, em.closed)

=============================================================================
