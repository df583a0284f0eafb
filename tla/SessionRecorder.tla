--------------------------- MODULE SessionRecorder ---------------------------
(***************************************************************************)
(* crates/persistence/src/sessions/live.rs and sessions.rs: sessions.db,   *)
(* the tree of messages with one node per request.  Two writers share it,  *)
(* each in transactions: the live handler, which gathers the events of a   *)
(* request and records it when it succeeds, and the playback command of    *)
(* another process, which records rows of the requests databases.          *)
(*                                                                         *)
(* A message's id hashes its content and its parent's id, so an id is the  *)
(* path to the message: a sequence of messages.                            *)
(***************************************************************************)
EXTENDS Integers, Sequences, Functions

CONSTANTS
    Ids,        \* composite_request_id
    Sessions,   \* session ids
    Inputs,     \* what request_messages_from_json may give
    Outputs,    \* what response_messages_from_body may give
    MaxTs,      \* bound on the clock
    Retention,  \* PENDING_RETENTION_MS, in its ticks
    None

Message == UNION {Range(s) : s \in Inputs \cup Outputs}
InputsAssumption == Inputs \cup Outputs \subseteq Seq(Message) \ {<<>>}
BoundsAssumption == MaxTs \in Nat \ {0} /\ Retention \in Nat

VARIABLES
    now,        \* the clock
    stage,      \* how far each request is
    request,    \* the request: None or [ts, session, input, output]
    pending,    \* SessionEventHandler.pending
    stored,     \* the requests database: None or [input, output] of a row
    tree,       \* message_tree
    nodes,      \* session_nodes, by request
    sessions,   \* first_seen_ts and last_seen_ts of sessions
    threads,    \* the same of the session's session_threads row
    heads,      \* session_heads
    player,     \* the playback: None, or the row it is about to record
    deaf,       \* history: the requests an event of which was lost
    stale       \* history: the requests that prune_stale dropped

vars == <<now, stage, request, pending, stored, tree, nodes, sessions, threads, heads,
          player, deaf, stale>>
database == <<tree, nodes, sessions, threads, heads>>

Stages == <<"new", "started", "extracted", "answered", "converted", "done", "failed">>
\* A message and those before it.
Chain(path) == {SubSeq(path, 1, n) : n \in 1 .. Len(path)}

Paths == {a \o b : a \in Inputs \cup {<<>>}, b \in Outputs \cup {<<>>}}
Span == [first : 1..MaxTs, last : 1..MaxTs]
Record == [ts : 1..MaxTs, session : Sessions, input : Inputs \cup {<<>>},
           output : Outputs \cup {<<>>}]
Request == [ts : 1..MaxTs, session : Sessions \cup {None}, input : Inputs, output : Outputs]
Pending == [ts : 1..MaxTs, endpoint : BOOLEAN, session : Sessions \cup {None},
            input : Inputs \cup {<<>>}, upstream : Outputs \cup {None},
            converted : Outputs \cup {None}]
Stored == [input : Inputs, output : Outputs \cup {<<>>}]
Node == [ts : 1..MaxTs, session : Sessions, tip : Paths, ins : Nat, outs : Nat]
Pointer == [node : Ids, ts : 1..MaxTs]
Playing == [id : Ids, record : Record]

NoneAssumption ==
    /\ None \notin Sessions /\ None \notin Outputs
    /\ None \notin Request /\ None \notin Pending /\ None \notin Stored
    /\ None \notin Span /\ None \notin Node /\ None \notin Pointer /\ None \notin Playing

TypeOK ==
    /\ now \in 1..MaxTs
    /\ stage \in [Ids -> Range(Stages)]
    /\ request \in [Ids -> {None} \cup Request]
    /\ pending \in [Ids -> {None} \cup Pending]
    /\ stored \in [Ids -> {None} \cup Stored]
    /\ tree \subseteq UNION {Chain(p) : p \in Paths}
    /\ nodes \in [Ids -> {None} \cup Node]
    /\ sessions \in [Sessions -> {None} \cup Span]
    /\ threads \in [Sessions -> {None} \cup Span]
    /\ heads \in [Sessions -> {None} \cup Pointer]
    /\ player \in {None} \cup Playing
    /\ deaf \subseteq Ids /\ stale \subseteq Ids

Init ==
    /\ now = 1
    /\ stage = [r \in Ids |-> "new"] /\ request = [r \in Ids |-> None]
    /\ pending = [r \in Ids |-> None] /\ stored = [r \in Ids |-> None]
    /\ tree = {} /\ nodes = [r \in Ids |-> None]
    /\ sessions = [s \in Sessions |-> None] /\ threads = [s \in Sessions |-> None]
    /\ heads = [s \in Sessions |-> None]
    /\ player = None /\ deaf = {} /\ stale = {}

Tick ==
    /\ now < MaxTs /\ now' = now + 1
    /\ UNCHANGED <<stage, request, pending, stored, database, player, deaf, stale>>

-----------------------------------------------------------------------------
(***************************************************************************)
(* SessionsDb::record_tree: one transaction.                               *)
(***************************************************************************)
\* Mutant of Earliest: the first_seen_ts of the row is kept.
EarliestKept(a, b) == a
Earliest(a, b) == IF a < b THEN a ELSE b
Latest(a, b) == IF a > b THEN a ELSE b

\* Mutant of Newer: the head moves to whatever is recorded.
NewerAlways(head, ts) == TRUE

\* The WHERE of the upsert of session_heads.
Newer(head, ts) == head = None \/ ts >= head.ts

\* insert_message_path: every prefix of the path is in the tree.
MessagePath(rec) == Chain(rec.input \o rec.output)

\* Mutant of NodeOf: the upsert leaves the counts of the row as they were.
NodeCountsKept(r, rec) ==
    [ts |-> IF nodes[r] = None THEN rec.ts ELSE nodes[r].ts,
     session |-> rec.session, tip |-> rec.input \o rec.output,
     ins |-> IF nodes[r] = None THEN Len(rec.input) ELSE nodes[r].ins,
     outs |-> IF nodes[r] = None THEN Len(rec.output) ELSE nodes[r].outs]

\* The upsert of session_nodes: all but the time and the session is replaced.
NodeOf(r, rec) ==
    [ts |-> IF nodes[r] = None THEN rec.ts ELSE nodes[r].ts,
     session |-> rec.session, tip |-> rec.input \o rec.output,
     ins |-> Len(rec.input), outs |-> Len(rec.output)]

RecordTree(r, rec) ==
    LET s == rec.session IN
    /\ tree' = tree \cup MessagePath(rec)
    /\ nodes' = [nodes EXCEPT ![r] = NodeOf(r, rec)]
    /\ sessions' = [sessions EXCEPT ![s] =
         IF @ = None THEN [first |-> rec.ts, last |-> rec.ts] ELSE [@ EXCEPT !.last = rec.ts]]
    /\ threads' = [threads EXCEPT ![s] =
         IF @ = None THEN [first |-> rec.ts, last |-> rec.ts]
         ELSE [first |-> Earliest(@.first, rec.ts), last |-> Latest(@.last, rec.ts)]]
    /\ heads' = [heads EXCEPT ![s] =
         IF Newer(@, rec.ts) THEN [node |-> r, ts |-> rec.ts] ELSE @]

-----------------------------------------------------------------------------
(***************************************************************************)
(* The live handler.  An event is handled as it is emitted, or is lost.    *)
(***************************************************************************)
Advance(r, from, to) == stage[r] = from /\ stage' = [stage EXCEPT ![r] = to]

Fresh(r) == [ts |-> now, endpoint |-> FALSE, session |-> None, input |-> <<>>,
             upstream |-> None, converted |-> None]
EnsurePending(r) == IF pending[r] = None THEN Fresh(r) ELSE pending[r]

\* prune_stale
Old(q) == pending[q] # None /\ pending[q].ts < now - Retention

Arrive(r) ==
    /\ Advance(r, "new", "started")
    /\ \E s \in Sessions \cup {None}, i \in Inputs, o \in Outputs :
         request' = [request EXCEPT ![r] = [ts |-> now, session |-> s, input |-> i, output |-> o]]

Started(r) ==
    /\ Arrive(r)
    /\ pending' = [q \in Ids |-> IF q = r THEN [Fresh(r) EXCEPT !.endpoint = TRUE]
                                 ELSE IF Old(q) THEN None ELSE pending[q]]
    /\ stale' = stale \cup {q \in Ids \ {r} : Old(q)}
    /\ UNCHANGED <<now, stored, database, player, deaf>>

\* Only a request with a session keeps its body.
Extract(r) ==
    /\ Advance(r, "started", "extracted")
    /\ pending' = [pending EXCEPT ![r] =
         [EnsurePending(r) EXCEPT
           !.session = request[r].session,
           !.input = IF request[r].session = None THEN <<>> ELSE request[r].input]]
    /\ UNCHANGED <<now, request, stored, database, player, deaf, stale>>

UpstreamBody(r) ==
    /\ Advance(r, "extracted", "answered")
    /\ \E o \in Outputs :
         pending' = [pending EXCEPT ![r] = [EnsurePending(r) EXCEPT !.upstream = o]]
    /\ UNCHANGED <<now, request, stored, database, player, deaf, stale>>

\* RecordEvent::ConvertedBody of a stream, the body of ConvertResponse of a
\* buffered response: what the client is sent.
ConvertedBody(r) ==
    /\ Advance(r, "answered", "converted")
    /\ pending' = [pending EXCEPT ![r] = [EnsurePending(r) EXCEPT !.converted = request[r].output]]
    /\ UNCHANGED <<now, request, stored, database, player, deaf, stale>>

\* Mutant of ResponseBody: the body the upstream sent comes first.
ResponseBodyUpstream(p) ==
    IF p.upstream # None THEN p.upstream ELSE IF p.converted # None THEN p.converted ELSE <<>>

\* into_tree_record: the body to take the response of, ...
ResponseBody(p) ==
    IF p.converted # None THEN p.converted ELSE IF p.upstream # None THEN p.upstream ELSE <<>>

\* ... and whether there is anything to record.
Recordable(p) ==
    /\ p.session # None /\ p.endpoint
    /\ p.input # <<>> \/ ResponseBody(p) # <<>>

\* complete
Completed(r, success) ==
    /\ Advance(r, "converted", IF success THEN "done" ELSE "failed")
    /\ pending' = [pending EXCEPT ![r] = None]
    /\ IF pending[r] # None /\ success /\ Recordable(pending[r])
       THEN RecordTree(r, [ts |-> pending[r].ts, session |-> pending[r].session,
                           input |-> pending[r].input, output |-> ResponseBody(pending[r])])
       ELSE UNCHANGED database
    /\ UNCHANGED <<now, request, stored, player, deaf, stale>>

\* The channel overwrites the event, or the write of the node fails.
Lost(r) ==
    /\ \/ Arrive(r)
       \/ (\E i \in 2..5 : Advance(r, Stages[i], Stages[i + 1])) /\ UNCHANGED request
    /\ deaf' = deaf \cup {r}
    /\ UNCHANGED <<now, pending, stored, database, player, stale>>

-----------------------------------------------------------------------------
(***************************************************************************)
(* The requests handler fills the row of a request at its own pace: the    *)
(* request's messages, and later the response's.                           *)
(***************************************************************************)
StoreRequest(r) ==
    /\ stage[r] \notin {"new", "started"} /\ stored[r] = None
    /\ stored' = [stored EXCEPT ![r] = [input |-> request[r].input, output |-> <<>>]]
    /\ UNCHANGED <<now, stage, request, pending, database, player, deaf, stale>>

StoreResponse(r) ==
    /\ stage[r] \in {"converted", "done", "failed"} /\ stored[r] # None
    /\ stored[r].output = <<>>
    /\ stored' = [stored EXCEPT ![r].output = request[r].output]
    /\ UNCHANGED <<now, stage, request, pending, database, player, deaf, stale>>

-----------------------------------------------------------------------------
(***************************************************************************)
(* The playback command: playback_request_connection looks for the node,   *)
(* reads the row, and then records it.                                     *)
(***************************************************************************)
PlayRow(r, force) ==
    /\ player = None
    /\ stored[r] # None /\ request[r].session # None
    /\ force \/ nodes[r] = None
    /\ player' = [id |-> r, record |-> [ts |-> request[r].ts, session |-> request[r].session,
                                        input |-> stored[r].input, output |-> stored[r].output]]
    /\ UNCHANGED <<now, stage, request, pending, stored, database, deaf, stale>>

PlayRecord ==
    /\ player # None
    /\ RecordTree(player.id, player.record)
    /\ player' = None
    /\ UNCHANGED <<now, stage, request, pending, stored, deaf, stale>>

Live == \E r \in Ids :
    \/ Started(r) \/ Extract(r) \/ UpstreamBody(r) \/ ConvertedBody(r)
    \/ (\E success \in BOOLEAN : Completed(r, success)) \/ Lost(r)
    \/ StoreRequest(r) \/ StoreResponse(r)

Next ==
    \/ Tick \/ Live
    \/ \E r \in Ids, force \in BOOLEAN : PlayRow(r, force)
    \/ PlayRecord

Spec == Init /\ [][Next]_vars

-----------------------------------------------------------------------------
NodesOf(s) == {r \in Ids : nodes[r] # None /\ nodes[r].session = s}

(***************************************************************************)
(* The head of a session is its newest node, in whatever order the         *)
(* requests finish and the playback records them (session_heads of         *)
(* record_tree).                                                           *)
(***************************************************************************)
HeadIsNewest ==
    \A s \in Sessions :
        /\ heads[s] = None <=> NodesOf(s) = {}
        /\ heads[s] # None =>
             /\ heads[s].node \in NodesOf(s)
             /\ nodes[heads[s].node].ts = heads[s].ts
             /\ \A r \in NodesOf(s) : nodes[r].ts <= heads[s].ts

(***************************************************************************)
(* "Immutable messages form one content-addressed prefix tree" (the schema *)
(* of sessions.db): the tree has every prefix of each path, a node's tip   *)
(* is in it, and the counts of the node cut its path into the request's    *)
(* messages and a response to them (insert_message_path).                  *)
(***************************************************************************)
TreeWhole ==
    /\ \A p \in tree : Chain(p) \subseteq tree
    /\ \A r \in Ids : nodes[r] # None =>
         /\ nodes[r].tip \in tree
         /\ Len(nodes[r].tip) = nodes[r].ins + nodes[r].outs
         /\ SubSeq(nodes[r].tip, 1, nodes[r].ins) \in {<<>>, request[r].input}

(***************************************************************************)
(* The thread of a session spans exactly the times of its nodes, however   *)
(* they are recorded (the MIN and MAX of the upsert of session_threads).   *)
(***************************************************************************)
ThreadSpansNodes ==
    \A s \in Sessions : threads[s] # None =>
        /\ \A r \in NodesOf(s) : threads[s].first <= nodes[r].ts /\ nodes[r].ts <= threads[s].last
        /\ \E r \in NodesOf(s) : nodes[r].ts = threads[s].first
        /\ \E r \in NodesOf(s) : nodes[r].ts = threads[s].last

(***************************************************************************)
(* A request that succeeded in a session, none of whose events was lost    *)
(* and which was not taken for stale, has a node; without a playback at    *)
(* work on it or done with it, it shows what the client was sent           *)
(* (into_tree_record).                                                     *)
(***************************************************************************)
SuccessRecorded ==
    \A r \in Ids \ (deaf \cup stale) :
        stage[r] = "done" /\ request[r].session # None =>
            /\ nodes[r] # None
            /\ stored[r] = None =>
                 nodes[r].tip = request[r].input \o request[r].output

=============================================================================
