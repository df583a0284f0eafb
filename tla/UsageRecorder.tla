---------------------------- MODULE UsageRecorder ----------------------------
(***************************************************************************)
(* crates/persistence/src/usage.rs: UsageEventHandler gathers the events   *)
(* of each attempt in a pending record and writes one row of usage.db when *)
(* the attempt completes, and again when its usage comes later.            *)
(*                                                                         *)
(* A record is what its columns were filled from: the kinds of the events  *)
(* in `from`, the event its time is of, and which usage figures it has     *)
(* (figures n are those of the n-th Usage event; 0 are none).              *)
(***************************************************************************)
EXTENDS Integers

CONSTANTS
    Ids,       \* composite_request_id: a request and its attempt
    Kinds,     \* the events an attempt emits
    MaxUsage,  \* bound on the Usage events of one attempt
    Faulty,    \* whether events are lost and writes fail
    None

VARIABLES
    emitted,   \* the kinds each attempt has emitted
    usages,    \* how many Usage events it has emitted
    pending,   \* UsageEventHandler.pending
    rows,      \* the requests table of usage.db, by request_id
    heard,     \* history: the kinds that reached the handler
    latest,    \* history: the last figures that reached it
    late,      \* history: the attempts with a Usage event after their row
               \* had figures
    failed     \* history: the attempts with a row that could not be written

vars == <<emitted, usages, pending, rows, heard, latest, late, failed>>

\* The events that fill columns at once, and those that leave the handler alone.
Filling == {"Started", "Extract", "Resolve", "Send", "ConvertResponse", "Error",
            "InboundConnection", "UpstreamReq", "UpstreamResp"}
Ignored == {"BuildHeaders", "ConvertRequest", "UpstreamBody", "ConvertedBody"}
Records == {"InboundConnection", "UpstreamReq", "UpstreamResp", "UpstreamBody",
            "ConvertedBody", "Usage"}
AllKinds == Filling \cup Ignored \cup {"Usage", "Completed"}

KindsAssumption ==
    /\ {"Usage", "Completed"} \subseteq Kinds /\ Kinds \subseteq AllKinds
    /\ MaxUsage \in Nat /\ Faulty \in BOOLEAN

\* PendingUsageRecord; model is what model_is_known says of it.
Pending == [ts : {"zero"} \cup AllKinds, from : SUBSET Filling, model : BOOLEAN,
            figures : 0..MaxUsage, seen : BOOLEAN, completed : BOOLEAN]
Row == [ts : {"zero"} \cup AllKinds, from : SUBSET Filling, figures : 0..MaxUsage]

NoneAssumption == None \notin Pending \cup Row

TypeOK ==
    /\ emitted \in [Ids -> SUBSET Kinds]
    /\ usages \in [Ids -> 0..MaxUsage]
    /\ pending \in [Ids -> {None} \cup Pending]
    /\ rows \in [Ids -> {None} \cup Row]
    /\ heard \in [Ids -> SUBSET Kinds]
    /\ latest \in [Ids -> 0..MaxUsage]
    /\ late \subseteq Ids /\ failed \subseteq Ids

Init ==
    /\ emitted = [r \in Ids |-> {}] /\ usages = [r \in Ids |-> 0]
    /\ pending = [r \in Ids |-> None] /\ rows = [r \in Ids |-> None]
    /\ heard = [r \in Ids |-> {}] /\ latest = [r \in Ids |-> 0]
    /\ late = {} /\ failed = {}

\* The order in which an attempt emits (RequestPipeline!LogOrdered).
MayEmit(r, k) ==
    /\ IF k = "Usage" THEN usages[r] < MaxUsage ELSE k \notin emitted[r]
    /\ (k = "Started") = (emitted[r] = {})
    /\ "Completed" \in emitted[r] => k \in Records

Emit(r, k) ==
    /\ MayEmit(r, k)
    /\ emitted' = [emitted EXCEPT ![r] = @ \cup {k}]
    /\ usages' = IF k = "Usage" THEN [usages EXCEPT ![r] = @ + 1] ELSE usages

\* The broadcast channel overwrites the event before it is read.
Lose(r, k) ==
    /\ Faulty /\ Emit(r, k)
    /\ UNCHANGED <<pending, rows, heard, latest, late, failed>>

Hear(r, k) ==
    /\ Emit(r, k)
    /\ heard' = [heard EXCEPT ![r] = @ \cup {k}]

-----------------------------------------------------------------------------
\* The time an event gives to a record that it creates.
TsOf(k) == IF k \in {"Started", "Send", "UpstreamResp", "Completed"} THEN k ELSE "zero"

\* ensure_pending
EnsurePending(r, k) ==
    IF pending[r] # None THEN pending[r]
    ELSE [ts |-> TsOf(k), from |-> {}, model |-> FALSE,
          figures |-> 0, seen |-> FALSE, completed |-> FALSE]

\* Mutant of Ready: a row is written at Completed whatever is known.
ReadyAtOnce(p) == p.completed

\* persist_if_ready: the condition, ...
Ready(p) == p.completed /\ p.model

\* Mutant of Finished: the record goes as soon as its row is written.
FinishedAtOnce(p) == p.completed

\* ... when the record is done with, ...
Finished(p) == p.completed /\ p.seen

\* ... and the row it writes (INSERT OR REPLACE); when that fails, nothing else.
PersistIfReady(r, p) ==
    \/ /\ Ready(p)
       /\ rows' = [rows EXCEPT ![r] = [ts |-> p.ts, from |-> p.from, figures |-> p.figures]]
       /\ pending' = [pending EXCEPT ![r] = IF Finished(p) THEN None ELSE p]
       /\ UNCHANGED failed
    \/ /\ Ready(p) /\ Faulty
       /\ failed' = failed \cup {r}
       /\ pending' = [pending EXCEPT ![r] = p]
       /\ UNCHANGED rows
    \/ /\ ~Ready(p)
       /\ pending' = [pending EXCEPT ![r] = p]
       /\ UNCHANGED <<rows, failed>>

\* on_started, on_extract, on_resolve, on_send, on_convert_response, on_error,
\* on_inbound_connection, on_upstream_req, on_upstream_resp.
Fill(r, k) ==
    /\ k \in Filling /\ Hear(r, k)
    /\ \E known \in (IF k = "Extract" THEN BOOLEAN ELSE {EnsurePending(r, k).model}) :
         pending' = [pending EXCEPT ![r] =
           [EnsurePending(r, k) EXCEPT
             !.from = @ \cup {k}, !.model = known,
             !.ts = IF k = "Started" THEN "Started" ELSE @]]
    /\ UNCHANGED <<rows, latest, late, failed>>

Ignore(r, k) ==
    /\ k \in Ignored /\ Hear(r, k)
    /\ UNCHANGED <<pending, rows, latest, late, failed>>

OnCompleted(r) ==
    /\ Hear(r, "Completed")
    /\ PersistIfReady(r, [EnsurePending(r, "Completed") EXCEPT !.completed = TRUE])
    /\ UNCHANGED <<latest, late>>

\* Mutant of OnUsage: the figures that came first are kept.
OnUsageFirst(r) ==
    /\ Hear(r, "Usage")
    /\ PersistIfReady(r, [EnsurePending(r, "Usage") EXCEPT
         !.figures = IF @ = 0 THEN usages[r] + 1 ELSE @, !.seen = TRUE])
    /\ latest' = [latest EXCEPT ![r] = usages[r] + 1]
    /\ late' = IF rows[r] # None /\ rows[r].figures # 0 THEN late \cup {r} ELSE late

OnUsage(r) ==
    /\ Hear(r, "Usage")
    /\ PersistIfReady(r, [EnsurePending(r, "Usage") EXCEPT
         !.figures = usages[r] + 1, !.seen = TRUE])
    /\ latest' = [latest EXCEPT ![r] = usages[r] + 1]
    /\ late' = IF rows[r] # None /\ rows[r].figures # 0 THEN late \cup {r} ELSE late

Next ==
    \E r \in Ids :
        \/ \E k \in Kinds : Lose(r, k) \/ Fill(r, k) \/ Ignore(r, k)
        \/ OnCompleted(r) \/ OnUsage(r)

Spec == Init /\ [][Next]_vars

-----------------------------------------------------------------------------
(***************************************************************************)
(* The row of an attempt has the last usage figures that reached the       *)
(* handler, before its Completed event or after it, and the time of its    *)
(* Started event if that arrived.  The exception are figures that come     *)
(* after others and after Completed: those find the record gone            *)
(* (persist_if_ready).                                                     *)
(***************************************************************************)
RowCurrent ==
    \A r \in Ids \ (late \cup failed) : rows[r] # None =>
        /\ rows[r].figures = latest[r]
        /\ "Started" \in heard[r] => rows[r].ts = "Started"

(***************************************************************************)
(* Exactly the attempts that completed with a known model have a row, and  *)
(* it has every column the stage events before Completed filled, whatever  *)
(* the channel lost of the others.                                         *)
(***************************************************************************)
RowWritten ==
    \A r \in Ids \ failed :
        /\ rows[r] # None => {"Extract", "Completed"} \subseteq heard[r]
        /\ rows[r] # None => heard[r] \cap (Filling \ Records) \subseteq rows[r].from
        /\ "Completed" \in heard[r] /\ pending[r] # None /\ pending[r].model => rows[r] # None

(***************************************************************************)
(* What the handler forgets: the record of an attempt that completed goes  *)
(* when its row has usage figures and not before, so that usage that is    *)
(* still to come finds it; a record it keeps beside such a row was begun   *)
(* after the end, will never complete, and stays for good, as do those of  *)
(* attempts without usage (persist_if_ready; there is no flush).           *)
(***************************************************************************)
ForgottenWithUsage ==
    \A r \in Ids \ failed :
        /\ "Completed" \in heard[r] /\ pending[r] = None => rows[r] # None
        /\ rows[r] # None =>
             (rows[r].figures # 0 <=> (pending[r] = None \/ ~pending[r].completed))

=============================================================================
